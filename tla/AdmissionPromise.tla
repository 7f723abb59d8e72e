-------------------------- MODULE AdmissionPromise --------------------------
(***************************************************************************)
(* What the admission authority promises to its callers, without time,     *)
(* quotas, rows or pruning: a signed nonce is admitted at most once and    *)
(* consumed at most once, and only after it was admitted.  It may refuse   *)
(* any call.                                                               *)
(***************************************************************************)
CONSTANT Nonces

VARIABLES
    grants,      \* allowed claimPre answers, records with a nonce
    uses         \* allowed consumePost answers, records with a nonce

vars == <<grants, uses>>

Init == grants = {} /\ uses = {}

Claim(n) ==
    /\ \A g \in grants : g.nonce # n
    /\ \E g \in grants' : g.nonce = n /\ grants' = grants \union {g}
    /\ UNCHANGED uses

Consume(n) ==
    /\ \E g \in grants : g.nonce = n
    /\ \A u \in uses : u.nonce # n
    /\ \E u \in uses' : u.nonce = n /\ uses' = uses \union {u}
    /\ UNCHANGED grants

Next == \E n \in Nonces : Claim(n) \/ Consume(n)

Spec == Init /\ [][Next]_vars
=============================================================================
