------------------------ MODULE NotificationPromise ------------------------
(***************************************************************************)
(* What the outbox promises, without claims, leases, workers or time: a    *)
(* committed notification stays queued until it is decided once, it is     *)
(* recorded as sent only after the provider accepted it, and the provider  *)
(* may accept it at any time after it was queued, also more than once and  *)
(* also after it was recorded as failed (delivery is at least once).       *)
(***************************************************************************)
CONSTANT Rows

VARIABLES
    fate,        \* "absent", "queued", "sent" or "failed", per row
    accepted     \* rows whose e-mail the provider has accepted

vars == <<fate, accepted>>

Init == fate = [r \in Rows |-> "absent"] /\ accepted = {}

Queue(r) ==
    /\ fate[r] = "absent"
    /\ fate' = [fate EXCEPT ![r] = "queued"]
    /\ UNCHANGED accepted

Accept(r) ==
    /\ fate[r] # "absent"
    /\ accepted' = accepted \union {r}
    /\ UNCHANGED fate

Decide(r) ==
    /\ fate[r] = "queued"
    /\ \/ r \in accepted /\ fate' = [fate EXCEPT ![r] = "sent"]
       \/ fate' = [fate EXCEPT ![r] = "failed"]
    /\ UNCHANGED accepted

Next == \E r \in Rows : Queue(r) \/ Accept(r) \/ Decide(r)

Spec == Init /\ [][Next]_vars
=============================================================================
