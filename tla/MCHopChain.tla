----------------------------- MODULE MCHopChain -----------------------------
(* A request with a body, one without and one the plane does not approve;   *)
(* two presentations at each gate; replay sets that a single request fills. *)
EXTENDS HopChain

MCLifetime == [pb |-> 1, ba |-> 1]

Host   == <<"host", "lab">>
Type   == <<"content-type", FormType>>
Length == <<"content-length", 2>>

MCClient ==
    << [method |-> "POST", headers |-> <<Host, Type, Length, <<"accept", "any">> >>, body |-> 2],
       [method |-> "GET",  headers |-> << <<"connection", "close">>, Host>>, body |-> 0],
       [method |-> "GET",  headers |-> <<Host, <<"x-forwarded-for", "any">> >>, body |-> 0] >>

\* One header too many, one twice, one changed, one missing.
MCTampered ==
    {<<Host, <<"x-forwarded-for", "any">> >>, <<Host, Type, Length, Host>>,
     << <<"host", "other">>, Type, Length>>, <<Type, Length>>}

\* Whatever short list of headers a client sends, a request the plane approves is
\* emitted in a form that both verifiers accept and find equal to what was signed.
SmallHeaders == {Host, Type, Length, <<"content-length", 0>>, <<"connection", "close">>,
                 <<"origin", "uncanonical">>, <<"cf-ray", "any">>, <<"te", "any">>}
SmallRequests == [method : {"GET", "POST", "PUT"}, body : {0, 2},
                  headers : UNION {[1 .. n -> SmallHeaders] : n \in 0 .. 3}]
ASSUME RoundTrip ==
    \A r \in SmallRequests :
        Approvable(r) =>
          LET s == buildApprovedRequest(r) IN
          /\ parseRequest(s)
          /\ scanHopHeaders(semanticWireHeaders(s), s.method) = "none"
          /\ WireMatches(semanticWireHeaders(s), s)
=============================================================================
