------------------------ MODULE MCAdmissionAuthority ------------------------
(* Small instances of AdmissionAuthority: calls that reach it in any way,  *)
(* and calls that come through AdmissionService.                           *)
EXTENDS AdmissionService

CONSTANTS n1, n2, c1, c2

ServiceHorizon == 2

W(limit, window) == [limit |-> limit, window |-> window]

\* Two requests of one client, a second client that may present their
\* permits, and a release rotation in the middle.  A permit lives long enough
\* for both requests to meet at the quota of the second stage.
TwoNonces    == {n1, n2}
MCClients    == {c1, c2}
TwoClientOf  == [n \in TwoNonces |-> c1]
MCReleases   == {[id |-> "old", activated |-> 0, retired |-> 3],
                 [id |-> "new", activated |-> 2, retired |-> NoTime]}
MCIssueTimes == 0 .. 2
TightPolicy  == [pre  |-> [client |-> W(1, 2), clientBurst |-> W(1, 1),
                           global |-> W(1, 1)],
                 post |-> [client |-> W(1, 2), global |-> W(1, 1)]]

\* The service is deployed with the new release before the old application is gone.
Served(role, id, activated, retired) ==
    [role |-> role, releaseId |-> id, keyId |-> id, key |-> id, activated |-> activated, retired |-> retired]
MCServiceConfigs == {{Served("current", "old", 0, NoTime)},
                     {Served("previous", "old", 0, 2), Served("current", "new", 1, NoTime)}}
MCApps == {[releaseId |-> id, keyId |-> id, key |-> id] : id \in {"old", "new"}}
MCTokens == {[claims |-> "policy", iat |-> 0, nbf |-> 0, exp |-> 3]}

-----------------------------------------------------------------------------
(* One half at a time: calls that reach the authority in any way while     *)
(* nothing is sent, or the first moments of one request's calls through    *)
(* the service.  An alarm and a step back of the clock are not mixed       *)
(* (DeletionsAreFinal): a behaviour has one of the two.                    *)

ServiceAtRest   == rpcs = {} /\ serving = CHOOSE releases \in MCServiceConfigs : Cardinality(releases) = 1
AuthorityAtRest == issuedAt = [n \in Nonces |-> 0] /\ clock = 0 /\ lastNow = 0 /\ grants = {} /\ stepsBack = 0

MCInit == Init /\ ServiceInit /\ (ServiceAtRest \/ AuthorityAtRest)

AuthorityMoves ==
    /\ ServiceAtRest
    /\ Next
    /\ stepsBack' > 0 => alarmAt' = FirstAlarm
    /\ UNCHANGED service

ServiceMoves ==
    /\ AuthorityAtRest \/ rpcs # {}
    /\ ServiceNext
    /\ clock' <= ServiceHorizon
    /\ \A m \in rpcs' : m.nonce = n1

MCSpec == MCInit /\ [][AuthorityMoves \/ ServiceMoves]_serviceVars
=============================================================================
