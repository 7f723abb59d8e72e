--------------------------- MODULE MCDefensePlane ---------------------------
(* Two requests and bulkheads of one place: each can find the other's      *)
(* evaluation running, abandoned or reclaimed.  And, as a system of its    *)
(* own, the run that arms such a plane.                                    *)
EXTENDS DefensePlane, CollapseArm

CONSTANTS r1, r2

MCRequests == {r1, r2}

\* A render of the form; a submission or an unknown route, both armed.
MCKinds ==
    r1 :> {[class |-> "open", form |-> TRUE, body |-> "none", arm |-> "none"]} @@
    r2 :> {[class |-> "mutation", form |-> FALSE, body |-> "pending", arm |-> "l2"],
           [class |-> "unknown", form |-> FALSE, body |-> "none", arm |-> "l1"]}

OnePlace == [layer \in Layers |-> 1]

-----------------------------------------------------------------------------

PlaneAtRest == ingress = "open" /\ \A r \in Requests : req[r] = Idle
CollapseAtRest == arm = 1 /\ harness = FreshHarness /\ conclusion = "none"

Expects(i) ==
    CASE Name \in {"C0r", "C0"} -> NormalExpects(i)
      [] Name \in {"C1", "C2"}  -> CollapseExpects(i)
      [] Name = "C2p"           -> C2pExpects(i)

\* A gate that failed settles the run, and so do an arm that was not granted and a request that is not
\* what its gate asks for: nothing after them is explored.
OnTrack ==
    /\ gatesOk /\ \A n \in DOMAIN records : records[n]
    /\ \A i \in SentSteps : i < harness.at /\ seen[i].pc = "done" => Expects(i)

\* Only the reader of the form goes away by itself; the other client stays until it is cut off.
MCNext ==
    \/ /\ CollapseAtRest /\ PlaneNext
       /\ ingress' # "destroyed" => req'[r2].up
       /\ UNCHANGED collapseVars
    \/ PlaneAtRest /\ OnTrack /\ CollapseNext /\ UNCHANGED planeVars

MCInit == PlaneInit /\ CollapseInit
MCSpec == MCInit /\ [][MCNext]_<<planeVars, collapseVars>> /\ Fairness
=============================================================================
