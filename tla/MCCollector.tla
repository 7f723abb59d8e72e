----------------------------- MODULE MCCollector ----------------------------
(* Two children.  The plane emits enough for frames of two events, a full  *)
(* window, a full queue and a drop; the app's only part is to be finished  *)
(* after it.  The external lane sees a request served, one that timed out  *)
(* on the way, one the boundary refused late, one shed, a refused bypass,  *)
(* one that was not refused and one that never ends; it remembers a single *)
(* closed request; any three of them begin.  The ledger holds a sound      *)
(* journey and any two others.                                             *)
(*                                                                         *)
(* The collector of a laboratory run is the three together: the streams of *)
(* the children (EventChannel), the external lane fed from them            *)
(* (ExternalReducer) and the ledger of the requests the harness registered *)
(* (RunLedger).  A frame that is lost or repeated makes the run invalid in *)
(* the channel already, so the lane and the ledger are given complete      *)
(* streams; a nonce belongs to one of the two, and nothing else is shared. *)
EXTENDS EventChannel, ExternalReducer, RunLedger

collectorVars == <<channelVars, reducerVars, ledgerVars>>

MCChildren == <<"plane", "app">>
MCQueueCap == [plane |-> 2, app |-> 1]
MCWindowCap == [plane |-> 2, app |-> 1]
MCMaxFrame == [plane |-> 2, app |-> 1]
MCMaxEvents == [plane |-> 5, app |-> 0]

Ev(k) == [k |-> k, v |-> "none"]
EvV(k, v) == [k |-> k, v |-> v]

\* A decision of the unverified lane, and the admission of a request the layer lets pass as it is.
OfLane(outcome) == [class |-> "mutation", lane |-> "unverified", outcome |-> outcome, numbered |-> TRUE,
                    tag |-> FALSE, spent |-> "none", touched |-> "none", shadow |-> Natural]
Admit == OfLane("admitted")
ShedDecision == OfLane("shed")
OpenAdmit == [Admit EXCEPT !.class = "open", !.lane = "open", !.numbered = FALSE]

\* What a plane with or without L2 records of a request up to the layers' verdict, and up to the proof.
Entered == <<Ev("INGRESS_ACCEPTED"), Ev("L1_ENTERED")>>
Decided(with, decision) ==
    Entered \o <<Ev("L1_PASSED")>> \o IF with THEN <<Ev("L2_ENTERED"), EvV("L2_DECIDED", decision)>> ELSE <<>>
SignedAs(with, decision) == Decided(with, decision) \o <<Ev("EGRESS_ATTEMPTED"), EvV("PROOF_ISSUED", 1)>>
Signed(with) == SignedAs(with, Admit)
Answered == <<EvV("EGRESS_RESPONDED", 200), EvV("INGRESS_RESPONDED", 200)>>
GivenUp == <<EvV("EGRESS_FAILED", "timeout"), EvV("INGRESS_RESPONDED", 504)>>

Forward == <<Ev("BOUNDARY_ARRIVED"), EvV("BOUNDARY_ADMITTED", 1), EvV("APP_PROOF_ISSUED", 1), Ev("BOUNDARY_FORWARDED")>>
Relayed == Forward \o <<EvV("BOUNDARY_FORWARD_RESPONDED", 200), Ev("BOUNDARY_RESPONDED")>>
Refused == <<Ev("BOUNDARY_ARRIVED"), EvV("BOUNDARY_REJECTED", "proof"), Ev("BOUNDARY_RESPONDED")>>

Run(tag) == <<EvV("APP_ADMITTED", tag), Ev("APP_EXECUTED")>>
Done == <<EvV("APP_COMPLETED", 200)>>
Mutated(tag) == Run(tag) \o <<Ev("APP_MUTATED")>> \o Done

-----------------------------------------------------------------------------
(* The external lane                                                       *)

Served == [plane |-> <<Signed(TRUE), Answered>>, boundary |-> <<Relayed>>, app |-> <<Mutated(1)>>]
TimedOut == [plane |-> <<Signed(TRUE), GivenUp>>,
             boundary |-> <<Forward \o <<Ev("BOUNDARY_FORWARD_FAILED"), Ev("BOUNDARY_ABORTED")>> >>,
             app |-> <<Run(1) \o <<Ev("APP_ABORTED")>> >>]
RefusedLate == [plane |-> <<Signed(TRUE) \o GivenUp>>, boundary |-> <<Refused>>, app |-> <<>>]
Shed == [plane |-> <<Decided(TRUE, ShedDecision) \o <<EvV("INGRESS_RESPONDED", 503)>> >>, boundary |-> <<>>, app |-> <<>>]
RefusedBypass == [plane |-> <<>>, app |-> <<>>, boundary |-> <<Refused>>]
Bypass == [plane |-> <<>>, boundary |-> <<>>, app |-> << <<Ev("APP_ADMITTED"), EvV("APP_COMPLETED", 200)>> >>]
Stalled == [plane |-> <<Entered>>, boundary |-> <<>>, app |-> <<>>]

MaxBegun == 3

MCAllowedShed == {ShedDecision}
MCTraffic == <<Served, TimedOut, RefusedLate, Shed, RefusedBypass, Bypass, Stalled>>

-----------------------------------------------------------------------------
(* The ledger: every combination of what the processes may have recorded   *)
(* of a request and what its client may have seen.                         *)

Planes(with) ==
    {Signed(with) \o Answered, Signed(with) \o GivenUp,
     Signed(with) \o <<EvV("EGRESS_RESPONDED", 200), Ev("INGRESS_ABORTED")>>,
     IF with THEN Decided(with, ShedDecision) \o <<EvV("INGRESS_RESPONDED", 503)>>
             ELSE Entered \o <<Ev("L1_SHED"), EvV("INGRESS_RESPONDED", 503)>>,
     <<>>}
Boundaries == {Relayed, Forward \o <<Ev("BOUNDARY_FORWARD_FAILED"), Ev("BOUNDARY_RESPONDED")>>, Refused, <<>>}
Apps == {Run(1) \o Done, Mutated(1), Mutated(2), Run(1) \o <<Ev("APP_MUTATED"), Ev("APP_ABORTED")>>,
         <<EvV("APP_REFUSED", "proof")>>, <<>>}

Answer(status, redirect) == [result |-> "response", status |-> status, redirect |-> redirect]
Lost == [result |-> "reset", status |-> 0, redirect |-> FALSE]
Clients == {Answer(200, TRUE), Answer(503, FALSE), Lost}

Request(lane, journey, plane, boundary, app, client) ==
    [lane |-> lane, journey |-> journey, render |-> FALSE, named |-> TRUE, changed |-> FALSE, expect |-> "none",
     plane |-> plane, boundary |-> boundary, app |-> app, origin |-> <<>>, client |-> client]
Control(n, changed, client) ==
    [Request("control", n, <<>>, <<>>, <<>>, client) EXCEPT
       !.origin = <<Ev("ORIGIN_RECEIVED"), Ev("ORIGIN_COMPLETED")>>, !.changed = changed]

CanaryOf == [with \in BOOLEAN |->
    {Control(1, TRUE, Answer(200, TRUE)),
     Request("protected", 1, Signed(with) \o Answered, Relayed, Mutated(1), Answer(200, TRUE))}]
MCCanary(with) == CanaryOf[with]

Through(with) ==
    {{Request("protected", n, p, b, a, c)} :
       n \in {0, 2}, p \in Planes(with), b \in Boundaries, a \in Apps, c \in Clients}
Baseline == {{Control(3, changed, c)} : changed \in BOOLEAN, c \in {Answer(200, TRUE), Lost}}
Unregistered ==
    {{[Request("stranger", 0, <<>>, b, a, Lost) EXCEPT !.named = n]} : b \in {Refused, <<>>}, a \in Apps, n \in BOOLEAN}
Renders == {{[Request("protected", 0, SignedAs(TRUE, OpenAdmit) \o enrolled \o Answered, Relayed, Run(1) \o Done, Answer(200, FALSE))
                EXCEPT !.render = TRUE]} : enrolled \in {<<>>}}
Direct ==
    {{[Request(lane, 0, <<>>, b, a, Answer(403, FALSE)) EXCEPT !.expect = "proof"]} :
       lane \in RejectedLanes, b \in {Refused, Relayed, <<>>}, a \in Apps}
Positive ==
    {{[Request(lane, 0, <<>>, b, a, Answer(200, FALSE)) EXCEPT !.expect = "positive"]} :
       lane \in PositiveControls, b \in {Relayed, <<>>}, a \in {Run(1) \o Done, Mutated(1), <<>>}}
Parser ==
    {{[Request("direct_boundary_rejected", 0, <<>>, b, <<>>, Answer(400, FALSE)) EXCEPT !.expect = "parser"]} :
       b \in {<<>>, Refused}}
PreIngress ==
    {{Request("pre_ingress", 0, <<>>, <<>>, <<>>, Answer(400, FALSE)),
      [Request("stranger", 0, <<Ev("PARSER_REJECTED")>>, <<>>, <<>>, Lost) EXCEPT !.named = FALSE]}}

ItemsOf == [with \in BOOLEAN |->
    Through(with) \union Baseline \union Unregistered
      \union IF with THEN Renders ELSE Direct \union Positive \union Parser \union PreIngress]
MCItems(with) == ItemsOf[with]
CleanItems == [with \in BOOLEAN |-> {item \in MCItems(with) : \A q \in item : ~Anomalous(q, with)}]

-----------------------------------------------------------------------------

ChannelAtRest ==
    /\ run = [pc |-> "starting", at |-> 0, frozen |-> FALSE, verdict |-> "none"]
    /\ \A c \in Names : ~handle[c].ready
ReducerAtRest == Begun = {} /\ ~waited /\ ~over
LedgerAtRest == happened = 0 /\ verdict = "none"

\* An anomaly settles the verdict: a further item is added only where there is none.
MCLedgerNext ==
    \/ happened = 0 /\ \E item \in Items(l2) : Happen(item)
    \/ happened \in 1 .. (MaxItems - 1) /\ NoAnomalies /\ \E item \in CleanItems[l2] : Happen(item)
    \/ JudgeRun

\* The three parts share nothing: it is enough to let one of them move, from one ledger.  A report is
\* for good and both invariants of the external lane are settled by it: nothing after it is explored.
MCNext ==
    \/ l2 /\ LedgerAtRest /\ ReducerAtRest /\ ChannelNext /\ UNCHANGED <<reducerVars, ledgerVars>>
    \/ /\ l2 /\ LedgerAtRest /\ ChannelAtRest /\ ~reducer.reported /\ ReducerNext
       /\ Cardinality(Begun') <= MaxBegun /\ UNCHANGED <<channelVars, ledgerVars>>
    \/ ChannelAtRest /\ ReducerAtRest /\ MCLedgerNext /\ UNCHANGED <<channelVars, reducerVars>>

MCInit == ChannelInit /\ ReducerInit /\ LedgerInit
MCSpec == MCInit /\ [][MCNext]_collectorVars /\ Fairness
=============================================================================
