----------------------------- MODULE CollapseArm -----------------------------
(***************************************************************************)
(* The predecessor-collapse run (lab/defense/ba0-collapse-run.ts): five    *)
(* arms, each with its own processes, one after the other.  In C1 and C2   *)
(* the harness makes a layer's refusal pass, for one request at a time, by *)
(* arming the plane over its IPC pipe (collapse/controller.ts and          *)
(* collapse/override.ts); in C2p it breaks the layers for real             *)
(* (collapse/plane-collapse-main.ts).  C0r and C0 run the ordinary plane   *)
(* entries, which have no handler for such a message.                      *)
(*                                                                         *)
(* The pipe is ordered, the request's connection is another channel:       *)
(* nothing orders a control message and a request but an acknowledgement.  *)
(* A nonce, a connection's port and a digest together name a request; here *)
(* it is the step of the body that sends it.  The gates on accounting and  *)
(* on the canary are RunLedger's: they can only refuse more.               *)
(***************************************************************************)
EXTENDS Integers, Sequences, SequencesExt, FiniteSets, FiniteSetsExt

CONSTANTS
    ArmTtl,          \* 5 s: how long an arm may be used
    ArmTimeout,      \* 2 s: how long the controller waits for the plane's answer
    ClientTimeout,   \* 5 s: how long a client waits for its response
    MaxOutstanding,  \* MAX_OUTSTANDING_ARMS
    L2Places,        \* the bulkhead of the second layer in C2p
    MaxArmTime       \* bound on the clock of one arm

ASSUME CollapseAssumption ==
    /\ {ArmTtl, ArmTimeout, ClientTimeout, MaxOutstanding, L2Places, MaxArmTime} \subseteq Nat \ {0}
    /\ 2 * ArmTimeout <= ClientTimeout    \* both acknowledgements come or fail before the client gives up

ArmNames == <<"C0r", "C0", "C1", "C2", "C2p">>
HasL2(name) == name # "C0r"
CanCollapse(name) == name \in {"C1", "C2", "C2p"}

-----------------------------------------------------------------------------
(* What is sent: what L1 says of it, its class at L2, and where it ends    *)
(* when every layer lets it through.                                       *)

FormFixture == [l1 |-> "reject", class |-> "mutation", ends |-> "app_executed_no_mutation"]
SemFixture  == [l1 |-> "reject", class |-> "open", ends |-> "canon_refused"]
Fabricated  == [l1 |-> "pass", class |-> "mutation", ends |-> "app_mutated"]
FormPage    == [l1 |-> "pass", class |-> "open", ends |-> "app_executed_no_mutation"]

\* layers: those armed beforehand, in this order; "own" marks the POST of the token that the degraded page carried.
Send(what, layers) == [do |-> "send", what |-> what, layers |-> layers, phase |-> "natural", own |-> FALSE]
sendForced(what, layers, phase) == [Send(what, layers) EXCEPT !.phase = phase]
sendUnderArmAttempt == [Send(SemFixture, <<>>) EXCEPT !.phase = "attempt"]
Fault(layer, kind, n) == [do |-> "fault", layer |-> layer, kind |-> kind, remaining |-> n]
Probe == [do |-> "probe"]

\* The bodies, with the counts of repeated requests scaled down.
bodyCollapse(both) ==
    LET layers == IF both THEN <<"l1", "l2">> ELSE <<"l1">>
    IN  <<Probe, sendForced(FormFixture, layers, "collapse"), sendForced(SemFixture, layers, "collapse")>>
          \o (IF both THEN <<sendForced(Fabricated, <<"l2">>, "collapse")>>
              ELSE <<sendForced(FormFixture, <<"l1">>, "collapse_burst"), Send(Fabricated, <<>>)>>)
          \o <<Probe>>

bodyC2p ==
    LET post == Send(Fabricated, <<>>)
    IN  <<Fault("l2", "throw", 3), post, Send(FormPage, <<>>), post, Fault("l2", "hang", L2Places)>>
          \o [i \in 1 .. (L2Places + 1) |-> post]
          \o <<Fault("l1", "throw", 1), post, [post EXCEPT !.own = TRUE]>>

Body(name) ==
    CASE name \in {"C0r", "C0"} -> <<Send(Fabricated, <<>>), sendUnderArmAttempt>>
      [] name = "C1"            -> bodyCollapse(FALSE)
      [] name = "C2"            -> bodyCollapse(TRUE)
      [] name = "C2p"           -> bodyC2p
      [] OTHER                  -> <<>>

-----------------------------------------------------------------------------

VARIABLES
    arm,      \* which arm runs, as an index of ArmNames
    harness,  \* at: the step of the body; pc; todo: layers still to be armed; since, sent: when it began to wait
    down, up, \* the pipe to the plane and back
    plane,    \* the override's arms, its refusals, the fault of each layer, abandoned evaluations, the enrolled token
    seen,     \* per step: what became of its request in the plane
    records,  \* the controller's records: was the arm granted?
    quiet,    \* what the last probe told
    clock, gatesOk, conclusion

collapseVars == <<arm, harness, down, up, plane, seen, records, quiet, clock, gatesOk, conclusion>>

Name == ArmNames[arm]
Steps == 1 .. Len(Body(Name))
Step == Body(Name)[harness.at]
Sends(i) == Body(Name)[i].do = "send"

NoRequest == [pc |-> "none", l1 |-> "none", l2 |-> "none", lane |-> "none", why |-> "none",
              simulated |-> {}, failed |-> FALSE, end |-> "none"]
NoProbe == [armed |-> -1]
NoFault == [kind |-> "none", remaining |-> 0]
BothLayers == {"l1", "l2"}

\* A freshly forked plane, and the harness at the first step.
FreshHarness == [at |-> 1, pc |-> "next", todo |-> <<>>, since |-> 0, sent |-> 0]
FreshPlane == [arms |-> {}, refused |-> 0, fault |-> [layer \in BothLayers |-> NoFault], abandoned |-> 0, enrolled |-> FALSE]
FreshSeen(name) == [i \in 1 .. Len(Body(name)) |-> NoRequest]

CollapseInit ==
    /\ arm = 1 /\ harness = FreshHarness /\ plane = FreshPlane /\ seen = FreshSeen(ArmNames[1])
    /\ down = <<>> /\ up = <<>> /\ records = <<>> /\ quiet = NoProbe
    /\ clock = 0 /\ gatesOk = TRUE /\ conclusion = "none"

-----------------------------------------------------------------------------
(* The harness                                                             *)

InArm == conclusion = "none" /\ harness.at \in Steps
Advance(h) == [h EXCEPT !.at = @ + 1, !.pc = "next", !.todo = <<>>]

\* beforeWrite() is done: the head is written, the client waits.
Transmit(h) == /\ harness' = [h EXCEPT !.pc = "awaiting", !.sent = clock]
               /\ seen' = [seen EXCEPT ![h.at].pc = "l1"]

\* CollapseController.arm() for the first layer of todo.
AskFor(todo) ==
    /\ harness' = [harness EXCEPT !.pc = "arming", !.todo = todo, !.since = clock]
    /\ down' = Append(down, [type |-> "arm", step |-> harness.at, layer |-> Head(todo)])

Connect ==
    /\ InArm /\ harness.pc = "next" /\ Step.do = "send"
    /\ IF Step.layers # <<>>
       THEN AskFor(Step.layers) /\ UNCHANGED seen
       ELSE /\ Transmit(harness)
            /\ down' = IF Step.phase = "attempt"
                       THEN Append(down, [type |-> "arm", step |-> harness.at, layer |-> "l1"]) ELSE down
    /\ UNCHANGED <<arm, up, plane, records, quiet, clock, gatesOk, conclusion>>

\* onExtra(): an acknowledgement nobody waits for any more is dropped.
Acknowledged ==
    /\ InArm /\ up # <<>> /\ Head(up).type = "ack"
    /\ up' = Tail(up)
    /\ IF harness.pc = "arming" /\ Head(up).step = harness.at /\ Head(up).layer = Head(harness.todo)
       THEN /\ records' = Append(records, Head(up).granted)
            /\ CASE ~Head(up).granted -> harness' = Advance(harness) /\ UNCHANGED <<down, seen>>
                 [] Head(up).granted /\ Len(harness.todo) > 1 -> AskFor(Tail(harness.todo)) /\ UNCHANGED seen
                 [] OTHER -> Transmit([harness EXCEPT !.todo = <<>>]) /\ UNCHANGED down
       ELSE UNCHANGED <<records, harness, down, seen>>
    /\ UNCHANGED <<arm, plane, quiet, clock, gatesOk, conclusion>>

\* The two seconds are over: the request is given up before anything was written.
ArmTimesOut ==
    /\ InArm /\ harness.pc = "arming" /\ clock >= harness.since + ArmTimeout
    /\ records' = Append(records, FALSE)
    /\ harness' = Advance(harness)
    /\ UNCHANGED <<arm, down, up, plane, seen, quiet, clock, gatesOk, conclusion>>

\* trackedRaw(): the response arrived, or the client gave up while the plane goes on.
ClientDone ==
    /\ InArm /\ harness.pc = "awaiting"
    /\ seen[harness.at].pc = "done" \/ clock >= harness.sent + ClientTimeout
    /\ harness' = Advance(harness)
    /\ UNCHANGED <<arm, down, up, plane, seen, records, quiet, clock, gatesOk, conclusion>>

\* fault(): nothing acknowledges it, the harness only sleeps for a while.
InjectFault ==
    /\ InArm /\ harness.pc = "next" /\ Step.do = "fault"
    /\ down' = Append(down, [type |-> "fault", layer |-> Step.layer, kind |-> Step.kind, remaining |-> Step.remaining])
    /\ harness' = Advance(harness)
    /\ UNCHANGED <<arm, up, plane, seen, records, quiet, clock, gatesOk, conclusion>>

AskProbe ==
    /\ InArm /\ harness.pc = "next" /\ Step.do = "probe"
    /\ down' = Append(down, [type |-> "probe", step |-> harness.at])
    /\ harness' = [harness EXCEPT !.pc = "probing"]
    /\ UNCHANGED <<arm, up, plane, seen, records, quiet, clock, gatesOk, conclusion>>

\* probe(): its result, or null after three seconds; a result of an earlier probe is dropped.
ProbeAnswered ==
    /\ InArm /\ up # <<>> /\ Head(up).type = "probe"
    /\ up' = Tail(up)
    /\ IF harness.pc = "probing" /\ Head(up).step = harness.at
       THEN quiet' = Head(up).stats /\ harness' = Advance(harness)
       ELSE UNCHANGED <<quiet, harness>>
    /\ UNCHANGED <<arm, down, plane, seen, records, clock, gatesOk, conclusion>>
ProbeTimesOut ==
    /\ InArm /\ harness.pc = "probing"
    /\ quiet' = NoProbe /\ harness' = Advance(harness)
    /\ UNCHANGED <<arm, down, up, plane, seen, records, clock, gatesOk, conclusion>>

ArmTick ==
    /\ InArm /\ harness.pc \in {"arming", "awaiting"} /\ clock < MaxArmTime
    /\ clock' = clock + 1
    /\ UNCHANGED <<arm, harness, down, up, plane, seen, records, quiet, gatesOk, conclusion>>

-----------------------------------------------------------------------------
(* The plane                                                               *)

Live(a) == ~a.consumed /\ a.expires >= clock
stats ==
    [armed       |-> Cardinality(plane.arms),
     consumed    |-> Cardinality({a \in plane.arms : a.consumed}),
     refused     |-> plane.refused,
     expired     |-> Cardinality({a \in plane.arms : ~a.consumed /\ a.expires < clock}),
     outstanding |-> Cardinality({a \in plane.arms : Live(a)}),
     l2Occupancy |-> plane.abandoned,
     inFlight    |-> Cardinality({i \in Steps : seen[i].pc \in {"l1", "l2", "egress"}})]

\* CollapseOverride.arm()
Grants == Cardinality({a \in plane.arms : Live(a)}) < MaxOutstanding
Granted(m) ==
    IF Grants
    THEN [plane EXCEPT !.arms = @ \union {[step |-> m.step, layer |-> m.layer, expires |-> clock + ArmTtl, consumed |-> FALSE]}]
    ELSE [plane EXCEPT !.refused = @ + 1]

\* process.on("message") of the collapse entry.
Handled(m) ==
    CASE m.type = "arm" ->
           /\ plane' = Granted(m)
           /\ up' = Append(up, [type |-> "ack", step |-> m.step, layer |-> m.layer, granted |-> Grants])
      [] m.type = "fault" ->
           /\ plane' = [plane EXCEPT !.fault[m.layer] = [kind |-> m.kind, remaining |-> m.remaining]]
           /\ UNCHANGED up
      [] m.type = "probe" ->
           /\ up' = Append(up, [type |-> "probe", step |-> m.step, stats |-> stats])
           /\ UNCHANGED plane

\* Mutant: every plane entry has the handler.
HandlesAnywhere(m) == Handled(m)

\* The other entries know no such message and ignore it.
Handles(m) == IF CanCollapse(Name) THEN Handled(m) ELSE UNCHANGED <<plane, up>>

Control ==
    /\ InArm /\ down # <<>>
    /\ down' = Tail(down)
    /\ Handles(Head(down))
    /\ UNCHANGED <<arm, harness, seen, records, quiet, clock, gatesOk, conclusion>>

\* take(): a live arm for this request at this layer, used up by it.
Matching(i, layer) == {a \in plane.arms : a.step = i /\ a.layer = layer /\ Live(a)}
Taken(p, i, layer) ==
    [p EXCEPT !.arms = {IF a \in Matching(i, layer) THEN [a EXCEPT !.consumed = TRUE] ELSE a : a \in @}]

\* FaultableLayer.evaluate(): the fault of a layer is spent evaluation by evaluation.
Faulty(layer) == plane.fault[layer].remaining > 0
Spent(p, layer) == IF Faulty(layer) THEN [p EXCEPT !.fault[layer].remaining = @ - 1] ELSE p

\* L1 through its composer, then the override's seam.  An L1 fault always throws.
EvaluateL1(i) ==
    /\ seen[i].pc = "l1"
    /\ LET real == IF Faulty("l1") THEN "error" ELSE Body(Name)[i].what.l1
           forced == real = "reject" /\ Matching(i, "l1") # {}
           passes == real = "pass" \/ forced
           next == IF HasL2(Name) THEN "l2" ELSE "egress"
       IN  /\ seen' = [seen EXCEPT ![i] =
                 [@ EXCEPT !.pc = IF passes THEN next ELSE "done",
                           !.l1 = IF forced THEN "simulated_pass" ELSE real,
                           !.simulated = IF forced THEN {"l1"} ELSE {},
                           !.failed = real = "error"]]
           /\ plane' = IF forced THEN Taken(Spent(plane, "l1"), i, "l1") ELSE Spent(plane, "l1")
    /\ UNCHANGED <<arm, harness, down, up, records, quiet, clock, gatesOk, conclusion>>

\* What the second stage decides: the bulkhead first, then the fault, then the lane (JourneyLanes).
Places == IF Name = "C2p" THEN L2Places ELSE 64
FailsWith(i, why) ==
    CASE Body(Name)[i].what.class = "open" -> [l2 |-> "degraded", lane |-> "open", why |-> why]
      [] why = "evaluator_saturation"      -> [l2 |-> "shed", lane |-> "none", why |-> why]
      [] OTHER                             -> [l2 |-> "error", lane |-> "none", why |-> why]
DecisionsFor(i) ==
    CASE Body(Name)[i].what.class = "open" -> {[l2 |-> "admitted", lane |-> "open", why |-> "none"]}
      [] Body(Name)[i].own /\ plane.enrolled -> {[l2 |-> "admitted", lane |-> "credited", why |-> "none"]}
      [] OTHER -> {[l2 |-> "admitted", lane |-> "unverified", why |-> "none"],
                   [l2 |-> "shed", lane |-> "unverified", why |-> "lane_budget"]}


\* The record of a request after its second stage.
Decided(q, d, forced, fails) ==
    [q EXCEPT !.pc = IF forced \/ d.l2 \in {"admitted", "degraded"} THEN "egress" ELSE "done",
              !.l2 = d.l2, !.lane = d.lane, !.why = d.why,
              !.simulated = IF forced THEN @ \union {"l2"} ELSE @,
              !.failed = @ \/ fails]

Decide(i) ==
    /\ seen[i].pc = "l2"
    /\ LET saturated == plane.abandoned >= Places
           faulty == Faulty("l2") /\ ~saturated
           hangs == faulty /\ plane.fault["l2"].kind = "hang"
           spent == IF faulty THEN [Spent(plane, "l2") EXCEPT !.abandoned = @ + (IF hangs THEN 1 ELSE 0)] ELSE plane
       IN  \E d \in IF saturated THEN {FailsWith(i, "evaluator_saturation")}
                    ELSE IF hangs THEN {FailsWith(i, "timeout")}
                    ELSE IF faulty THEN {FailsWith(i, "throw")} ELSE DecisionsFor(i) :
             LET forced == d.l2 \in {"shed", "admitted"} /\ Matching(i, "l2") # {}
             IN  /\ seen' = [seen EXCEPT ![i] = Decided(seen[i], d, forced, saturated \/ faulty)]
                 /\ plane' = IF forced THEN Taken(spent, i, "l2") ELSE spent
    /\ UNCHANGED <<arm, harness, down, up, records, quiet, clock, gatesOk, conclusion>>

\* Forwarding (HopChain) and the enrolment of a delivered form; neither a degraded nor a simulated decision earns credit.
Egress(i) ==
    /\ seen[i].pc = "egress"
    /\ \E end \in {Body(Name)[i].what.ends, "egress_failed"} :
          /\ seen' = [seen EXCEPT ![i].pc = "done", ![i].end = end]
          /\ plane' = [plane EXCEPT !.enrolled = @ \/ (/\ Body(Name)[i].what = FormPage /\ end # "egress_failed"
                                                       /\ seen[i].l2 = "admitted" /\ seen[i].simulated = {})]
    /\ UNCHANGED <<arm, harness, down, up, records, quiet, clock, gatesOk, conclusion>>

\* The composer stops counting a hung evaluation after a while.
ReclaimPlace ==
    /\ plane.abandoned > 0 /\ InArm
    /\ plane' = [plane EXCEPT !.abandoned = @ - 1]
    /\ UNCHANGED <<arm, harness, down, up, seen, records, quiet, clock, gatesOk, conclusion>>

Serve == /\ InArm
         /\ \E i \in Steps : EvaluateL1(i) \/ Decide(i) \/ Egress(i)

-----------------------------------------------------------------------------
(* The evaluation of an arm                                                *)

SentSteps == {i \in Steps : Sends(i)}
InPhase(phases) == {i \in SentSteps : Body(Name)[i].phase \in phases}
Forced == InPhase({"collapse", "collapse_burst"})
IsFixture(i) == Body(Name)[i].what \in {FormFixture, SemFixture}
Mutated(i) == seen[i].end = "app_mutated"

\* penetrationOf(): the one explanation why a request went no further.
penetrationOf(q) ==
    IF q.l1 \notin {"pass", "simulated_pass"}
    THEN CASE q.l1 = "none"   -> "no_plane_decision"
           [] q.l1 = "reject" -> "l1_rejected"
           [] q.l1 = "error"  -> "l1_error"
    ELSE IF q.end # "none" THEN q.end
    ELSE CASE q.l2 = "shed" /\ q.lane = "unverified" -> "l2_shed:unverified:lane_budget"
           [] q.l2 = "shed" /\ q.lane # "unverified" -> "l2_shed:none:evaluator_saturation"
           [] q.l2 = "error"                         -> "l2_error"
           [] OTHER                                  -> "no_egress"
Reviewed(i) == {Body(Name)[i].what.ends} \union
               (IF Body(Name)[i].what = FormFixture THEN {"l2_shed:unverified:lane_budget"} ELSE {})

\* No anomaly: every request that was sent has ended in the plane, and its client heard of it.
Settled == \A i \in SentSteps : seen[i].pc \in {"none", "done"}

everyArmUsed ==
    /\ \A n \in DOMAIN records : records[n]
    /\ quiet # NoProbe
    /\ quiet.armed = Len(records) /\ quiet.consumed = Len(records)
    /\ quiet.refused = 0 /\ quiet.expired = 0 /\ quiet.outstanding = 0

\* What the gates of an arm ask of a single request: C0r and C0, then C1 and C2.
NormalExpects(i) ==
    /\ seen[i].simulated = {}
    /\ Body(Name)[i].phase = "attempt" => seen[i].l1 = "reject" /\ seen[i].end = "none"
CollapseExpects(i) ==
    IF i \in Forced
    THEN /\ seen[i].simulated # {}
         /\ IsFixture(i) => "l1" \in seen[i].simulated /\ penetrationOf(seen[i]) \in Reviewed(i)
         /\ Name = "C1" => ~Mutated(i)
    ELSE seen[i].simulated = {}

evaluateCollapse ==
    /\ \A i \in SentSteps : CollapseExpects(i)
    /\ everyArmUsed
    /\ quiet # NoProbe /\ quiet.l2Occupancy = 0 /\ quiet.inFlight = 0
    /\ Name = "C1" => \E i \in InPhase({"collapse_burst"}) : seen[i].l2 = "shed"

\* C2p: the posts before the hang, those after it, the one after the L1 fault, and the one with the page's token.
HangSteps == 6 .. (6 + L2Places)
C2pExpects(i) ==
    /\ seen[i].simulated = {}
    /\ CASE i \in {2, 4}           -> seen[i].l2 = "error" /\ seen[i].why = "throw" /\ seen[i].end = "none"
         [] i = 3                  -> seen[i].l2 = "degraded" /\ seen[i].end # "none"
         [] i \in HangSteps        -> seen[i].why \in {"timeout", "evaluator_saturation"} /\ seen[i].end = "none"
         [] i = 8 + L2Places       -> seen[i].l1 = "error" /\ seen[i].end = "none"
         [] i = Len(bodyC2p)       -> seen[i].lane = "unverified"

evaluateC2p ==
    /\ \A i \in SentSteps : C2pExpects(i)
    /\ Cardinality({i \in HangSteps : seen[i].why = "timeout"}) = L2Places
    /\ ~plane.enrolled

ArmGates ==
    /\ Settled
    /\ CASE Name \in {"C0r", "C0"} -> \A i \in SentSteps : NormalExpects(i)
         [] Name \in {"C1", "C2"}  -> evaluateCollapse
         [] Name = "C2p"           -> evaluateC2p

\* The processes of the arm before are stopped, whatever happened to them.
Fork(next) ==
    /\ arm' = next /\ harness' = FreshHarness /\ plane' = FreshPlane /\ seen' = FreshSeen(ArmNames[next])
    /\ down' = <<>> /\ up' = <<>> /\ records' = <<>> /\ quiet' = NoProbe /\ clock' = 0

\* runArm() is done with its body: the gates are added, the next arm gets processes of its own.
FinishArm ==
    /\ conclusion = "none" /\ harness.at > Len(Body(Name))
    /\ gatesOk' = (gatesOk /\ ArmGates)
    /\ IF arm < Len(ArmNames)
       THEN Fork(arm + 1) /\ UNCHANGED conclusion
       ELSE /\ conclusion' = IF gatesOk' THEN "LAYER-DIVERSITY-VALID" ELSE "INVALID"
            /\ UNCHANGED <<arm, harness, plane, seen, down, up, records, quiet, clock>>

\* Anything thrown on the way (a process that died, a fin that did not come) ends the run.
RunFails ==
    /\ InArm
    /\ conclusion' = "ERROR"
    /\ Fork(arm)
    /\ UNCHANGED gatesOk

CollapseNext ==
    \/ Connect \/ Acknowledged \/ ArmTimesOut \/ ClientDone \/ InjectFault
    \/ AskProbe \/ ProbeAnswered \/ ProbeTimesOut \/ ArmTick
    \/ Control \/ Serve \/ ReclaimPlace
    \/ FinishArm \/ RunFails

CollapseSpec == CollapseInit /\ [][CollapseNext]_collapseVars

-----------------------------------------------------------------------------
(* Properties                                                              *)

\* What the report of each arm claims to have happened.
Happened ==
    CASE Name \in {"C0r", "C0"} ->
           plane = FreshPlane /\ \A i \in InPhase({"attempt"}) : penetrationOf(seen[i]) = "l1_rejected"
      [] Name \in {"C1", "C2"} ->
           /\ \A i \in SentSteps : seen[i].simulated = ToSet(Body(Name)[i].layers)
           /\ \A i \in SentSteps : "l1" \in seen[i].simulated => Body(Name)[i].what.l1 = "reject"
           /\ \A a \in plane.arms : a.consumed
           /\ Name = "C1" => \A i \in Forced : seen[i].l2 \in {"admitted", "shed"}
      [] Name = "C2p" ->
           /\ \A i \in SentSteps : seen[i].failed => ~Mutated(i)
           /\ \A i \in SentSteps \ {Len(bodyC2p)} : seen[i].failed
           /\ ~plane.enrolled

(***************************************************************************)
(* An arm of the run that passes its gates is an arm in which the          *)
(* experiment took place: exactly the armed layers of exactly the armed    *)
(* requests were overridden, nothing stays armed, an ordinary plane cannot *)
(* be armed, and in C2p every request met its fault and none came through. *)
(* An arm that is granted late, an arm that expires while the second one   *)
(* is asked for, a fault that arrives after its request and a client that  *)
(* gives up must each cost the verdict (ba0-collapse-run.ts:496-606).      *)
(***************************************************************************)
PassedArmHappened == [][gatesOk' /\ (arm' # arm \/ conclusion' = "LAYER-DIVERSITY-VALID") => Happened]_collapseVars

=============================================================================
