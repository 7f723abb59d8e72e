---------------------------- MODULE DefensePlane ----------------------------
(***************************************************************************)
(* The front door of the defense plane (defense/plane/front.ts) with its   *)
(* two layers, each behind a composer with a deadline and a bulkhead       *)
(* (core/composer.ts), the second stage's failure policy and enrolment     *)
(* observation (plane/l2-stage.ts), the harness's verdict override         *)
(* (core/override-port.ts), and the laboratory's per-request judgement of  *)
(* the events (core/ledger.ts, core/l2-lifecycle.ts).                      *)
(*                                                                         *)
(* An action is what the handler does between two awaits.  What a lane     *)
(* decides is a choice here (JourneyLanes models it); the boundary behind  *)
(* the plane may answer, fail or stay silent (HopChain models it).         *)
(***************************************************************************)
EXTENDS RequestLedger

CONSTANTS
    Requests,       \* requests that may arrive
    Kinds,          \* per request, what it may be: class, form route or not, body, arm of the override
    MaxConcurrent   \* per layer: the bulkhead of its composer

Layers == {"l1", "l2"}
Classes == {"open", "mutation", "unknown"}
Arms == {"none", "l1", "l2"}
Bodies == {"none", "pending", "complete", "incomplete"}

ASSUME KindsAssumption ==
    \A r \in Requests :
       Kinds[r] \subseteq {k \in [class : Classes, form : BOOLEAN, arm : Arms, body : Bodies] :
                              k.form => k.class = "open"}    \* the form's routes are open targets

ASSUME BulkheadAssumption == \A layer \in Layers : MaxConcurrent[layer] \in Nat \ {0}

VARIABLES
    ingress,   \* "open", "closing": no new connections, "destroyed": all sockets gone
    req,       \* per request: the handler's state and the events it emitted
    run,       \* per layer and request: the evaluation the composer started
    count      \* per layer: the composer's counters inFlight and abandonedLive

planeVars == <<ingress, req, run, count>>

\* A decision as the lanes make it: only a bucket numbers its decisions, only a credited admission has a tag.
Decision(lane, outcome) ==
    [lane |-> lane, outcome |-> outcome, numbered |-> lane \in BucketLanes,
     tag |-> lane = "credited" /\ outcome = "admitted",
     spent |-> "none", touched |-> "none", shadow |-> Natural]

NoDecision == Decision("none", "none")

-----------------------------------------------------------------------------
(* What the handler's straight-line parts do to a request q.               *)

Emit(q, kind) == [q EXCEPT !.events = Append(@, kind)]

\* respondRefusal() and sending a response: nothing is written to a closed connection.
Answer(q, status) == [q EXCEPT !.pc = "closing", !.status = IF q.up THEN status ELSE @]

\* Only the real verdict "reject" can be overridden, and only where an arm waits.
SimulatesL1(q, outcome) == outcome = "reject" /\ q.arm = "l1"

\* emitVerdict(), then the second layer or the refusal.
AfterL1(q, outcome) ==
    IF outcome = "pass" \/ SimulatesL1(q, outcome)
    THEN [Emit(Emit(q, "L1_PASSED"), "L2_ENTERED") EXCEPT
             !.pc = "l2", !.simulated = SimulatesL1(q, outcome)]
    ELSE CASE outcome = "reject" -> Answer(Emit(q, "L1_REJECTED"), 400)
           [] outcome = "shed"   -> Answer(Emit(q, "L1_SHED"), 503)
           [] outcome = "error"  -> Answer(Emit(q, "L1_ERROR"), 503)

\* Mutant: a stage that fails open for every class.
FailOpen(class, failure) == Decision("open", "degraded")

\* failureDecision(): only an open operation may go on, and then as degraded.
failureDecision(class, failure) ==
    IF class = "open" THEN Decision("open", "degraded")
    ELSE Decision("none", IF failure = "saturation" THEN "shed" ELSE "error")

\* What JourneyLanes.decide() may answer; a full ledger is its only error.
LaneDecisions(class) ==
    CASE class = "open"     -> {Decision("open", "admitted")}
      [] class = "mutation" -> {Decision(lane, outcome) : lane \in BucketLanes, outcome \in {"admitted", "shed"}}
                                  \union {Decision("none", "error")}
      [] class = "unknown"  -> {Decision("unverified", outcome) : outcome \in {"admitted", "shed"}}

\* The composer gave up on the evaluation: the failure's decision, with what the one the lanes had made
\* by then took from its lane.  A full ledger took nothing, and is the same error.
discard(class, made) ==
    [failureDecision(class, "timeout") EXCEPT
       !.numbered = made.numbered,
       !.spent = IF made.outcome = "admitted" THEN made.lane ELSE "none",
       !.touched = IF made.outcome = "shed" THEN made.lane ELSE "none"]

\* Discarded decisions: the lanes had decided, or the evaluation did not get that far.
Discarded(class) == {discard(class, made) : made \in LaneDecisions(class) \union {NoDecision}}

\* The override may turn a shed into an admission; either way it leaves its label.
SimulatesL2(q, d) == q.arm = "l2" /\ d.outcome \in {"shed", "admitted"}

\* What is emitted keeps every other field of the decision that is overridden.
Delivered(q, d) ==
    IF SimulatesL2(q, d)
    THEN [d EXCEPT !.lane = IF d.lane = "none" THEN "unverified" ELSE d.lane,
                   !.outcome = "admitted",
                   !.shadow = <<d.outcome, d.lane>>]
    ELSE d

\* observe(): a render that was degraded or simulated is settled from the start.
Early == {"degraded", "simulated"}

observe(q) ==
    IF ~q.form THEN "none"
    ELSE IF q.decision.outcome = "degraded" THEN "degraded"
    ELSE IF q.simulated THEN "simulated" ELSE "waiting"

\* emitL2Decision(), then the egress or the refusal.
WithDecision(q, d) ==
    [Emit(q, "L2_DECIDED") EXCEPT
        !.decision = Delivered(q, d), !.simulated = q.simulated \/ SimulatesL2(q, d)]

AfterL2(q, d) ==
    IF proceeds(Delivered(q, d))
    THEN [Emit(WithDecision(q, d), "EGRESS_ATTEMPTED") EXCEPT
             !.pc = "issue", !.observed = observe(WithDecision(q, d))]
    ELSE Answer(WithDecision(q, d), 503)

-----------------------------------------------------------------------------
(* LayerComposer                                                           *)

occupancy(layer) == count[layer].inFlight + count[layer].abandonedLive

IsSaturated(layer) == occupancy(layer) >= MaxConcurrent[layer]

\* run(): an evaluation starts unless the bulkhead is full.
StartEvaluation(layer, r) ==
    /\ run' = [run EXCEPT ![layer][r] = "running"]
    /\ count' = [count EXCEPT ![layer].inFlight = @ + 1]

\* The evaluation settles before the deadline, or blocks past it and settles.
EndEvaluation(layer, r) ==
    /\ run' = [run EXCEPT ![layer][r] = "settled"]
    /\ count' = [count EXCEPT ![layer].inFlight = @ - 1]

\* The deadline passes first: the evaluation goes on and still counts.
AbandonEvaluation(layer, r) ==
    /\ run' = [run EXCEPT ![layer][r] = "abandoned"]
    /\ count' = [count EXCEPT ![layer].inFlight = @ - 1, ![layer].abandonedLive = @ + 1]

\* Mutant: a late settlement gives back its place a second time.
SettleTwice(layer, r) ==
    /\ run[layer][r] \in {"abandoned", "reclaimed"}
    /\ run' = [run EXCEPT ![layer][r] = "settled"]
    /\ count' = [count EXCEPT ![layer].abandonedLive = @ - 1]
    /\ UNCHANGED <<ingress, req>>

\* An abandoned evaluation ends; the place of a reclaimed one is already free.
SettleAbandoned(layer, r) ==
    /\ run[layer][r] \in {"abandoned", "reclaimed"}
    /\ run' = [run EXCEPT ![layer][r] = "settled"]
    /\ count' = [count EXCEPT ![layer].abandonedLive =
                    IF run[layer][r] = "abandoned" THEN @ - 1 ELSE @]
    /\ UNCHANGED <<ingress, req>>

\* reclaimAfterMs: the place of an evaluation that does not end is given back.
Reclaim(layer, r) ==
    /\ run[layer][r] = "abandoned"
    /\ run' = [run EXCEPT ![layer][r] = "reclaimed"]
    /\ count' = [count EXCEPT ![layer].abandonedLive = @ - 1]
    /\ UNCHANGED <<ingress, req>>

-----------------------------------------------------------------------------
(* The handler                                                             *)

Become(r, q) == req' = [req EXCEPT ![r] = q]

\* A request arrives.  A body is read only if its declared length is in bounds.
Accept(r, kind) ==
    /\ req[r].pc = "idle" /\ ingress = "open"
    /\ Become(r, [Emit(req[r], "INGRESS_ACCEPTED") EXCEPT
                     !.pc = IF kind.body = "pending" THEN "body" ELSE "l1",
                     !.class = kind.class, !.form = kind.form, !.body = kind.body, !.arm = kind.arm])
    /\ UNCHANGED <<ingress, run, count>>

\* Mutant: a body read that does not notice that its sender is gone.
ReadFromSender(r, status) ==
    /\ req[r].pc = "body" /\ req[r].up
    /\ Become(r, [req[r] EXCEPT !.pc = "l1", !.body = status])
    /\ UNCHANGED <<ingress, run, count>>

\* readBody(): the first of end, overflow, close and deadline decides.
ReadBody(r, status) ==
    /\ req[r].pc = "body"
    /\ req[r].up \/ status = "incomplete"
    /\ Become(r, [req[r] EXCEPT !.pc = "l1", !.body = status])
    /\ UNCHANGED <<ingress, run, count>>

EnterL1(r) ==
    /\ req[r].pc = "l1"
    /\ LET q == Emit(req[r], "L1_ENTERED")
       IN IF IsSaturated("l1")
          THEN Become(r, AfterL1(q, "shed")) /\ UNCHANGED <<run, count>>
          ELSE Become(r, [q EXCEPT !.pc = "l1_runs"]) /\ StartEvaluation("l1", r)
    /\ UNCHANGED ingress

\* The shape gate passes known routes with a complete body only.
MayPassL1(q) == q.class = "open" \/ (q.class = "mutation" /\ q.body = "complete")

L1Answers(r, outcome) ==
    /\ req[r].pc = "l1_runs"
    /\ outcome = "pass" => MayPassL1(req[r])
    /\ Become(r, AfterL1(req[r], outcome))
    /\ EndEvaluation("l1", r)
    /\ UNCHANGED ingress

L1Deadline(r) ==
    /\ req[r].pc = "l1_runs"
    /\ Become(r, AfterL1(req[r], "error"))
    /\ AbandonEvaluation("l1", r)
    /\ UNCHANGED ingress

EnterL2(r) ==
    /\ req[r].pc = "l2"
    /\ IF IsSaturated("l2")
       THEN /\ Become(r, AfterL2(req[r], failureDecision(req[r].class, "saturation")))
            /\ UNCHANGED <<run, count>>
       ELSE Become(r, [req[r] EXCEPT !.pc = "l2_runs"]) /\ StartEvaluation("l2", r)
    /\ UNCHANGED ingress

\* decide(): the lanes' decision if it came in time, else (the evaluation blocked past the
\* deadline, or threw) the failure's.
L2Answers(r) ==
    /\ req[r].pc = "l2_runs"
    /\ \E d \in LaneDecisions(req[r].class) \union Discarded(req[r].class) :
          Become(r, AfterL2(req[r], d))
    /\ EndEvaluation("l2", r)
    /\ UNCHANGED ingress

L2Deadline(r) ==
    /\ req[r].pc = "l2_runs"
    /\ \E d \in Discarded(req[r].class) : Become(r, AfterL2(req[r], d))
    /\ AbandonEvaluation("l2", r)
    /\ UNCHANGED ingress

\* forwardApproved(): nothing is sent without a proof.
IssueProof(r) ==
    /\ req[r].pc = "issue"
    /\ \/ Become(r, [Emit(req[r], "PROOF_ISSUED") EXCEPT !.pc = "forward"])
       \/ Become(r, Answer([Emit(req[r], "EGRESS_FAILED") EXCEPT !.failed = "error"], 502))
    /\ UNCHANGED <<ingress, run, count>>

\* A page with exactly one well-formed token, as 200; anything else stands for 404.
evaluateObservation(status) == IF status = 200 THEN "good" ELSE "bad"

\* forward(): the response is observed before it is sent to whoever is still there.
UpstreamResponds(r, status) ==
    /\ req[r].pc = "forward"
    /\ LET q == [Emit(req[r], "EGRESS_RESPONDED") EXCEPT !.upstream = status]
       IN Become(r, Answer([q EXCEPT !.observed =
                               IF @ = "waiting" THEN evaluateObservation(status) ELSE @], status))
    /\ UNCHANGED <<ingress, run, count>>

UpstreamFails(r, kind) ==
    /\ req[r].pc = "forward"
    /\ Become(r, Answer([Emit(req[r], "EGRESS_FAILED") EXCEPT !.failed = kind],
                        IF kind = "timeout" THEN 504 ELSE 502))
    /\ UNCHANGED <<ingress, run, count>>

\* The observation's one disposition is emitted.
Dispose(q, kind, reason) == [Emit(q, kind) EXCEPT !.observed = "done", !.skipReason = reason]

\* "finish": the whole response left; onDelivered() enrols its token, or finds it enrolled.
Finish(r) ==
    /\ req[r].pc = "closing" /\ req[r].up /\ ~req[r].flushed
    /\ LET q == [req[r] EXCEPT !.flushed = TRUE]
       IN IF q.observed = "good"
          THEN Become(r, Dispose(q, "L2_ENROLLED", "none")) \/ Become(r, Dispose(q, "L2_ENROLL_SKIPPED", "other"))
          ELSE Become(r, q)
    /\ UNCHANGED <<ingress, run, count>>

\* finalize(): one disposition for each observation.
ReasonFor(observed) == IF observed \in Early THEN observed ELSE "other"

finalize(q) ==
    IF q.observed \in {"none", "done"} THEN q
    ELSE Dispose(q, "L2_ENROLL_SKIPPED", ReasonFor(q.observed))

\* "close" after "finish", or of a connection that broke: the terminal event.
Close(r) ==
    /\ req[r].pc = "closing"
    /\ req[r].flushed \/ ~req[r].up
    /\ Become(r, [Emit(finalize(req[r]),
                       IF req[r].flushed THEN "INGRESS_RESPONDED" ELSE "INGRESS_ABORTED")
                  EXCEPT !.pc = "done"])
    /\ UNCHANGED <<ingress, run, count>>

\* The client goes away; the handler only notices where it looks.
Disconnect(r) ==
    /\ req[r].pc \notin {"idle", "done"} /\ req[r].up
    /\ Become(r, [req[r] EXCEPT !.up = FALSE])
    /\ UNCHANGED <<ingress, run, count>>

\* close(): no new connection, and after a deadline no connection at all.
CloseIngress ==
    /\ ingress = "open" /\ ingress' = "closing"
    /\ UNCHANGED <<req, run, count>>

DestroySockets ==
    /\ ingress = "closing" /\ ingress' = "destroyed"
    /\ req' = [r \in Requests |-> [req[r] EXCEPT !.up = FALSE]]
    /\ UNCHANGED <<run, count>>

-----------------------------------------------------------------------------
Idle == [pc |-> "idle", class |-> "open", form |-> FALSE, body |-> "none", arm |-> "none",
         up |-> TRUE, simulated |-> FALSE, decision |-> NoDecision, observed |-> "none", skipReason |-> "none",
         upstream |-> 0, failed |-> "none", status |-> 0, flushed |-> FALSE, events |-> <<>>]

PlaneInit ==
    /\ ingress = "open"
    /\ req = [r \in Requests |-> Idle]
    /\ run = [layer \in Layers |-> [r \in Requests |-> "none"]]
    /\ count = [layer \in Layers |-> [inFlight |-> 0, abandonedLive |-> 0]]

\* What each request's own deadlines and callbacks drive forward.
Progress(r) ==
    \/ \E status \in {"complete", "incomplete"} : ReadBody(r, status)
    \/ EnterL1(r) \/ L1Deadline(r) \/ \E outcome \in {"pass", "reject", "error"} : L1Answers(r, outcome)
    \/ EnterL2(r) \/ L2Answers(r) \/ L2Deadline(r)
    \/ IssueProof(r)
    \/ \E status \in {200, 404} : UpstreamResponds(r, status)
    \/ \E kind \in {"timeout", "error"} : UpstreamFails(r, kind)
    \/ Close(r)

PlaneNext ==
    \/ \E r \in Requests :
          \/ \E kind \in Kinds[r] : Accept(r, kind)
          \/ Progress(r) \/ Finish(r) \/ Disconnect(r)
    \/ \E layer \in Layers : \E r \in Requests : SettleAbandoned(layer, r) \/ Reclaim(layer, r)
    \/ CloseIngress \/ DestroySockets

PlaneSpec == PlaneInit /\ [][PlaneNext]_planeVars

(***************************************************************************)
(* Every wait of the handler ends by a timer of its own (the body's, the   *)
(* composers' and the egress deadlines) except the wait for a client that  *)
(* does not read its response; that one is ended by close().               *)
(***************************************************************************)
Fairness ==
    /\ \A r \in Requests : WF_planeVars(Progress(r))
    /\ WF_planeVars(DestroySockets)

PlaneFairSpec == PlaneSpec /\ Fairness

-----------------------------------------------------------------------------
(* The laboratory's judgement of one request's events.                     *)

Has(q, kind) == Contains(q.events, kind)

planeStatusFor(q) ==
    IF Has(q, "L1_REJECTED") THEN 400
    ELSE IF Has(q, "L1_SHED") \/ Has(q, "L1_ERROR") \/ q.decision.outcome \in {"shed", "error"} THEN 503
    ELSE IF Has(q, "EGRESS_FAILED") THEN IF q.failed = "timeout" THEN 504 ELSE 502
    ELSE q.upstream

\* validateLifecycle() finds nothing: legal order, one verdict, a terminal event, the right status.
LifecycleAccepted(q) ==
    /\ automaton(q.events, NEXT_PLANE_KINDS_L2)
    /\ Cardinality({i \in 1..Len(q.events) : q.events[i] \in Verdicts}) <= 1
    /\ q.pc = "done" => Last(q.events) \in Terminals
    /\ Has(q, "INGRESS_RESPONDED") => q.status = planeStatusFor(q)

\* The enrolment events of a request.
dispositions(q) == {i \in DOMAIN q.events : q.events[i] \in {"L2_ENROLLED", "L2_ENROLL_SKIPPED"}}

\* The rules of validateL2Lifecycle() that relate the decision to the events around it.
StreamAccepted(q) ==
    /\ Has(q, "EGRESS_ATTEMPTED") => Has(q, "L1_ENTERED") /\ Has(q, "L2_ENTERED")
    /\ Has(q, "L2_DECIDED") =>
          /\ isValidDecision(q.class, q.decision)
          /\ Has(q, "EGRESS_ATTEMPTED") <=> proceeds(q.decision)
    /\ Cardinality(dispositions(q)) <= 1
    /\ dispositions(q) # {} => q.class = "open" /\ proceeds(q.decision)
    /\ Has(q, "L2_ENROLLED") => EnrolmentAccepted(q.decision, q.simulated, Has(q, "EGRESS_RESPONDED"))
    /\ Has(q, "L2_ENROLL_SKIPPED") => SkipAccepted(q.decision, q.simulated, q.skipReason)

\* validateL2Lifecycle() finds nothing.
L2Accepted(q) == StreamAccepted(q) /\ (Has(q, "L2_DECIDED") => FieldsAccepted(q.decision))

-----------------------------------------------------------------------------
(* Properties                                                              *)

(***************************************************************************)
(* The decisions the stage and the front emit and the validator rejects:   *)
(* an open request whose decision was discarded is said to have spent on   *)
(* its lane, although it took nothing; and an overridden shed becomes an   *)
(* admission of a lane that never numbered or credited it.                 *)
(***************************************************************************)
DiscardedOpen(d) == d.lane = "open" /\ d.spent = "open"
OverriddenSaturation(d) == d.shadow = <<"shed", "none">>
OverriddenCredit(d) == d.shadow = <<"shed", "credited">>

Disputed(d) == DiscardedOpen(d) \/ OverriddenSaturation(d) \/ OverriddenCredit(d)

\* These are all the decisions with fields that the validator does not allow.
Explained(d) == FieldsAccepted(d) <=> ~Disputed(d)

(***************************************************************************)
(* Whatever order deadlines, verdicts, upstream answers and disconnects    *)
(* come in, the events the handler emits for a request are ones the        *)
(* laboratory's validators accept (ledger.ts, l2-lifecycle.ts), except for *)
(* exactly those disputed decisions, which l2-lifecycle.ts rejects.        *)
(***************************************************************************)
StreamsAreAccepted ==
    \A r \in Requests :
       LifecycleAccepted(req[r]) /\ (L2Accepted(req[r]) <=> ~Disputed(req[r].decision))

(***************************************************************************)
(* What l2-lifecycle.ts asks of a plane that simulates nothing: every      *)
(* decision it emits has a combination of fields the validator allows.     *)
(* The code does not keep it: l2-stage.ts gives the discarded decision of  *)
(* an open request a spent lane.                                           *)
(***************************************************************************)
NaturalDecisionsAreAccepted ==
    \A r \in Requests : ~req[r].simulated => L2Accepted(req[r])

(***************************************************************************)
(* A finished render of the form has exactly one enrolment disposition     *)
(* (Observation: onDelivered() and finalize() between them act once), and  *)
(* credit is given only for a natural, undegraded render whose response    *)
(* was flushed completely to its client.                                   *)
(***************************************************************************)
CreditFollowsDelivery ==
    \A r \in Requests :
       LET q == req[r]
       IN /\ q.pc = "done" => Cardinality(dispositions(q)) = IF q.form /\ Has(q, "EGRESS_ATTEMPTED") THEN 1 ELSE 0
          /\ Has(q, "L2_ENROLLED") =>
                q.flushed /\ q.upstream = 200 /\ ~q.simulated /\ q.decision.outcome = "admitted"

(***************************************************************************)
(* The composer's counters are the evaluations they stand for, whichever   *)
(* of settlement, deadline and reclaim came first, and never exceed the    *)
(* bulkhead: a place is neither lost nor given out twice.                  *)
(***************************************************************************)
BulkheadIsExact ==
    \A layer \in Layers :
       /\ count[layer].inFlight = Cardinality({r \in Requests : run[layer][r] = "running"})
       /\ count[layer].abandonedLive = Cardinality({r \in Requests : run[layer][r] = "abandoned"})
       /\ occupancy(layer) <= MaxConcurrent[layer]

(***************************************************************************)
(* What the stages count is settled exactly once for every request: credit *)
(* when its render was delivered, its place when its evaluation ends.      *)
(***************************************************************************)
SettledExactly == CreditFollowsDelivery /\ BulkheadIsExact

(***************************************************************************)
(* Once the front is closed every request it accepted reaches its terminal *)
(* event, also with clients that never read and an upstream that hangs.    *)
(***************************************************************************)
ClosingDrains == ingress # "open" ~> \A r \in Requests : req[r].pc \in {"idle", "done"}

-----------------------------------------------------------------------------
(* The inductive invariant: what a request has emitted at each point of    *)
(* its handler, and which evaluations are out.                             *)

Stages == {"idle", "body", "l1", "l1_runs", "l2", "l2_runs", "issue", "forward", "closing", "done"}

EventKinds ==
    {"INGRESS_ACCEPTED", "L1_ENTERED", "L2_ENTERED", "L2_DECIDED", "EGRESS_ATTEMPTED", "PROOF_ISSUED",
     "EGRESS_RESPONDED", "EGRESS_FAILED", "L2_ENROLLED", "L2_ENROLL_SKIPPED"} \union Verdicts \union Terminals

Lanes == {"none", "open"} \union BucketLanes
Outcomes == {"none", "admitted", "degraded", "shed", "error"}
Reasons == {"none", "other"} \union Early
Decisions == [lane : Lanes, outcome : Outcomes, numbered : BOOLEAN, tag : BOOLEAN,
              spent : Lanes, touched : Lanes, shadow : Outcomes \X Lanes]
Observations == {"none", "waiting", "good", "bad", "done"} \union Early
Upstreams == {0, 200, 404}
Failures == {"none", "error", "timeout"}

RequestType ==
    [pc : Stages, class : Classes, form : BOOLEAN, body : Bodies, arm : Arms, up : BOOLEAN,
     simulated : BOOLEAN, decision : Decisions, observed : Observations,
     skipReason : Reasons, upstream : Upstreams, failed : Failures, status : Nat, flushed : BOOLEAN,
     events : Seq(EventKinds)]

\* A legal stream of exactly the kinds in seen, each once, last at its end.
Stream(events, seen, last) ==
    /\ events \in Seq(EventKinds) /\ events # <<>>
    /\ automaton(events, NEXT_PLANE_KINDS_L2)
    /\ \A i, j \in DOMAIN events : events[i] = events[j] => i = j
    /\ \A i \in DOMAIN events : events[i] \in seen
    /\ \A k \in seen : \E i \in DOMAIN events : events[i] = k
    /\ last \in seen /\ events[Len(events)] = last

\* The kinds emitted when a request is at L1, at L2, at its egress and proven.
AtL1 == {"INGRESS_ACCEPTED"} \union {"L1_ENTERED"}
AtL2 == (AtL1 \union {"L1_PASSED"}) \union {"L2_ENTERED"}
Attempted == (AtL2 \union {"L2_DECIDED"}) \union {"EGRESS_ATTEMPTED"}
Issued == Attempted \union {"PROOF_ISSUED"}

\* The events that settle a request's answer, and what may have been emitted before each.
L1Refusals == {"L1_REJECTED", "L1_SHED", "L1_ERROR"}
Settling == L1Refusals \union {"L2_DECIDED", "EGRESS_FAILED", "EGRESS_RESPONDED"}

Before(last) ==
    CASE last \in L1Refusals         -> {AtL1}
      [] last = "L2_DECIDED"         -> {AtL2}
      [] last = "EGRESS_FAILED"      -> {Attempted, Issued}
      [] last = "EGRESS_RESPONDED"   -> {Issued}

ReachedEgress(last) == last \in {"EGRESS_FAILED", "EGRESS_RESPONDED"}

Untouched(q) == q.observed = "none" /\ q.decision = NoDecision

\* L2 let the request go on, and its render waits to be observed or is settled already.
GoesOn(q) == isValidDecision(q.class, q.decision) /\ proceeds(q.decision)

\* The status that a client is owed for this settlement.
Owed(q, last) ==
    CASE last = "L1_REJECTED"                           -> 400
      [] last \in {"L1_SHED", "L1_ERROR", "L2_DECIDED"} -> 503
      [] last = "EGRESS_FAILED"                         -> IF q.failed = "timeout" THEN 504 ELSE 502
      [] last = "EGRESS_RESPONDED"                      -> q.upstream

\* The answer is settled, and whoever can see it saw what was owed.
Answered(q, last) ==
    /\ last \in L1Refusals => q.decision = NoDecision
    /\ last = "L2_DECIDED" => isValidDecision(q.class, q.decision) /\ ~proceeds(q.decision)
    /\ ReachedEgress(last) => GoesOn(q)
    /\ q.up \/ q.flushed => q.status = Owed(q, last)

\* A render's disposition, and what it takes to be credit.
Dispositions == {"L2_ENROLLED", "L2_ENROLL_SKIPPED"}

Disposed(q, last, kind) ==
    /\ kind \in Dispositions /\ q.form /\ ReachedEgress(last)
    /\ kind = "L2_ENROLL_SKIPPED" => q.skipReason = ReasonFor(observe(q))
    /\ kind = "L2_ENROLLED" =>
          observe(q) = "waiting" /\ last = "EGRESS_RESPONDED" /\ q.upstream = 200 /\ q.flushed

\* The observation of a request whose connection is still open.
Pending(q, last) ==
    /\ q.observed = IF ~ReachedEgress(last) THEN "none"
                    ELSE IF last = "EGRESS_RESPONDED" /\ observe(q) = "waiting"
                         THEN evaluateObservation(q.upstream) ELSE observe(q)
    /\ q.observed = "good" => ~q.flushed

Closing(q, seen, last) ==
    \/ Stream(q.events, seen, last) /\ Pending(q, last)
    \/ /\ q.observed = "done"
       /\ \E kind \in Dispositions :
             Disposed(q, last, kind) /\ Stream(q.events, seen \union {kind}, kind)

\* A request that ended has its disposition, if it owes one, and its terminal event.
Terminal(q) == IF q.flushed THEN "INGRESS_RESPONDED" ELSE "INGRESS_ABORTED"

Over(q, seen, last) ==
    \/ ~(q.form /\ ReachedEgress(last)) /\ Stream(q.events, seen \union {Terminal(q)}, Terminal(q))
    \/ \E kind \in Dispositions :
          /\ Disposed(q, last, kind)
          /\ Stream(q.events, (seen \union {kind}) \union {Terminal(q)}, Terminal(q))

StoryInv(q) ==
    /\ q \in RequestType /\ (q.form => q.class = "open")
    /\ Explained(q.decision)
    /\ q.pc \in {"idle", "body", "l1", "l1_runs"} => ~q.simulated
    /\ q.pc \in {"idle", "body", "l1", "l1_runs", "l2", "l2_runs"} => Untouched(q)
    /\ q.pc \notin {"closing", "done"} => ~q.flushed
    /\ q.pc = "idle" => q.events = <<>>
    /\ q.pc \in {"body", "l1"} => Stream(q.events, {"INGRESS_ACCEPTED"}, "INGRESS_ACCEPTED")
    /\ q.pc = "l1_runs" => Stream(q.events, AtL1, "L1_ENTERED")
    /\ q.pc \in {"l2", "l2_runs"} => Stream(q.events, AtL2, "L2_ENTERED")
    /\ q.pc \in {"issue", "forward"} => GoesOn(q) /\ q.observed = observe(q)
    /\ q.pc = "issue" => Stream(q.events, Attempted, "EGRESS_ATTEMPTED")
    /\ q.pc = "forward" => Stream(q.events, Issued, "PROOF_ISSUED")
    /\ q.pc = "closing" =>
          \E last \in Settling : \E before \in Before(last) :
             Answered(q, last) /\ Closing(q, before \union {last}, last)
    /\ q.pc = "done" =>
          \E last \in Settling : \E before \in Before(last) :
             Answered(q, last) /\ Over(q, before \union {last}, last)

\* Which evaluations a request has had: one of each layer, in its turn.
Evaluations == {"none", "running", "abandoned", "reclaimed", "settled"}
EvaluatedAt == [l1 |-> "l1_runs", l2 |-> "l2_runs"]
Ahead == [l1 |-> {"idle", "body", "l1"}, l2 |-> {"idle", "body", "l1", "l1_runs", "l2"}]

RunInv ==
    /\ run \in [Layers -> [Requests -> Evaluations]]
    /\ \A layer \in Layers, r \in Requests :
          /\ req[r].pc \in Ahead[layer] => run[layer][r] = "none"
          /\ run[layer][r] = "running" <=> req[r].pc = EvaluatedAt[layer]

In(layer, state) == {r \in Requests : run[layer][r] = state}

CountInv ==
    /\ count \in [Layers -> [inFlight : Nat, abandonedLive : Nat]]
    /\ \A layer \in Layers :
          /\ IsFiniteSet(In(layer, "running")) /\ IsFiniteSet(In(layer, "abandoned"))
          /\ count[layer].inFlight = Cardinality(In(layer, "running"))
          /\ count[layer].abandonedLive = Cardinality(In(layer, "abandoned"))
          /\ occupancy(layer) <= MaxConcurrent[layer]

PlaneInv ==
    /\ ingress \in {"open", "closing", "destroyed"}
    /\ req \in [Requests -> RequestType] /\ \A r \in Requests : StoryInv(req[r])
    /\ RunInv /\ CountInv
=============================================================================
