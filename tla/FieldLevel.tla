----------------------------- MODULE FieldLevel -----------------------------
(***************************************************************************)
(* One level of the external field qualification: the runner               *)
(* (lab/defense/ba0-field-run.ts) that brings up the protected app, the    *)
(* origin boundary and the plane, walks the phases of the level, latches   *)
(* the reasons a monitor, a signal or a canary raises, runs the bounded    *)
(* stop sequence, writes the evidence and terminates its children; and the *)
(* offline reconciliation that turns the evidence and the generator's      *)
(* report into the verdict.                                                *)
(*                                                                         *)
(* The runner is one event loop: its script advances between awaits (pc,   *)
(* inside), and ticks, signals, child messages and exits interleave with   *)
(* it.  A reason is represented by what its class decides: "failing" for a *)
(* measurement or a defense reason (both make the level invalid),          *)
(* "operational" for the rest.  A timer is an action that may happen       *)
(* whenever the timer is armed.                                            *)
(***************************************************************************)
EXTENDS Naturals, Sequences

CONSTANTS
  Journeys,      \* canary journeys of a counted phase
  MaxRequests,   \* bound: external requests attempted, and accepted
  Crashable      \* bound: the children that may exit unasked

VARIABLES
  pc, inside,          \* where the script is, and whether that phase or step has begun
  m,                   \* the FieldMachine: state, stopped, reasons, first
  child,               \* the three processes
  crashed, finalTicks, \* exits nobody asked for; all three final ticks were received
  fin,                 \* what the children's finish() have answered, taken together
  closeRequested, told,        \* the close asked for; the message: no, sent, closed by the plane, acked
  journey, journeys, failed,   \* the canary that is running; how many rounds ran in the phase; one failed unexplained
  windowClosing, acceptedAtClose, recovery, phasesCompleted,
  attempted, ambiguous, stray, active,   \* the generator's requests, and the reducer's open ones
  capSpent, finalExposure, evidence, outcome,
  lock, result, verdict,
  skipped              \* history: the level left out a phase

machineVars == <<m, closeRequested, told>>
childVars == <<child, crashed, finalTicks, fin>>
canaryVars == <<journey, journeys, failed>>
levelVars == <<windowClosing, acceptedAtClose, recovery, phasesCompleted, skipped>>
trafficVars == <<attempted, ambiguous, stray, active>>
closingVars == <<capSpent, finalExposure, evidence, outcome>>
endVars == <<lock, result, verdict>>
vars == <<pc, inside, machineVars, childVars, canaryVars, levelVars,
          trafficVars, closingVars, endVars>>

None == "none"
Roles == {"app", "boundary", "plane"}
Classes == {"failing", "operational"}
Phases == {"BASELINE", "ARMED", "WINDOW", "RESIDUAL", "QUIET", "RECOVERY"}

\* The script, in order: the starts, the phases, the stop sequence.
Script == <<"Preflight", "Listen", "app", "boundary", "plane", "FirstTick",
            "BASELINE", "ARMED", "WINDOW", "RESIDUAL", "QUIET", "RECOVERY",
            "close_ingress", "drain", "final_telemetry", "snapshot", "finalize_evidence", "terminate",
            "Cleanup", "Done">>
Position(p) == CHOOSE i \in DOMAIN Script : Script[i] = p
After(p) == Script[Position(p) + 1]
Steps == {"close_ingress", "drain", "final_telemetry", "snapshot", "finalize_evidence", "terminate"}
\* The steps that run although the hard cap is spent.
Essential == {"finalize_evidence", "terminate"}

NORMAL == <<"CREATED", "PREFLIGHT", "TOPOLOGY_UP", "BASELINE", "ARMED", "WINDOW", "RESIDUAL",
            "QUIET", "RECOVERY", "FINALIZING", "DONE">>
STOPPED == <<"STOPPING", "DRAINING", "SNAPSHOT", "FINALIZING", "DONE">>
STOPPABLE == {"TOPOLOGY_UP"} \union Phases

accepted == attempted - ambiguous + stray
listening == child["plane"] = "up" /\ told \in {"no", "sent"}
closeAcked == told = "acked"

-----------------------------------------------------------------------------
(* The state machine.                                                      *)

\* Mutant: a STOP is noticed only at finalization.
StartsWorkUntilFinal(mm) == mm.state \notin {"FINALIZING", "DONE"}

canStartWork(mm) == ~mm.stopped /\ mm.state \notin {"FINALIZING", "DONE"}

IsNext(order, from, to) == \E i \in 1..(Len(order) - 1) : order[i] = from /\ order[i + 1] = to

\* An illegal transition throws; every caller that can meet one swallows it.
advance(mm, next) ==
  IF IsNext(IF mm.stopped THEN STOPPED ELSE NORMAL, mm.state, next)
  THEN [mm EXCEPT !.state = next] ELSE mm

latch(mm, c) ==
  LET stops == ~mm.stopped /\ mm.state \in STOPPABLE
  IN  [mm EXCEPT !.reasons = @ \union {c},
                 !.first = IF @ = None THEN c ELSE @,
                 !.stopped = @ \/ stops,
                 !.state = IF stops THEN "STOPPING" ELSE @]

\* A control message reaches the plane only through a handle on a live child.
SendClose == told' = IF child["plane"] = "up" /\ told = "no" THEN "sent" ELSE told

\* Latches the classes C (any of them first); a STOP closes the public ingress at once.
Latch(C) ==
  /\ \E f \in C : m' = [latch(m, f) EXCEPT !.reasons = @ \union C]
  /\ IF m'.stopped /\ ~closeRequested
     THEN closeRequested' = TRUE /\ SendClose
     ELSE UNCHANGED <<closeRequested, told>>

LatchIfAny(C) == IF C = {} THEN UNCHANGED machineVars ELSE Latch(C)

Goto(p) == pc' = p /\ inside' = FALSE

-----------------------------------------------------------------------------
(* Preflight and the start of the topology.                                *)

\* refuse(): nothing was bound, the machine goes straight to DONE.
refuse(mm) == [mm EXCEPT !.reasons = @ \union {"operational"}, !.first = "operational", !.state = "DONE"]

\* The tree, the marker, the bind, the budgets, the firewall or the exposure before
\* the bind fails its check, or the lock exists.
PreflightRefuses ==
  /\ pc = "Preflight"
  /\ Goto("Done")
  /\ m' = refuse(m)
  /\ result' = "refused"
  /\ UNCHANGED <<closeRequested, told, childVars, canaryVars, levelVars, trafficVars, closingVars, lock, verdict>>

\* Every check passes and the lock is created: it is never taken over.
PreflightPasses ==
  /\ pc = "Preflight" /\ lock = "free"
  /\ lock' = "ours"
  /\ m' = advance(m, "TOPOLOGY_UP")
  /\ Goto("Listen")
  /\ UNCHANGED <<closeRequested, told, childVars, canaryVars, levelVars, trafficVars, closingVars, result, verdict>>

\* A child is ready (the control origin listens): the script goes on.
Start ==
  /\ pc \in {"Listen"} \union Roles
  /\ Goto(After(pc))
  /\ child' = [r \in Roles |-> IF r = pc THEN "up" ELSE child[r]]
  /\ UNCHANGED <<machineVars, crashed, finalTicks, fin, canaryVars, levelVars, trafficVars, closingVars, endVars>>

\* A child exits before it is ready, or is killed because it is not ready in time.
StartFails ==
  /\ pc \in {"Listen"} \union Roles
  /\ Latch({"failing"})
  /\ skipped' = TRUE
  /\ Goto("close_ingress")
  /\ UNCHANGED <<childVars, canaryVars, windowClosing, acceptedAtClose, recovery, phasesCompleted, trafficVars, closingVars, endVars>>

-----------------------------------------------------------------------------
(* Observation: ticks, signals, what the children and the clients do.      *)

\* The exposure proof: presence is required until the close is acknowledged,
\* absence after, neither in between.
ExposureFails ==
  \/ ~closeAcked /\ ~closeRequested /\ ~listening
  \/ closeAcked /\ listening

\* What one tick finds by itself.
Observed ==
  IF \/ ExposureFails
     \/ crashed # {}
     \/ acceptedAtClose.set /\ accepted > acceptedAtClose.n
  THEN {"failing"} ELSE {}

\* What the host's and the harness's samples may raise: a ceiling, a silent child.
observeHarness == {{}, {"failing"}}

\* The target's authorization may lapse between two ticks.
assertStillAuthorized == {{}, {"operational"}}

\* One second of observation.
tickOnce ==
  \E sampled \in observeHarness, lapsed \in assertStillAuthorized :
     LatchIfAny(Observed \union sampled \union lapsed)

FirstTick ==
  /\ pc = "FirstTick"
  /\ tickOnce
  /\ Goto(After(pc))
  /\ UNCHANGED <<childVars, canaryVars, levelVars, trafficVars, closingVars, endVars>>

\* The timer runs from the first tick to the end of the stop sequence.
Tick ==
  /\ Position(pc) > Position("FirstTick") /\ Position(pc) < Position("Cleanup")
  /\ child["plane"] # "none"
  /\ tickOnce
  /\ UNCHANGED <<pc, inside, childVars, canaryVars, levelVars, trafficVars, closingVars, endVars>>

\* A tick of a child: a sequence gap, silence, a ceiling, a dropped event.
onTick ==
  /\ child["app"] # "none" /\ pc # "Done"
  /\ Latch({"failing"})
  /\ UNCHANGED <<pc, inside, childVars, canaryVars, levelVars, trafficVars, closingVars, endVars>>

onSignal ==
  /\ Position(pc) > Position("Preflight") /\ pc # "Done"
  /\ Latch({"operational"})
  /\ UNCHANGED <<pc, inside, childVars, canaryVars, levelVars, trafficVars, closingVars, endVars>>

PlaneClosesIngress ==
  /\ told = "sent" /\ child["plane"] = "up"
  /\ told' = "closed"
  /\ UNCHANGED <<pc, inside, m, closeRequested, childVars, canaryVars, levelVars, trafficVars, closingVars, endVars>>

IngressClosedArrives ==
  /\ told = "closed"
  /\ told' = "acked"
  /\ UNCHANGED <<pc, inside, m, closeRequested, childVars, canaryVars, levelVars, trafficVars, closingVars, endVars>>

Crash(r) ==
  /\ child[r] = "up"
  /\ Position(pc) < Position("terminate")
  /\ child' = [child EXCEPT ![r] = "exited"]
  /\ crashed' = crashed \union {r}
  /\ UNCHANGED <<pc, inside, machineVars, finalTicks, fin, canaryVars, levelVars, trafficVars, closingVars, endVars>>

\* A request of the generator: accepted by the plane, or lost on the way so
\* that the generator cannot know its fate.
Attempt ==
  /\ attempted < MaxRequests
  /\ Position(pc) > Position("FirstTick") /\ Position(pc) <= Position("drain")
  /\ attempted' = attempted + 1
  /\ \/ listening /\ active' = active + 1 /\ UNCHANGED ambiguous
     \/ ambiguous' = ambiguous + 1 /\ UNCHANGED active
  /\ UNCHANGED <<pc, inside, stray, machineVars, childVars, canaryVars, levelVars, closingVars, endVars>>

\* A request of somebody else.
Stray ==
  /\ listening /\ accepted < MaxRequests
  /\ Position(pc) > Position("FirstTick") /\ Position(pc) <= Position("drain")
  /\ stray' = stray + 1
  /\ active' = active + 1
  /\ UNCHANGED <<pc, inside, attempted, ambiguous, machineVars, childVars, canaryVars, levelVars, closingVars, endVars>>

\* The reducer closes a request.
Reduce ==
  /\ active > 0 /\ evidence # "written"
  /\ active' = active - 1
  /\ UNCHANGED <<pc, inside, attempted, ambiguous, stray, machineVars, childVars, canaryVars, levelVars, closingVars, endVars>>

-----------------------------------------------------------------------------
(* The phases.                                                             *)

\* A phase is skipped once a STOP began.
EnterPhase ==
  /\ pc \in Phases /\ ~inside
  /\ IF canStartWork(m)
     THEN /\ m' = advance(m, pc)
          /\ inside' = TRUE
          /\ UNCHANGED <<pc, skipped>>
     ELSE Goto(After(pc)) /\ skipped' = TRUE /\ UNCHANGED m
  /\ UNCHANGED <<closeRequested, told, childVars, canaryVars, windowClosing, acceptedAtClose, recovery, phasesCompleted, trafficVars, closingVars, endVars>>

\* canaryPhase: the window's canaries run until it closes, the others are counted.
WantsJourney ==
  \/ pc \in {"BASELINE", "RESIDUAL"} /\ journeys < Journeys
  \/ pc = "RECOVERY" /\ recovery # "unchecked" /\ journeys < Journeys
  \/ pc = "WINDOW" /\ ~windowClosing

\* One look at the machine starts a round: in two phases a journey against the
\* control origin, and after it the one against the plane.
WithControl == {"BASELINE", "RECOVERY"}

StartJourney ==
  /\ inside /\ journey = None /\ WantsJourney /\ canStartWork(m)
  /\ journey' = IF pc \in WithControl THEN "control" ELSE "protected"
  /\ journeys' = IF pc = "WINDOW" THEN journeys ELSE journeys + 1
  /\ UNCHANGED <<pc, inside, machineVars, failed, childVars, levelVars, trafficVars, closingVars, endVars>>

\* A control journey that failed is a reason in the end, whatever stopped meanwhile;
\* the protected journey starts without another look at the machine.
EndControl ==
  /\ journey = "control"
  /\ journey' = "protected"
  /\ failed' \in {failed, TRUE}
  /\ UNCHANGED <<pc, inside, machineVars, journeys, childVars, levelVars, trafficVars, closingVars, endVars>>

\* A protected journey that failed although no STOP interrupted it is a reason.
EndJourney ==
  /\ journey = "protected"
  /\ journey' = None
  /\ \/ UNCHANGED <<failed, machineVars>>
     \/ ~m.stopped /\ failed' = TRUE /\ Latch({"failing"})
  /\ UNCHANGED <<pc, inside, journeys, childVars, levelVars, trafficVars, closingVars, endVars>>

EndCountedPhase ==
  /\ pc \in {"BASELINE", "RESIDUAL"} /\ inside /\ journey = None
  /\ ~WantsJourney \/ ~canStartWork(m)
  /\ journeys' = 0
  /\ Goto(After(pc))
  /\ UNCHANGED <<machineVars, childVars, journey, failed, levelVars, trafficVars, closingVars, endVars>>

\* The first external request opens the window; the slack running out ends the level.
EndArmed ==
  /\ pc = "ARMED" /\ inside
  /\ IF canStartWork(m) /\ accepted = 0 THEN Latch({"operational"}) ELSE UNCHANGED machineVars
  /\ Goto(After(pc))
  /\ UNCHANGED <<childVars, canaryVars, levelVars, trafficVars, closingVars, endVars>>

\* Quiescence, the hard deadline or a STOP ends the window's loop ...
CloseWindow ==
  /\ pc = "WINDOW" /\ inside /\ ~windowClosing
  /\ windowClosing' = TRUE
  /\ UNCHANGED <<pc, inside, machineVars, childVars, canaryVars, acceptedAtClose, recovery, phasesCompleted, skipped, trafficVars, closingVars, endVars>>

\* ... and the canary still running is awaited before the count is taken.
WindowClosed ==
  /\ pc = "WINDOW" /\ windowClosing /\ journey = None
  /\ acceptedAtClose' = [set |-> TRUE, n |-> accepted]
  /\ Goto(After(pc))
  /\ UNCHANGED <<machineVars, childVars, canaryVars, windowClosing, recovery, phasesCompleted, skipped, trafficVars, closingVars, endVars>>

EndQuiet ==
  /\ pc = "QUIET" /\ inside
  /\ Goto(After(pc))
  /\ UNCHANGED <<machineVars, childVars, canaryVars, levelVars, trafficVars, closingVars, endVars>>

\* The lanes must be back at rest after the quiet interval.
CheckRecovery ==
  /\ pc = "RECOVERY" /\ inside /\ recovery = "unchecked"
  /\ \/ recovery' = "ok" /\ UNCHANGED machineVars
     \/ recovery' = "failed" /\ Latch({"failing"})
  /\ UNCHANGED <<pc, inside, childVars, canaryVars, windowClosing, acceptedAtClose, phasesCompleted, skipped, trafficVars, closingVars, endVars>>

EndRecovery ==
  /\ pc = "RECOVERY" /\ inside /\ recovery # "unchecked" /\ journey = None
  /\ ~WantsJourney \/ ~canStartWork(m)
  /\ phasesCompleted' = ~m.stopped
  /\ journeys' = 0
  /\ Goto(After(pc))
  /\ UNCHANGED <<machineVars, childVars, journey, failed, windowClosing, acceptedAtClose, recovery, skipped, trafficVars, closingVars, endVars>>

-----------------------------------------------------------------------------
(* The stop sequence, shared by both ways out.                             *)

\* The state machine's hook just before a step.
before(step) ==
  CASE step = "close_ingress" /\ m.stopped /\ m.state = "STOPPING" -> advance(m, "DRAINING")
    [] step = "close_ingress" /\ ~m.stopped /\ m.state = "RECOVERY" -> advance(m, "FINALIZING")
    [] step = "final_telemetry" /\ m.stopped /\ m.state = "DRAINING" -> advance(m, "SNAPSHOT")
    [] step = "snapshot" /\ m.stopped /\ m.state = "SNAPSHOT" -> advance(m, "FINALIZING")
    [] OTHER -> m

\* Once the cap is spent every step that is not essential is skipped.
SkipStep ==
  /\ pc \in Steps \ Essential /\ ~inside /\ capSpent
  /\ Goto(After(pc))
  /\ UNCHANGED <<machineVars, childVars, canaryVars, levelVars, trafficVars, closingVars, endVars>>

BeginStep ==
  /\ pc \in Steps /\ ~inside
  /\ pc \in Essential \/ ~capSpent
  /\ inside' = TRUE
  /\ m' = before(pc)
  /\ IF pc = "close_ingress" /\ ~closeRequested
     THEN closeRequested' = TRUE /\ SendClose
     ELSE UNCHANGED <<closeRequested, told>>
  /\ evidence' = IF pc = "finalize_evidence" THEN "writing" ELSE evidence
  /\ finalExposure' = IF pc = "snapshot" /\ child["plane"] # "none"
                      THEN IF listening THEN "violated" ELSE "ok" ELSE finalExposure
  /\ UNCHANGED <<pc, childVars, canaryVars, levelVars, trafficVars, capSpent, outcome, endVars>>

\* After half its budget at most, the drain asks every child for its final state.
DrainAsks ==
  /\ pc = "drain" /\ inside /\ fin = "idle"
  /\ fin' = "asked"
  /\ UNCHANGED <<pc, inside, machineVars, child, crashed, finalTicks, canaryVars, levelVars, trafficVars, closingVars, endVars>>

\* The three answers are stored together: all drained, or short of one (a child
\* is gone, its channel did not drain, or it did not answer in time).  The final
\* tick travels before the answer, so all three may be there all the same.
finish ==
  /\ fin = "asked"
  /\ \/ /\ \A r \in Roles : child[r] = "up"
        /\ finalTicks' = TRUE /\ fin' \in {"drained", "short"}
     \/ finalTicks' = FALSE /\ fin' = "short"
  /\ UNCHANGED <<pc, inside, machineVars, child, crashed, canaryVars, levelVars, trafficVars, closingVars, endVars>>

StepIsDone ==
  CASE pc = "drain" -> fin \in {"drained", "short"}
    [] pc = "finalize_evidence" -> evidence = "written"
    [] pc = "terminate" -> \A r \in Roles : child[r] # "up"
    [] OTHER -> TRUE

\* Timers that fire late on a starved event loop can spend the cap.
CapAfter(step) == IF step \in {"close_ingress", "drain"} THEN {capSpent, TRUE} ELSE {capSpent}

EndStep ==
  /\ pc \in Steps /\ inside /\ StepIsDone
  /\ Goto(After(pc))
  /\ capSpent' \in CapAfter(pc)
  /\ UNCHANGED <<machineVars, childVars, canaryVars, levelVars, trafficVars, finalExposure, evidence, outcome, endVars>>

\* Mutant: the evidence has no budget.
OnlyDrainTimesOut ==
  /\ pc \in {"drain", "terminate"} /\ inside /\ ~StepIsDone
  /\ pc = "drain" => fin # "idle"
  /\ Goto(After(pc))
  /\ capSpent' \in CapAfter(pc)
  /\ child' = [r \in Roles |-> IF pc = "terminate" /\ child[r] = "up" THEN "killed" ELSE child[r]]
  /\ UNCHANGED <<machineVars, crashed, finalTicks, fin, canaryVars, levelVars, trafficVars, finalExposure, evidence, outcome, endVars>>

\* The budget of a step runs out: the sequence goes on, the step's own work too.
\* A child that has not stopped by then has been sent SIGKILL.
StepTimesOut ==
  /\ pc \in {"drain", "finalize_evidence", "terminate"} /\ inside /\ ~StepIsDone
  /\ pc = "drain" => fin # "idle"
  /\ Goto(After(pc))
  /\ capSpent' \in CapAfter(pc)
  /\ child' = [r \in Roles |-> IF pc = "terminate" /\ child[r] = "up" THEN "killed" ELSE child[r]]
  /\ UNCHANGED <<machineVars, crashed, finalTicks, fin, canaryVars, levelVars, trafficVars, finalExposure, evidence, outcome, endVars>>

\* A condition that must give a reason, and what may give one besides.
ReasonIf(must) == IF must THEN {{"failing"}} ELSE {{}, {"failing"}}

\* The canary's rates, refusals, parity, latency and schedule.
canaryReasons == ReasonIf(failed)

\* The external accounting: an identity fails when a request is still open, or a
\* process gave no drained final state.
accountingReasons == ReasonIf(active > 0 \/ fin # "drained")

\* What the collector's finalization found: a crash or a stream without its end.
anomalyReasons == ReasonIf(crashed # {} \/ fin # "drained")

\* Every role must have delivered its final tick.
finalReasons == IF finalTicks THEN {} ELSE {"failing"}

\* The reasons the assessment may arrive at: those, the latched ones and the final state.
Assessments ==
  {m.reasons \union c \union a \union f \union finalReasons
     \union (IF finalExposure = "violated" \/ recovery = "failed" THEN {"failing"} ELSE {}) :
     c \in canaryReasons, a \in accountingReasons, f \in anomalyReasons}

dominantClass(C) ==
  CASE "failing" \in C -> "failing"
    [] C = {"operational"} -> "operational"
    [] C = {} -> None

decideServerSide(C, completed) ==
  LET cls == dominantClass(IF completed THEN C ELSE C \union {"operational"})
  IN  CASE cls = "failing" -> "invalid"
        [] cls = "operational" -> "aborted"
        [] cls = None -> "complete"

writeEvidence ==
  /\ evidence = "writing" /\ pc # "Done"
  /\ evidence' = "written"
  /\ \E reasons \in Assessments :
       outcome' = [status |-> decideServerSide(reasons, phasesCompleted), reasons |-> reasons]
  /\ UNCHANGED <<pc, inside, machineVars, childVars, canaryVars, levelVars, trafficVars, capSpent, finalExposure, endVars>>

\* stop(): every child exits on request, or is killed.
ChildrenStop ==
  /\ pc = "terminate" /\ inside /\ ~StepIsDone
  /\ child' = [r \in Roles |-> IF child[r] = "up" THEN "exited" ELSE child[r]]
  /\ UNCHANGED <<pc, inside, machineVars, crashed, finalTicks, fin, canaryVars, levelVars, trafficVars, closingVars, endVars>>

Cleanup ==
  /\ pc = "Cleanup"
  /\ m' = advance(m, "DONE")
  /\ result' = IF evidence = "written" THEN outcome.status ELSE "error"
  /\ lock' = "free"
  /\ Goto("Done")
  /\ UNCHANGED <<closeRequested, told, childVars, canaryVars, levelVars, trafficVars, closingVars, verdict>>

-----------------------------------------------------------------------------
(* The offline reconciliation with the generator's report.                 *)

\* Mutant: only requests missing on the server are noticed.
ReconcileLosses(reported, extra) ==
  IF ~reported THEN {"failing"}
  ELSE extra \union (IF ambiguous > 0 \/ (attempted > accepted) THEN {"failing"} ELSE {})

\* What the report's counts say against the server's; extra stands for its health and binding.
reconcile(reported, extra) ==
  IF ~reported THEN {"failing"}
  ELSE extra \union (IF ambiguous > 0 \/ attempted - accepted \notin 0..ambiguous THEN {"failing"} ELSE {})

decideFinal(status, reasons) ==
  LET cls == dominantClass(reasons)
  IN  CASE cls = "failing" -> "INVALID"
        [] cls # "failing" /\ (cls = "operational" \/ status # "complete") -> "ABORTED"
        [] OTHER -> "VALID"

Reconcile ==
  /\ pc = "Done" /\ verdict = None /\ evidence = "written"
  /\ \E reported \in BOOLEAN, extra \in {{}, {"failing"}} :
       verdict' = decideFinal(outcome.status, outcome.reasons \union reconcile(reported, extra))
  /\ UNCHANGED <<pc, inside, machineVars, childVars, canaryVars, levelVars, trafficVars, closingVars, lock, result>>

-----------------------------------------------------------------------------
Init ==
  /\ pc = "Preflight" /\ inside = FALSE
  /\ m = [state |-> "PREFLIGHT", stopped |-> FALSE, reasons |-> {}, first |-> None]
  /\ child = [r \in Roles |-> "none"] /\ crashed = {} /\ finalTicks = FALSE
  /\ fin = "idle"
  /\ told = "no" /\ closeRequested = FALSE
  /\ journey = None /\ journeys = 0 /\ failed = FALSE
  /\ windowClosing = FALSE /\ acceptedAtClose = [set |-> FALSE, n |-> 0]
  /\ recovery = "unchecked" /\ phasesCompleted = FALSE /\ skipped = FALSE
  /\ attempted = 0 /\ ambiguous = 0 /\ stray = 0 /\ active = 0
  /\ capSpent = FALSE /\ finalExposure = None /\ evidence = "none"
  /\ outcome = [status |-> None, reasons |-> {}]
  /\ lock \in {"free", "stale"} /\ result = None /\ verdict = None

Main ==
  \/ PreflightRefuses \/ PreflightPasses \/ Start \/ StartFails \/ FirstTick
  \/ EnterPhase \/ EndCountedPhase \/ EndArmed \/ WindowClosed \/ EndQuiet \/ CheckRecovery \/ EndRecovery
  \/ SkipStep \/ BeginStep \/ EndStep \/ StepTimesOut \/ Cleanup

Events ==
  \/ Tick \/ onTick \/ onSignal \/ PlaneClosesIngress \/ IngressClosedArrives
  \/ \E r \in Crashable : Crash(r)
  \/ ChildrenStop
  \/ Attempt \/ Stray \/ Reduce \/ StartJourney \/ EndControl \/ EndJourney \/ CloseWindow
  \/ DrainAsks \/ finish \/ writeEvidence \/ Reconcile

Next == Main \/ Events

Spec == Init /\ [][Next]_vars

(* The script's awaits are bounded by timers, a canary by its timeout, the *)
(* window by its deadline and the drain's first half by the clock.         *)
FairSpec ==
  /\ Spec
  /\ WF_vars(Main)
  /\ WF_vars(inside /\ WantsJourney /\ pc # "WINDOW" /\ StartJourney)
  /\ WF_vars(EndControl)
  /\ WF_vars(EndJourney)
  /\ WF_vars(CloseWindow)
  /\ WF_vars(DrainAsks)
-----------------------------------------------------------------------------
(* Properties.                                                             *)

\* A level judged VALID really ran: every phase was entered, no STOP began,
\* every request the plane accepted was the generator's and its fate is known,
\* no canary failed, the lanes recovered, and each of the three processes
\* reported a drained channel and a final tick (ba0-field-run.ts writeEvidence,
\* field-verdict.ts decideServerSide and decideFinal, reconcile.ts).
ValidIsEarned ==
  verdict = "VALID" =>
    /\ ~skipped /\ phasesCompleted /\ ~m.stopped
    /\ stray = 0 /\ ambiguous = 0
    /\ ~failed /\ recovery = "ok"
    /\ finalTicks /\ fin = "drained"

\* When the runner returns, no child of it is left running, the lock is as it
\* was found (a stale lock is never taken over), and unless the level was
\* refused at preflight the evidence was at least begun, whatever an earlier
\* step of the sequence did (field-state.ts runSequence, ba0-field-run.ts cleanup).
NothingLeft ==
  pc = "Done" =>
    /\ \A r \in Roles : child[r] # "up"
    /\ lock # "ours"
    /\ result # "refused" => evidence # "none"
    /\ result = "refused" => child = [r \in Roles |-> "none"]

\* Once a STOP began it is final: no phase and no round of canaries starts, the
\* first reason stays the first, the level can no longer count as completed, and
\* the machine only moves along the stop path (field-state.ts FieldMachine).  Not
\* promised: a round that was under way goes on, so that its protected journey
\* may start after the STOP (canaryPhase awaits the control journey in between).
StopIsFinal ==
  [][m.stopped =>
       /\ m'.stopped /\ m'.first = m.first
       /\ (pc \in Phases /\ inside' => inside) /\ (journey = None => journey' = None)
       /\ phasesCompleted' => phasesCompleted
       /\ m'.state = m.state \/ IsNext(STOPPED, m.state, m'.state)]_vars

\* Every level ends: timers bound the starts, the phases and each step of the
\* stop sequence, so the runner returns even when a child never answers.
LevelEnds == <>(pc = "Done")

\* A VALID level was run in full, and whatever the level was it leaves nothing behind.
LevelIsSound == ValidIsEarned /\ NothingLeft

-----------------------------------------------------------------------------
(* The inductive invariant of the level.                                   *)

States == {"PREFLIGHT", "TOPOLOGY_UP", "FINALIZING", "DONE", "STOPPING", "DRAINING", "SNAPSHOT"} \union Phases
StopStates == {"STOPPING", "DRAINING", "SNAPSHOT", "FINALIZING", "DONE"}
Machines == [state : States, stopped : BOOLEAN, reasons : SUBSET Classes, first : Classes \union {None}]
Entries == Roles \union Phases \union Steps \union {"Preflight", "Listen", "FirstTick", "Cleanup", "Done"}

FieldTypes ==
  /\ pc \in Entries /\ inside \in BOOLEAN /\ m \in Machines
  /\ child \in [Roles -> {"none", "up", "exited", "killed"}]
  /\ fin \in {"idle", "asked", "drained", "short"} /\ finalTicks \in BOOLEAN
  /\ journey \in {None, "control", "protected"} /\ failed \in BOOLEAN /\ skipped \in BOOLEAN
  /\ recovery \in {"unchecked", "ok", "failed"} /\ phasesCompleted \in BOOLEAN
  /\ attempted \in Nat /\ ambiguous \in Nat /\ stray \in Nat /\ active \in Nat
  /\ evidence \in {"none", "writing", "written"}
  /\ outcome \in [status : {None, "invalid", "aborted", "complete"}, reasons : SUBSET Classes]
  /\ lock \in {"free", "stale", "ours"}
  /\ result \in {None, "refused", "error", "invalid", "aborted", "complete"}
  /\ verdict \in {None, "INVALID", "ABORTED", "VALID"}

\* A STOP has a reason, and leaves the machine on the stop path.
Held(mm) == mm.stopped => mm.reasons # {} /\ mm.first # None /\ mm.state \in StopStates

\* Where the machine stands at an entry while no STOP began.
Course(at, in) ==
  CASE at = "Preflight" -> {"PREFLIGHT"}
    [] at \in Roles \union {"Listen", "FirstTick"} -> {"TOPOLOGY_UP"}
    [] at = "BASELINE" -> {IF in THEN "BASELINE" ELSE "TOPOLOGY_UP"}
    [] at = "ARMED" -> {IF in THEN "ARMED" ELSE "BASELINE"}
    [] at = "WINDOW" -> {IF in THEN "WINDOW" ELSE "ARMED"}
    [] at = "RESIDUAL" -> {IF in THEN "RESIDUAL" ELSE "WINDOW"}
    [] at = "QUIET" -> {IF in THEN "QUIET" ELSE "RESIDUAL"}
    [] at = "RECOVERY" -> {IF in THEN "RECOVERY" ELSE "QUIET"}
    [] at = "close_ingress" /\ ~in -> {"RECOVERY"}
    [] OTHER -> {"FINALIZING", "DONE"}

\* Until a STOP begins the machine follows the script, and no phase is left out.
MachineInv ==
  /\ Held(m)
  /\ pc = "Preflight" => ~m.stopped
  /\ ~m.stopped => m.state \in Course(pc, inside)
  /\ skipped => m.stopped
  /\ capSpent => pc \in (Steps \ {"close_ingress"}) \union {"Cleanup", "Done"}

\* A canary runs inside a phase; a completed level has checked its recovery.
PhaseInv ==
  /\ journey # None => inside /\ pc \in {"BASELINE", "WINDOW", "RESIDUAL", "RECOVERY"}
  /\ journey = "control" => pc \in WithControl
  /\ windowClosing => /\ pc \in {"WINDOW", "RESIDUAL", "QUIET", "RECOVERY"} \union Steps \union {"Cleanup", "Done"}
                      /\ pc = "WINDOW" => inside
  /\ phasesCompleted => recovery # "unchecked" /\ pc \in Steps \union {"Cleanup", "Done"}

\* What a complete outcome and a VALID verdict rest on no longer changes.
OutcomeInv ==
  /\ evidence = "written" <=> outcome.status # None
  /\ evidence # "none" => pc \in {"terminate", "Cleanup", "Done"} \/ (pc = "finalize_evidence" /\ inside)
  /\ pc \in {"terminate", "Cleanup"} \/ (pc = "finalize_evidence" /\ inside) => evidence # "none"
  /\ outcome.status = "complete" =>
        /\ phasesCompleted /\ ~m.stopped /\ ~failed /\ recovery = "ok"
        /\ finalTicks /\ fin = "drained"
  /\ verdict # None => pc = "Done"
  /\ verdict = "VALID" => outcome.status = "complete" /\ stray = 0 /\ ambiguous = 0

\* Children are started after the preflight and gone before the cleanup.
TopologyInv ==
  /\ pc \in {"Preflight", "Listen"} => child = [r \in Roles |-> "none"]
  /\ pc \in {"Cleanup", "Done"} => \A r \in Roles : child[r] # "up"
  /\ lock = "ours" => pc \notin {"Preflight", "Done"}
  /\ pc # "Done" => result = None
  /\ result = "refused" => child = [r \in Roles |-> "none"]
  /\ pc = "Done" /\ result # "refused" => evidence # "none"

FieldInv == FieldTypes /\ MachineInv /\ PhaseInv /\ OutcomeInv /\ TopologyInv
=============================================================================
