------------------------------ MODULE LoadRun -------------------------------
(***************************************************************************)
(* A run of the load laboratory (lab/run.ts): the command line is checked  *)
(* and authorised, one of three engines runs under one clock, and what the *)
(* engine returned, or threw, becomes the result the evidence records.     *)
(* Two engines are those of LoadEngines; the third comes first here.       *)
(*                                                                         *)
(* The supervision of a k6 container (lab/load/k6.ts): the container is    *)
(* started and waited for; the wall-clock bound or the lapse of the        *)
(* authorisation asks for a stop, which is deferred while the start is     *)
(* pending, retried, forced and then read back from the daemon; the result *)
(* is judged from the summary and the container is removed.  Every call to *)
(* the daemon may fail, and a call that failed may have taken effect.      *)
(***************************************************************************)
EXTENDS LoadEngines

CONSTANT KillAttempts

VARIABLES
  container,    \* created, running, stopped, gone
  kpc,          \* idle, start, wait, reap, settle, confirm, judge, remove, done
  why,          \* stopRequested
  kill,         \* the kill procedure: its step and the attempts left
  killed,       \* what the kill procedure returned
  waitFailed, proven, verdict

k6Vars == <<container, kpc, why, kill, killed, waitFailed, proven, verdict>>

started == kpc \notin {"idle", "start"}
NoKill == [st |-> "no", left |-> KillAttempts]
\* Mutant: what the daemon cannot tell is read as stopped.
ReadsKindly(seen) == seen # "running"
\* Only what the daemon says is stopped or gone is stopped.
isProven(seen) == seen \in {"stopped", "gone"}
\* stateOf: the container's state, or unknown when the daemon does not answer.
StateReads == {container, "unknown"}

\* killing ??= ...: the kill procedure is started at most once.
beginKill(k) == IF k.st = "no" THEN [k EXCEPT !.st = "kill"] ELSE k

-----------------------------------------------------------------------------
K6Start ==
  /\ kpc = "idle" /\ kpc' = "start"
  /\ UNCHANGED <<container, why, kill, killed, waitFailed, proven, verdict>>

DaemonStarts ==
  /\ kpc = "start" /\ container = "created"
  /\ container' = "running"
  /\ UNCHANGED <<kpc, why, kill, killed, waitFailed, proven, verdict>>

ContainerExits ==
  /\ container = "running"
  /\ container' = "stopped"
  /\ UNCHANGED <<kpc, why, kill, killed, waitFailed, proven, verdict>>

\* A limit that passed while the start was pending is acted on now.
StartReturns ==
  /\ kpc = "start" /\ container # "created"
  /\ kpc' = "wait"
  /\ kill' = IF why # None THEN beginKill(kill) ELSE kill
  /\ UNCHANGED <<container, why, killed, waitFailed, proven, verdict>>

\* The start throws; nothing is judged.
StartFails ==
  /\ kpc = "start"
  /\ kpc' = "remove" /\ verdict' = "ERROR"
  /\ UNCHANGED <<container, why, kill, killed, waitFailed, proven>>

\* A timer asks for a stop; the timers are cleared when the wait is over.
Request(reason) ==
  /\ kpc \in {"start", "wait", "reap"} /\ (reason = "authorization-expiry" => until # Never)
  /\ why' = IF why = None THEN reason ELSE why
  /\ kill' = IF started THEN beginKill(kill) ELSE kill
  /\ why # why' \/ kill # kill'
  /\ UNCHANGED <<container, kpc, killed, waitFailed, proven, verdict>>

KillCall ==
  /\ kill.st \in {"kill", "force"}
  /\ container' \in {container, IF kill.st = "kill" /\ container # "gone" THEN "stopped" ELSE "gone"}
  /\ kill' = [kill EXCEPT !.st = IF kill.st = "kill" THEN "read" ELSE "reread"]
  /\ UNCHANGED <<kpc, why, killed, waitFailed, proven, verdict>>

\* After each attempt the state is read back; the last resort is a forced removal.
KillRead ==
  /\ kill.st \in {"read", "reread"}
  /\ \E seen \in StateReads :
       IF isProven(seen) \/ kill.st = "reread"
         THEN kill' = [kill EXCEPT !.st = "over"] /\ killed' = isProven(seen)
         ELSE kill' = [st |-> IF kill.left = 1 THEN "force" ELSE "kill", left |-> kill.left - 1] /\ UNCHANGED killed
  /\ UNCHANGED <<container, kpc, why, waitFailed, proven, verdict>>

\* The wait and the end of the kill procedure race.
WaitReturns ==
  /\ kpc \in {"wait", "reap"} /\ container \in {"stopped", "gone"}
  /\ kpc' = "settle"
  /\ UNCHANGED <<container, why, kill, killed, waitFailed, proven, verdict>>

KillOver ==
  /\ kpc = "wait" /\ kill.st = "over"
  /\ kpc' = "reap"
  /\ UNCHANGED <<container, why, kill, killed, waitFailed, proven, verdict>>

\* The wait itself fails, or does not return soon after the kill procedure.
WaitFails ==
  /\ kpc \in {"wait", "reap"}
  /\ waitFailed' = TRUE /\ kpc' = "settle"
  /\ why' = IF why = None THEN "wall-clock" ELSE why
  /\ kill' = beginKill(kill)
  /\ UNCHANGED <<container, killed, proven, verdict>>

\* The kill procedure is awaited; a requested stop is proven only by the daemon.
Settle ==
  /\ kpc = "settle" /\ kill.st \in {"no", "over"}
  /\ kpc' = "judge"
  /\ \E seen \in StateReads :
       proven' = \/ why = None /\ ~waitFailed
                 \/ (kill.st = "no" \/ killed) /\ isProven(seen)
  /\ UNCHANGED <<container, why, kill, killed, waitFailed, verdict>>

\* The summary k6 left: none, one that crossed a STOP, one with gaps, one that crossed a PASS, a clean one.
Summaries == {"none", "stop", "gaps", "fail", "clean"}
judgeK6Run(summary, exitZero) ==
  IF why # None THEN IF proven THEN "STOP" ELSE "ERROR"
  ELSE IF summary \in {"none", "stop"} THEN "STOP"
  ELSE IF summary = "gaps" THEN "ERROR"
  ELSE IF summary = "fail" \/ ~exitZero THEN "FAIL"
  ELSE "PASS"

Judge ==
  /\ kpc = "judge"
  /\ \E summary \in Summaries, exitZero \in BOOLEAN : verdict' = judgeK6Run(summary, exitZero)
  /\ kpc' = "remove"
  /\ UNCHANGED <<container, why, kill, killed, waitFailed, proven>>

\* Whatever happened the container is removed, and that is verified.
removeLabContainer ==
  /\ kpc = "remove"
  /\ \/ container' = "gone" /\ UNCHANGED verdict
     \/ /\ container' \in {container, "gone"}
        /\ verdict' = IF verdict = "PASS" THEN "ERROR" ELSE verdict
  /\ kpc' = "done"
  /\ UNCHANGED <<why, kill, killed, waitFailed, proven>>

K6Next ==
  \/ K6Start \/ DaemonStarts \/ ContainerExits \/ StartReturns \/ StartFails
  \/ \E reason \in {"wall-clock", "authorization-expiry"} : Request(reason)
  \/ KillCall \/ KillRead \/ WaitReturns \/ KillOver \/ WaitFails \/ Settle \/ Judge \/ removeLabContainer

K6Init ==
  /\ container = "created" /\ kpc = "idle" /\ why = None /\ kill = NoKill /\ killed = FALSE
  /\ waitFailed = FALSE /\ proven = FALSE /\ verdict = None

-----------------------------------------------------------------------------
(* The run.                                                                *)

vars == <<now, policyVars, result, openVars, closedVars, k6Vars>>

engine == request.engine
Running == result = "running"

\* Refused before any network activity.
Refuse ==
  /\ result = None /\ ~Acceptable(request)
  /\ result' = "REFUSED"
  /\ UNCHANGED <<now, policyVars, openVars, closedVars, k6Vars>>

\* What the run keeps of the request: its engine and whether the destination is leased.
Authorize ==
  /\ result = None /\ Acceptable(request)
  /\ result' = "running"
  /\ limits' = applyCliLimits(Workloads[engine], request.cli)
  /\ request' = [engine |-> engine, guarded |-> request.guarded]
  /\ until' = TargetOf(request).expires
  /\ UNCHANGED <<now, openVars, closedVars, k6Vars>>

OpenTurn(A) == Running /\ engine = "http" /\ A /\ UNCHANGED <<now, policyVars, result, closedVars, k6Vars>>
ClosedTurn(A) == Running /\ engine = "http-closed-loop" /\ A /\ UNCHANGED <<now, policyVars, result, openVars, k6Vars>>
K6Turn(A) == Running /\ engine = "k6" /\ A /\ UNCHANGED <<now, policyVars, result, openVars, closedVars>>

\* A run that was stopped is not judged by its phases.
OpenVerdict == IF stop # None THEN "STOP" ELSE IF evaluateHttpPass(phases) THEN "PASS" ELSE "FAIL"

OpenResult ==
  /\ Running /\ engine = "http"
  /\ \/ pc = "done" /\ result' = OpenVerdict
     \/ pc = "threw" /\ result' \in {"REFUSED", "ERROR"}
  /\ UNCHANGED <<now, policyVars, openVars, closedVars, k6Vars>>

ClosedResult ==
  /\ Running /\ engine = "http-closed-loop" /\ ~Level
  /\ result' = CASE kind \in {"completed", "total_ceiling"} -> "GENERATOR-COMPLETE"
                 [] kind = "operator_abort" -> "ABORTED"
                 [] OTHER -> "STOP"
  /\ UNCHANGED <<now, policyVars, openVars, closedVars, k6Vars>>

K6Result ==
  /\ Running /\ engine = "k6" /\ kpc = "done"
  /\ result' = verdict
  /\ UNCHANGED <<now, policyVars, openVars, closedVars, k6Vars>>

Tick ==
  /\ Running /\ now < MaxTime
  /\ CASE engine = "http" -> ~OpenOverdue
       [] engine = "http-closed-loop" -> ~ClosedOverdue
       [] OTHER -> FALSE
  /\ now' = now + 1
  /\ UNCHANGED <<policyVars, result, openVars, closedVars, k6Vars>>

Next ==
  \/ Refuse \/ Authorize \/ Tick
  \/ OpenTurn(OpenNext) \/ ClosedTurn(ClosedNext) \/ K6Turn(K6Next)
  \/ OpenResult \/ ClosedResult \/ K6Result

Init ==
  /\ now = 0 /\ result = None
  /\ request \in Requests
  /\ until = Never
  /\ limits = [phases |-> << >>, duration |-> 0, total |-> 0]
  /\ OpenInit /\ ClosedInit /\ K6Init

Spec == Init /\ [][Next]_vars

\* Timers fire and the event loop serves what is ready; the daemon need not answer a check of the watcher.
FairSpec ==
  /\ Spec
  /\ WF_vars(Authorize \/ Refuse \/ OpenResult \/ ClosedResult \/ K6Result)
  /\ WF_vars(Tick)
  /\ WF_vars(OpenTurn(Open \/ (pc = "verify" /\ verifyAppContainer) \/ FirstProof \/ WatcherWakes \/ Proved \/ Disproved))
  /\ WF_vars(OpenTurn(StartPhase \/ LoopEnds \/ LoopStops \/ PhaseEnds \/ AllPhasesEnd \/ Return))
  /\ WF_vars(OpenTurn(HardStop))
  /\ WF_vars(OpenTurn(\E r \in pending, outcome \in Outcomes : Settles(r, outcome)))
  /\ WF_vars(ClosedTurn(AbortTimer))
  /\ WF_vars(ClosedTurn(\E w \in Workers : WorkerStep(w)))
  /\ WF_vars(K6Turn(K6Start \/ StartReturns \/ StartFails))
  /\ WF_vars(K6Turn(Request("wall-clock")))
  /\ WF_vars(K6Turn(KillCall \/ KillRead))
  /\ WF_vars(K6Turn(KillOver \/ WaitReturns \/ (kpc = "reap" /\ WaitFails)))
  /\ WF_vars(K6Turn(Settle \/ Judge \/ removeLabContainer))

-----------------------------------------------------------------------------
(* Properties.                                                             *)

\* No request leaves for a destination the lab no longer owns for longer than the lease allows:
\* at most three stale periods after it was lost (one check may take two of them and be believed for
\* a third), or one after the first proof, which has no time limit (engine.ts, DestinationGuard).
LeaseBoundsTraffic ==
  lostAt # Never => lastSend <= Max({lostAt + 3 * MaxStale, firstOk + MaxStale})

\* Neither engine ever runs ahead of its schedule, whatever was dropped, late, skipped or refused:
\* the starts so far are at most one per interval since the phase began (nextSend, nextSlot).
PaceHolds ==
  Running =>
    /\ engine = "http" /\ pc = "loop" => attempted <= 1 + (now - start) \div p.interval
    /\ engine = "http-closed-loop" => sent <= 1 + now \div level.interval

\* A result is what it says: PASS is a run that was not stopped, with nothing in flight and, unless the
\* hard stop cut it, with all of its phases; a completed
\* generator lost nothing and has an answer for each attempt; a k6 result other than ERROR means that
\* no container is sending any more (run.ts, evaluateHttpPass, executeClosedLoop, superviseContainer).
ResultIsEarned ==
  /\ engine = "http" /\ result = "PASS" =>
        stop = None /\ pending = {} /\ (~hard => Len(phases) = Len(limits.phases))
  /\ result = "GENERATOR-COMPLETE" /\ kind = "completed" => transport = 0 /\ responses = sent
  /\ engine = "k6" /\ result \in {"PASS", "FAIL", "STOP"} => container \in {"stopped", "gone"}

-----------------------------------------------------------------------------
(* The inductive invariant behind them.                                    *)

PhaseStats == [rule : Rules, attempted : Nat, failed : Nat, late : BOOLEAN]
Checks == [st : {"off", "asked", "answered", "asleep"}, since : Nat, saw : BOOLEAN]
OpenTypes ==
  /\ pc \in {"idle", "verify", "next", "loop", "drain", "closing", "throwing", "done", "threw"}
  /\ phase \in Nat /\ start \in Nat /\ nextSend \in Nat
  /\ attempted \in Nat /\ failed \in Nat /\ late \in BOOLEAN /\ hard \in BOOLEAN
  /\ phases \in Seq(PhaseStats) /\ check \in Checks
  /\ lastOk \in Nat /\ firstOk \in Nat /\ lastSend \in Nat /\ lostAt \in Nat /\ owned \in BOOLEAN

WorkerStates == [st : {"ready", "asleep", "sending", "exited"}, at : Nat]
ClosedTypes ==
  /\ worker \in [1 .. Workloads["http-closed-loop"].ceilings.concurrency -> WorkerStates]
  /\ nextSlot \in Nat
  /\ sent \in Nat /\ responses \in Nat /\ transport \in Nat /\ cut \in Nat
  /\ aborted \in BOOLEAN

K6Types ==
  /\ container \in {"created", "running", "stopped", "gone"}
  /\ kpc \in {"idle", "start", "wait", "reap", "settle", "judge", "remove", "done"}
  /\ verdict \in {None, "PASS", "FAIL", "STOP", "ERROR"}

LoadTypes == now \in 0 .. MaxTime /\ OpenTypes /\ ClosedTypes /\ K6Types

\* Only the engine of an authorised run does anything; its limits are those of a reviewed workload.
AuthorityInv ==
  /\ request.engine \in Engines /\ (result = None => request \in Requests)
  /\ result = None \/ engine # "http" \/ pc = "idle" => OpenInit
  /\ result = None \/ engine # "http-closed-loop" => ClosedInit
  /\ result = None \/ engine # "k6" => K6Init
  /\ Running => limits.phases \in Seq(Phases) /\ limits.phases # << >> /\ limits.duration \in Nat

\* A phase is current, or all that began have ended and nothing is in flight; the last one ends the run.
PhaseInv ==
  Running =>
    /\ phase <= Len(limits.phases)
    /\ pc \in {"loop", "drain"} => phase = Len(phases) + 1
    /\ pc \in {"next", "closing", "done"} => phase = Len(phases) /\ pending = {}
    /\ pc \in {"idle", "verify"} => phase = 0 /\ phases = << >> /\ pending = {}
    /\ pc \in {"closing", "done"} => stop # None \/ hard \/ phase = Len(limits.phases)

\* A check that is out was asked for at most two stale periods ago; one that saw the destination was
\* asked for before the loss, so what is believed after the loss is at most that old.
LeaseInv ==
  /\ ~guarded => lostAt = Never
  /\ owned <=> lostAt = Never
  /\ lostAt # Never => lostAt <= now
  /\ lastOk <= now /\ firstOk <= lastOk /\ lastSend <= now /\ check.since <= now
  /\ pc # "verify" /\ check.st \in {"asked", "answered"} => now <= check.since + 2 * MaxStale
  /\ check.st = "answered" /\ check.saw /\ lostAt # Never => check.since <= lostAt
  /\ guarded => lastSend <= lastOk + MaxStale
  /\ lostAt # Never => lastOk <= lostAt + 2 * MaxStale \/ lastOk = firstOk

\* The open loop's next send is due one interval after the last.
OpenPaceInv ==
  Running /\ pc = "loop" =>
    /\ start <= now
    /\ start + attempted * p.interval <= nextSend
    /\ attempted <= 1 + (now - start) \div p.interval

\* Every send and every sleeper holds a slot of its own, and slots are one interval apart.
AsleepBy(t) == {w \in Workers : worker[w].st = "asleep" /\ worker[w].at <= t}
Asleep == {w \in Workers : worker[w].st = "asleep"}
ClosedPaceInv ==
  Running =>
    /\ (sent + Cardinality(Asleep)) * level.interval <= nextSlot
    /\ \A t \in now .. MaxTime : sent + Cardinality(AsleepBy(t)) <= 1 + t \div level.interval

\* Each attempt is answered, lost, or on the wire; one that was cut short is counted on both sides.
OnWire == {w \in Workers : Sending(w)}
AnswersInv ==
  /\ sent + cut = responses + transport + Cardinality(OnWire)
  /\ cut <= transport
  /\ transport > 0 => kind # "completed"

\* What is judged without a stop, or with one that is proven, no longer runs.
ContainerInv ==
  /\ kpc \in {"settle", "judge"} /\ why = None => container \in {"stopped", "gone"}
  /\ kpc = "judge" /\ proven => container \in {"stopped", "gone"}
  /\ verdict # None <=> kpc \in {"remove", "done"}
  /\ verdict \in {"PASS", "FAIL", "STOP"} => container \in {"stopped", "gone"}

LoadInv ==
  /\ LoadTypes /\ AuthorityInv /\ PhaseInv /\ LeaseInv /\ OpenPaceInv /\ ClosedPaceInv
  /\ AnswersInv /\ ContainerInv /\ ResultIsEarned

\* Every run ends with a result: a request, a check, a container or a daemon that hangs does not keep it.
RunEnds == <>(result \notin {None, "running"})
=============================================================================
