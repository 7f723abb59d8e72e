---------------------------- MODULE LoadEngines -----------------------------
(***************************************************************************)
(* The two HTTP engines of the load laboratory.                            *)
(*                                                                         *)
(* The bounded engine (lab/load/engine.ts) has phases that dispatch at a   *)
(* rate under a concurrency cap, a request ceiling, a dispatch deadline    *)
(* and a hard stop after it, the STOP thresholds, and the destination      *)
(* lease: a watcher that keeps re-proving who owns the destination while   *)
(* requests are sent.                                                      *)
(*                                                                         *)
(* The closed-loop generator of a field level (lab/load/closed-loop.ts)    *)
(* has workers that each send their next request only after the previous   *)
(* one settled, paced by a shared slot, until the level's duration, a      *)
(* ceiling, a transport failure, an expired authorisation or the operator  *)
(* ends it.                                                                *)
(*                                                                         *)
(* An engine is one event loop; a step is what it does between two awaits. *)
(***************************************************************************)
EXTENDS LoadPolicy

CONSTANTS
  SetupAllowance, Grace,     \* SETUP_ALLOWANCE_MS, DRAIN_GRACE_MS
  GuardInterval, MaxStale,   \* intervalMs and maxStaleMs of the destination guard
  MaxProof                   \* bound: ticks the first check of the destination takes

ASSUME LeaseAssumption == MaxStale \in Nat

VARIABLES
  pc,           \* idle, verify, next, loop, drain, closing, throwing, done, threw
  phase,        \* index of the current phase
  start, nextSend, attempted, failed, late,   \* of the current phase
  total,        \* totalAttempted
  pending,      \* the requests in flight, each with the time its own timer fires
  phases,       \* the statistics of the phases that ended
  health,       \* the StopState
  stop, hard,   \* stopReason, and whether hardStop was aborted
  check,        \* the ownership check: state, since when, what it saw
  lastOk,       \* when a check last succeeded
  owned, lostAt, firstOk, lastSend   \* the destination; history for the lease

loopVars == <<phase, start, nextSend, attempted, failed, late, phases>>
sendVars == <<total, pending, lastSend>>
leaseVars == <<check, lastOk, firstOk>>
openVars == <<pc, loopVars, sendVars, health, stop, hard, leaseVars, owned, lostAt>>

p == limits.phases[phase]
Deadline == limits.duration + SetupAllowance
HardStopAt == Deadline + Grace
guarded == request.guarded
Off == [st |-> "off", since |-> 0, saw |-> TRUE]
watching == pc \in {"next", "loop", "drain"}

FirstStop(reason) == IF stop = None THEN reason ELSE stop

-----------------------------------------------------------------------------
(* The destination lease.                                                  *)

Open ==
  /\ pc = "idle"
  /\ IF guarded THEN pc' = "verify" /\ check' = [Off EXCEPT !.st = "asked"]
                ELSE pc' = "next" /\ UNCHANGED check
  /\ UNCHANGED <<loopVars, sendVars, health, stop, hard, lastOk, firstOk, owned, lostAt>>

LoseDestination ==
  /\ guarded /\ owned /\ pc \notin {"idle", "done", "threw"}
  /\ owned' = FALSE /\ lostAt' = now
  /\ UNCHANGED <<pc, loopVars, sendVars, health, stop, hard, leaseVars>>

\* The daemon answers the inspection from the state it has at that moment.
verifyAppContainer ==
  /\ check.st = "asked"
  /\ check' = [check EXCEPT !.st = "answered", !.saw = owned]
  /\ UNCHANGED <<pc, loopVars, sendVars, health, stop, hard, lastOk, firstOk, owned, lostAt>>

\* Fail closed before any traffic; this check has no time limit of its own.
FirstProof ==
  /\ pc = "verify" /\ check.st = "answered"
  /\ IF check.saw
       THEN /\ pc' = "next" /\ lastOk' = now /\ firstOk' = now
            /\ check' = [st |-> "asleep", since |-> now, saw |-> TRUE]
       ELSE pc' = "threw" /\ check' = Off /\ UNCHANGED <<lastOk, firstOk>>
  /\ UNCHANGED <<loopVars, sendVars, health, stop, hard, owned, lostAt>>

WatcherWakes ==
  /\ pc # "verify" /\ check.st = "asleep" /\ now >= check.since + GuardInterval
  /\ check' = IF watching THEN [st |-> "asked", since |-> now, saw |-> TRUE] ELSE Off
  /\ UNCHANGED <<pc, loopVars, sendVars, health, stop, hard, lastOk, firstOk, owned, lostAt>>

Proved ==
  /\ pc # "verify" /\ check.st = "answered" /\ check.saw
  /\ lastOk' = now
  /\ check' = IF watching THEN [st |-> "asleep", since |-> now, saw |-> TRUE] ELSE Off
  /\ UNCHANGED <<pc, loopVars, sendVars, health, stop, hard, firstOk, owned, lostAt>>

\* Mutant: a check that hangs is waited for.
NeverTimesOut == FALSE
CheckTimesOut == now >= check.since + 2 * MaxStale

Disproved ==
  /\ pc # "verify"
  /\ \/ check.st = "answered" /\ ~check.saw
     \/ check.st \in {"asked", "answered"} /\ CheckTimesOut
  /\ stop' = FirstStop("ownership") /\ hard' = TRUE
  /\ check' = Off
  /\ UNCHANGED <<pc, loopVars, sendVars, health, lastOk, firstOk, owned, lostAt>>

-----------------------------------------------------------------------------
(* The phases.                                                             *)

StartPhase ==
  /\ pc = "next" /\ stop = None /\ ~hard /\ phase < Len(limits.phases)
  /\ pc' = "loop" /\ phase' = phase + 1
  /\ start' = now /\ nextSend' = now
  /\ attempted' = 0 /\ failed' = 0 /\ late' = FALSE
  /\ UNCHANGED <<sendVars, phases, health, stop, hard, leaseVars, owned, lostAt>>

LoopEnds ==
  /\ pc = "loop" /\ (now >= start + p.duration \/ stop # None \/ hard)
  /\ pc' = "drain"
  /\ UNCHANGED <<loopVars, sendVars, health, stop, hard, leaseVars, owned, lostAt>>

Looping == pc = "loop" /\ now < start + p.duration /\ stop = None /\ ~hard
age == now - lastOk

\* The reasons an iteration stops the run for, in the order it looks at them.
LoopStop ==
  IF now >= Deadline THEN "deadline"
  ELSE IF ~StillAuthorized(now) THEN "expired"
  ELSE IF guarded /\ age > 4 * MaxStale THEN "unproven"
  ELSE None

LoopStops ==
  /\ Looping /\ LoopStop # None
  /\ stop' = LoopStop /\ pc' = "drain"
  /\ UNCHANGED <<loopVars, sendVars, health, hard, leaseVars, owned, lostAt>>

\* Mutant: a proof is good for as long as the run may wait for the next one.
FreshForLong == guarded => age <= 4 * MaxStale
\* Nothing is sent on a stale proof.
Fresh == guarded => age <= MaxStale

Due == now >= nextSend
\* The schedule never accumulates a backlog.
NextSend == LET n == nextSend + p.interval IN IF n + p.interval < now THEN now + p.interval ELSE n

Iterates == Looping /\ LoopStop = None /\ Fresh /\ Due

CeilingReached ==
  /\ Iterates /\ total >= limits.total
  /\ stop' = "ceiling" /\ pc' = "drain" /\ nextSend' = NextSend
  /\ UNCHANGED <<phase, start, attempted, failed, late, phases, sendVars, health, hard, leaseVars, owned, lostAt>>

CapReached ==
  /\ Iterates /\ total < limits.total /\ attempted >= PhaseCap(p)
  /\ pc' = "drain" /\ nextSend' = NextSend
  /\ UNCHANGED <<phase, start, attempted, failed, late, phases, sendVars, health, stop, hard, leaseVars, owned, lostAt>>

MaySend == Iterates /\ total < limits.total /\ attempted < PhaseCap(p)

\* Too many in flight: the send is dropped, never queued.
DropSend ==
  /\ MaySend /\ Cardinality(pending) >= p.concurrency
  /\ nextSend' = NextSend
  /\ UNCHANGED <<pc, phase, start, attempted, failed, late, phases, sendVars, health, stop, hard, leaseVars, owned, lostAt>>

Counted ==
  /\ MaySend /\ Cardinality(pending) < p.concurrency
  /\ total' = total + 1 /\ attempted' = attempted + 1 /\ nextSend' = NextSend
  /\ UNCHANGED <<phase, start, failed, late, phases, health, stop, hard, leaseVars, owned, lostAt>>

sendAuthorized ==
  /\ Counted
  /\ pending' = pending \union {[n |-> total + 1, until |-> now + p.timeout]}
  /\ lastSend' = now
  /\ UNCHANGED pc

\* The sender reads the clock again and may find the authorisation lapsed: it throws.
SendRefused ==
  /\ Counted /\ ~StillAuthorized(now + 1)
  /\ pc' = "throwing"
  /\ UNCHANGED <<pending, lastSend>>

\* A request ends with an answer, an error, its own timer or the hard stop.
Settles(r, outcome) ==
  /\ r \in pending /\ (hard \/ now >= r.until => outcome = "failed")
  /\ pending' = pending \ {r}
  /\ failed' = failed + One(outcome = "failed")
  /\ late' = (late \/ outcome = "late")
  /\ health' = IF p.rule = "measured" THEN Observe(health, outcome) ELSE health
  /\ stop' = IF p.rule = "measured" /\ evaluateStop(health') THEN FirstStop("threshold") ELSE stop
  /\ UNCHANGED <<pc, phase, start, nextSend, attempted, phases, total, lastSend, hard, leaseVars, owned, lostAt>>

PhaseEnds ==
  /\ pc = "drain" /\ pending = {}
  /\ phases' = Append(phases, [rule |-> p.rule, attempted |-> attempted, failed |-> failed, late |-> late])
  /\ pc' = "next"
  /\ UNCHANGED <<phase, start, nextSend, attempted, failed, late, sendVars, health, stop, hard, leaseVars, owned, lostAt>>

AllPhasesEnd ==
  /\ pc = "next" /\ (stop # None \/ hard \/ phase = Len(limits.phases))
  /\ pc' = "closing"
  /\ UNCHANGED <<loopVars, sendVars, health, stop, hard, leaseVars, owned, lostAt>>

\* The hard stop is a timer that is cleared only when the run returns.
HardStop ==
  /\ pc \notin {"idle", "done", "threw"} /\ now >= HardStopAt /\ ~hard
  /\ hard' = TRUE
  /\ UNCHANGED <<pc, loopVars, sendVars, health, stop, leaseVars, owned, lostAt>>

\* The run returns, or throws, once its watcher has ended.
Return ==
  /\ pc \in {"closing", "throwing"} /\ check.st = "off"
  /\ pc' = IF pc = "closing" THEN "done" ELSE "threw"
  /\ UNCHANGED <<loopVars, sendVars, health, stop, hard, leaseVars, owned, lostAt>>

\* A timer that is due fires, and what awaits nothing happens, before the clock moves on; a send may be late.
OpenOverdue ==
  \/ pc \in {"idle", "next", "done", "threw"}
  \/ pc = "verify" /\ now >= MaxProof
  \/ pc = "loop" /\ (Looping => LoopStop # None)
  \/ pc = "drain" /\ pending = {}
  \/ pc \in {"closing", "throwing"} /\ check.st = "off"
  \/ pc \notin {"idle", "done", "threw"} /\ now >= HardStopAt /\ ~hard
  \/ \E r \in pending : hard \/ now >= r.until
  \/ pc # "verify" /\ check.st = "asleep" /\ now >= check.since + GuardInterval
  \/ pc # "verify" /\ check.st \in {"asked", "answered"} /\ CheckTimesOut

OpenNext ==
  \/ Open \/ LoseDestination \/ verifyAppContainer \/ FirstProof \/ WatcherWakes \/ Proved \/ Disproved
  \/ StartPhase \/ LoopEnds \/ LoopStops \/ CeilingReached \/ CapReached
  \/ DropSend \/ sendAuthorized \/ SendRefused
  \/ \E r \in pending, outcome \in Outcomes : Settles(r, outcome)
  \/ PhaseEnds \/ AllPhasesEnd \/ HardStop \/ Return

OpenInit ==
  /\ pc = "idle" /\ phase = 0 /\ start = 0 /\ nextSend = 0
  /\ attempted = 0 /\ failed = 0 /\ late = FALSE /\ phases = << >>
  /\ total = 0 /\ pending = {} /\ lastSend = 0
  /\ health = NoHealth /\ stop = None /\ hard = FALSE
  /\ check = Off /\ lastOk = 0 /\ firstOk = 0
  /\ owned = TRUE /\ lostAt = Never

-----------------------------------------------------------------------------
(* The closed-loop generator.                                              *)

CONSTANTS ClosedSetup, ClosedGrace    \* CLOSED_LOOP_SETUP_ALLOWANCE_MS, CLOSED_LOOP_DRAIN_GRACE_MS

VARIABLES
  worker,        \* of each worker: ready, asleep until its slot, sending until its timer, exited
  nextSlot,
  sent, responses, transport, cut,   \* attempted, responses, transportFailures; history: answers cut short
  kind, aborted  \* stop.kind, and whether hardStop was aborted

closedVars == <<worker, nextSlot, sent, responses, transport, cut, kind, aborted>>

level == limits.phases[1]
Workers == DOMAIN worker
Ready == [st |-> "ready", at |-> 0]
Exited == [st |-> "exited", at |-> 0]
DispatchDeadline == limits.duration + ClosedSetup
AbortAt == DispatchDeadline + ClosedGrace

stopped == kind # "completed" \/ aborted
stopWith(k) == kind' = IF kind = "completed" THEN k ELSE kind

-----------------------------------------------------------------------------
Exit(w) == worker' = [worker EXCEPT ![w] = Exited] /\ UNCHANGED <<sent>>

\* What is looked at between the slot and the socket, in order.
Attempt(w) ==
  IF now >= level.duration THEN Exit(w) /\ UNCHANGED kind
  ELSE IF now >= DispatchDeadline THEN Exit(w) /\ stopWith("deadline")
  ELSE IF sent >= limits.total THEN Exit(w) /\ stopWith("total_ceiling")
  ELSE IF ~StillAuthorized(now) THEN Exit(w) /\ stopWith("authorization_expired")
  ELSE \/ /\ worker' = [worker EXCEPT ![w] = [st |-> "sending", at |-> now + level.timeout]]
          /\ sent' = sent + 1 /\ UNCHANGED kind
       \* The sender reads the clock again: nothing was attempted on the wire.
       \/ ~StillAuthorized(now + 1) /\ Exit(w) /\ stopWith("authorization_expired")

WorkerStops(w) ==
  /\ worker[w].st = "ready" /\ (stopped \/ now >= level.duration)
  /\ Exit(w)
  /\ UNCHANGED <<nextSlot, responses, transport, cut, kind, aborted>>

\* Mutant: the slot is taken after the sleep.
SlotAfterSleep(w) ==
  /\ worker[w].st = "ready" /\ ~stopped /\ now < level.duration
  /\ IF nextSlot > now
       THEN /\ worker' = [worker EXCEPT ![w] = [st |-> "asleep", at |-> nextSlot]]
            /\ UNCHANGED <<sent, kind, nextSlot>>
       ELSE Attempt(w) /\ nextSlot' = now + level.interval
  /\ UNCHANGED <<responses, transport, cut, aborted>>

\* A slot is taken before sleeping, so that workers cannot burst.
TakeSlot(w) ==
  /\ worker[w].st = "ready" /\ ~stopped /\ now < level.duration
  /\ LET slot == Max({now, nextSlot}) IN
     /\ nextSlot' = slot + level.interval
     /\ IF slot > now
          THEN worker' = [worker EXCEPT ![w] = [st |-> "asleep", at |-> slot]] /\ UNCHANGED <<sent, kind>>
          ELSE Attempt(w)
  /\ UNCHANGED <<responses, transport, cut, aborted>>

WorkerWakes(w) ==
  /\ worker[w].st = "asleep" /\ now >= worker[w].at
  /\ IF stopped THEN Exit(w) /\ UNCHANGED kind ELSE Attempt(w)
  /\ UNCHANGED <<nextSlot, responses, transport, cut, aborted>>

Sending(w) == worker[w].st = "sending"

Responds(w) ==
  /\ Sending(w) /\ ~aborted
  /\ responses' = responses + 1
  /\ worker' = [worker EXCEPT ![w] = Ready]
  /\ UNCHANGED <<nextSlot, sent, transport, cut, kind, aborted>>

\* Nothing usable came back; an answer cut short after its status counts as both.
TransportFails(w, status) ==
  /\ Sending(w) /\ (aborted \/ now >= worker[w].at => ~status)
  /\ transport' = transport + 1
  /\ responses' = IF status THEN responses + 1 ELSE responses
  /\ cut' = IF status THEN cut + 1 ELSE cut
  /\ worker' = [worker EXCEPT ![w] = Exited]
  /\ IF aborted /\ kind = "operator_abort" THEN UNCHANGED kind ELSE stopWith("transport_failure")
  /\ UNCHANGED <<nextSlot, sent, aborted>>

Level == \E w \in Workers : worker[w].st # "exited"

onCallerAbort ==
  /\ Level /\ ~aborted
  /\ stopWith("operator_abort") /\ aborted' = TRUE
  /\ UNCHANGED <<worker, nextSlot, sent, responses, transport, cut>>

AbortTimer ==
  /\ Level /\ ~aborted /\ now >= AbortAt
  /\ aborted' = TRUE
  /\ UNCHANGED <<worker, nextSlot, sent, responses, transport, cut, kind>>

\* A worker may wake late; the rest happens before the clock moves on.
ClosedOverdue ==
  \/ ~Level \/ \E w \in Workers : worker[w].st = "ready"
  \/ Level /\ ~aborted /\ now >= AbortAt
  \/ \E w \in Workers : Sending(w) /\ (aborted \/ now >= worker[w].at)

WorkerStep(w) ==
  \/ WorkerStops(w) \/ TakeSlot(w) \/ WorkerWakes(w)
  \/ Responds(w) \/ \E status \in BOOLEAN : TransportFails(w, status)

ClosedNext == onCallerAbort \/ AbortTimer \/ \E w \in Workers : WorkerStep(w)

ClosedInit ==
  /\ worker = [w \in 1 .. Workloads["http-closed-loop"].ceilings.concurrency |-> Ready]
  /\ nextSlot = 0
  /\ sent = 0 /\ responses = 0 /\ transport = 0 /\ cut = 0
  /\ kind = "completed" /\ aborted = FALSE
=============================================================================
