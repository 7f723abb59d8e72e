------------------------------ MODULE LabRunProofs -----------------------------
(***************************************************************************)
(* Proofs about two runs of the laboratory: a load run, for any reviewed   *)
(* workload, any typed limits, any targets and thresholds and any times;   *)
(* and a predecessor-collapse run, for any sizes, timeouts and any order   *)
(* of control messages, requests, answers and timeouts.                    *)
(*                                                                         *)
(* LoadInv has a part for each thing that may go wrong: an engine that is  *)
(* not the run's own does nothing; a phase is current or has ended; what   *)
(* is believed of the destination is at most so old; each send has a due   *)
(* time, or a slot, of its own; each attempt is answered, lost or on the   *)
(* wire; a container that is judged no longer runs.                        *)
(*                                                                         *)
(* CollapseInv says what must be true of an arm for its gates to prove     *)
(* anything: requests are sent in the order of the body; what was asked    *)
(* for is armed when its request is sent, unless a record says otherwise;  *)
(* the arms used up are those the requests took; an answer to the last     *)
(* probe was given after the last arm.                                     *)
(***************************************************************************)
EXTENDS LoadRun, CollapseArm, FiniteSetTheorems, SequenceTheorems, TLAPS

(***************************************************************************)
(* The load run                                                            *)
(***************************************************************************)

\* What a step of an engine leaves alone, and what it may rely on.
RunFrame == UNCHANGED <<now, policyVars, result>>
NowInv == now \in Nat /\ now <= MaxTime
LimitsInv == /\ result = "running"
             /\ limits.phases \in Seq(Phases) /\ limits.phases # << >> /\ limits.duration \in Nat
OpenInv == OpenTypes /\ (pc = "idle" => OpenInit) /\ PhaseInv /\ LeaseInv /\ OpenPaceInv /\ LimitsInv /\ NowInv

-----------------------------------------------------------------------------
(* Quotients, and sends that are due one interval after the other.         *)

LEMMA DivBounds ==
  ASSUME NEW n \in Nat, NEW i \in Nat \ {0}
  PROVE  n \div i \in Nat /\ (n \div i) * i <= n /\ n < (n \div i) * i + i
OBVIOUS

LEMMA DivMono ==
  ASSUME NEW n \in Nat, NEW m \in Nat, NEW i \in Nat \ {0}, n <= m
  PROVE  n \div i <= m \div i
BY DivBounds

LEMMA DivLeast ==
  ASSUME NEW a \in Nat, NEW n \in Nat, NEW i \in Nat \ {0}, a * i <= n
  PROVE  a <= n \div i
<1> DEFINE q == n \div i
<1>1. q \in Nat /\ n < q * i + i BY DivBounds
<1> HIDE DEF q
<1>2. SUFFICES ASSUME a >= q + 1 PROVE FALSE BY <1>1 DEF q
<1>3. a * i >= (q + 1) * i BY <1>1, <1>2
<1>4. (q + 1) * i = q * i + i BY <1>1
<1> QED BY <1>1, <1>3, <1>4

\* One more send, and the next one due an interval later.
LEMMA PaceStep ==
  ASSUME NEW s \in Nat, NEW a \in Nat, NEW n \in Nat, NEW m \in Nat, NEW t \in Nat, NEW i \in Nat \ {0},
         s <= t, s + a * i <= n, n <= t, n + i <= m
  PROVE  s + (a + 1) * i <= m /\ a + 1 <= 1 + (t - s) \div i
<1>1. (a + 1) * i = a * i + i /\ a * i \in Nat OBVIOUS
<1>2. a * i <= t - s /\ t - s \in Nat BY <1>1
<1>3. a <= (t - s) \div i /\ (t - s) \div i \in Nat BY <1>2, DivLeast, DivBounds
<1> QED BY <1>1, <1>3

LEMMA PaceKept ==
  ASSUME NEW s \in Nat, NEW a \in Nat, NEW n \in Nat, NEW m \in Nat, NEW i \in Nat \ {0},
         s + a * i <= n, n + i <= m
  PROVE  s + a * i <= m
<1>1. a * i \in Nat OBVIOUS
<1> QED BY <1>1

-----------------------------------------------------------------------------
(* The bounded engine.                                                     *)

LEMMA PhaseType ==
  ASSUME OpenInv, pc \in {"loop", "drain"}
  PROVE  p \in Phases
<1>1. phase \in 1 .. Len(limits.phases)
  BY DEF OpenInv, PhaseInv, LimitsInv, OpenTypes, Running
<1> QED BY <1>1 DEF OpenInv, LimitsInv, p

LEMMA NextSendBound ==
  ASSUME OpenInv, pc \in {"loop", "drain"}
  PROVE  NextSend \in Nat /\ NextSend >= nextSend + p.interval
<1>1. p.interval \in Nat \ {0} BY PhaseType DEF Phases
<1> QED BY <1>1 DEF NextSend, OpenInv, OpenTypes, LimitsInv, NowInv

LEMMA NextSendType ==
  ASSUME OpenInv, pc \in {"loop", "drain"}
  PROVE  NextSend \in Nat
BY NextSendBound

\* One lemma for each of its actions.
LEMMA OpenOpenStep ==
  ASSUME OpenInv, Open, RunFrame
  PROVE  OpenInv'
<1> USE DEF OpenInv, RunFrame, policyVars, loopVars, sendVars, leaseVars
<1>1. OpenTypes'
  <2>1. Off \in Checks BY DEF Off, Checks
  <2>2. [Off EXCEPT !.st = "asked"] \in Checks BY <2>1 DEF Checks
  <2>3. check' \in Checks BY <2>1, <2>2 DEF OpenTypes, Open
  <2>4. pc' \in {"verify", "next"} BY DEF Open
  <2> QED BY <2>3, <2>4 DEF OpenTypes, Open
<1>2. (pc = "idle" => OpenInit)'
  BY DEF OpenInit, OpenTypes, Off, Open
<1>3. PhaseInv'
  BY DEF PhaseInv, OpenTypes, LimitsInv, Running, None, Open
<1>4. LeaseInv'
  BY LeaseAssumption, ShapeAssumption DEF LeaseInv, OpenTypes, Checks, OpenInit, Off, guarded, Never, NowInv,
       Open
<1>5. OpenPaceInv'
  BY NextSendBound DEF OpenPaceInv, OpenTypes, p, Running, NowInv, Open
<1>6. LimitsInv' /\ NowInv'
  BY DEF LimitsInv, NowInv, Open
<1> QED BY <1>1, <1>2, <1>3, <1>4, <1>5, <1>6

LEMMA OpenLoseDestinationStep ==
  ASSUME OpenInv, LoseDestination, RunFrame
  PROVE  OpenInv'
<1> USE DEF OpenInv, RunFrame, policyVars, loopVars, sendVars, leaseVars
<1>1. OpenTypes'
  BY DEF OpenTypes, Checks, Off, NowInv, LoseDestination
<1>2. (pc = "idle" => OpenInit)'
  BY DEF OpenInit, OpenTypes, Off, LoseDestination
<1>3. PhaseInv'
  BY DEF PhaseInv, OpenTypes, LimitsInv, Running, None, LoseDestination
<1>4. LeaseInv'
  BY LeaseAssumption, ShapeAssumption DEF LeaseInv, OpenTypes, Checks, OpenInit, Off, guarded, Never, NowInv,
       LoseDestination
<1>5. OpenPaceInv'
  BY NextSendBound DEF OpenPaceInv, OpenTypes, p, Running, NowInv, LoseDestination
<1>6. LimitsInv' /\ NowInv'
  BY DEF LimitsInv, NowInv, LoseDestination
<1> QED BY <1>1, <1>2, <1>3, <1>4, <1>5, <1>6

LEMMA OpenVerifyAppContainerStep ==
  ASSUME OpenInv, verifyAppContainer, RunFrame
  PROVE  OpenInv'
<1> USE DEF OpenInv, RunFrame, policyVars, loopVars, sendVars, leaseVars
<1>1. OpenTypes'
  BY DEF OpenTypes, Checks, Off, NowInv, verifyAppContainer
<1>2. (pc = "idle" => OpenInit)'
  BY DEF OpenInit, OpenTypes, Off, verifyAppContainer
<1>3. PhaseInv'
  BY DEF PhaseInv, OpenTypes, LimitsInv, Running, None, verifyAppContainer
<1>4. LeaseInv'
  BY LeaseAssumption, ShapeAssumption DEF LeaseInv, OpenTypes, Checks, OpenInit, Off, guarded, Never, NowInv,
       verifyAppContainer
<1>5. OpenPaceInv'
  BY NextSendBound DEF OpenPaceInv, OpenTypes, p, Running, NowInv, verifyAppContainer
<1>6. LimitsInv' /\ NowInv'
  BY DEF LimitsInv, NowInv, verifyAppContainer
<1> QED BY <1>1, <1>2, <1>3, <1>4, <1>5, <1>6

LEMMA OpenFirstProofStep ==
  ASSUME OpenInv, FirstProof, RunFrame
  PROVE  OpenInv'
<1> USE DEF OpenInv, RunFrame, policyVars, loopVars, sendVars, leaseVars
<1>1. OpenTypes'
  <2>1. [st |-> "asleep", since |-> now, saw |-> TRUE] \in Checks BY DEF Checks, NowInv
  <2>2. Off \in Checks BY DEF Checks, Off
  <2>3. check' \in Checks BY <2>1, <2>2 DEF FirstProof
  <2>4. lastOk' \in Nat /\ firstOk' \in Nat BY DEF OpenTypes, NowInv, FirstProof
  <2>5. pc' \in {"next", "threw"} BY DEF FirstProof
  <2> QED BY <2>3, <2>4, <2>5 DEF OpenTypes, FirstProof
<1>2. (pc = "idle" => OpenInit)'
  BY DEF OpenInit, OpenTypes, Off, FirstProof
<1>3. PhaseInv'
  BY DEF PhaseInv, OpenTypes, LimitsInv, Running, None, FirstProof
<1>4. LeaseInv'
  BY LeaseAssumption, ShapeAssumption DEF LeaseInv, OpenTypes, Checks, OpenInit, Off, guarded, Never, NowInv,
       FirstProof
<1>5. OpenPaceInv'
  BY NextSendBound DEF OpenPaceInv, OpenTypes, p, Running, NowInv, FirstProof
<1>6. LimitsInv' /\ NowInv'
  BY DEF LimitsInv, NowInv, FirstProof
<1> QED BY <1>1, <1>2, <1>3, <1>4, <1>5, <1>6

LEMMA OpenWatcherWakesStep ==
  ASSUME OpenInv, WatcherWakes, RunFrame
  PROVE  OpenInv'
<1> USE DEF OpenInv, RunFrame, policyVars, loopVars, sendVars, leaseVars
<1>1. OpenTypes'
  BY DEF OpenTypes, Checks, Off, NowInv, WatcherWakes, watching
<1>2. (pc = "idle" => OpenInit)'
  BY DEF OpenInit, OpenTypes, Off, WatcherWakes, watching
<1>3. PhaseInv'
  BY DEF PhaseInv, OpenTypes, LimitsInv, Running, None, WatcherWakes, watching
<1>4. LeaseInv'
  BY LeaseAssumption, ShapeAssumption DEF LeaseInv, OpenTypes, Checks, OpenInit, Off, guarded, Never, NowInv,
       WatcherWakes, watching
<1>5. OpenPaceInv'
  BY NextSendBound DEF OpenPaceInv, OpenTypes, p, Running, NowInv, WatcherWakes, watching
<1>6. LimitsInv' /\ NowInv'
  BY DEF LimitsInv, NowInv, WatcherWakes, watching
<1> QED BY <1>1, <1>2, <1>3, <1>4, <1>5, <1>6

LEMMA OpenProvedStep ==
  ASSUME OpenInv, Proved, RunFrame
  PROVE  OpenInv'
<1> USE DEF OpenInv, RunFrame, policyVars, loopVars, sendVars, leaseVars
<1>1. OpenTypes'
  BY DEF OpenTypes, Checks, Off, NowInv, Proved, watching
<1>2. (pc = "idle" => OpenInit)'
  BY DEF OpenInit, OpenTypes, Off, Proved, watching
<1>3. PhaseInv'
  BY DEF PhaseInv, OpenTypes, LimitsInv, Running, None, Proved, watching
<1>4. LeaseInv'
  BY LeaseAssumption, ShapeAssumption DEF LeaseInv, OpenTypes, Checks, OpenInit, Off, guarded, Never, NowInv,
       Proved, watching
<1>5. OpenPaceInv'
  BY NextSendBound DEF OpenPaceInv, OpenTypes, p, Running, NowInv, Proved, watching
<1>6. LimitsInv' /\ NowInv'
  BY DEF LimitsInv, NowInv, Proved, watching
<1> QED BY <1>1, <1>2, <1>3, <1>4, <1>5, <1>6

LEMMA OpenDisprovedStep ==
  ASSUME OpenInv, Disproved, RunFrame
  PROVE  OpenInv'
<1> USE DEF OpenInv, RunFrame, policyVars, loopVars, sendVars, leaseVars
<1>1. OpenTypes'
  BY DEF OpenTypes, Checks, Off, NowInv, Disproved, FirstStop
<1>2. (pc = "idle" => OpenInit)'
  BY DEF OpenInit, OpenTypes, Off, Disproved, FirstStop
<1>3. PhaseInv'
  BY DEF PhaseInv, OpenTypes, LimitsInv, Running, None, Disproved, FirstStop
<1>4. LeaseInv'
  BY LeaseAssumption, ShapeAssumption DEF LeaseInv, OpenTypes, Checks, OpenInit, Off, guarded, Never, NowInv,
       Disproved, FirstStop
<1>5. OpenPaceInv'
  BY NextSendBound DEF OpenPaceInv, OpenTypes, p, Running, NowInv, Disproved, FirstStop
<1>6. LimitsInv' /\ NowInv'
  BY DEF LimitsInv, NowInv, Disproved, FirstStop
<1> QED BY <1>1, <1>2, <1>3, <1>4, <1>5, <1>6

LEMMA OpenStartPhaseStep ==
  ASSUME OpenInv, StartPhase, RunFrame
  PROVE  OpenInv'
<1> USE DEF OpenInv, RunFrame, policyVars, loopVars, sendVars, leaseVars
<1>1. OpenTypes'
  <2>1. late' \in BOOLEAN BY DEF StartPhase
  <2>2. phase' \in Nat /\ start' \in Nat /\ nextSend' \in Nat /\ attempted' \in Nat /\ failed' \in Nat
    BY DEF OpenTypes, NowInv, StartPhase
  <2> QED BY <2>1, <2>2 DEF OpenTypes, StartPhase
<1>2. (pc = "idle" => OpenInit)'
  BY DEF OpenInit, OpenTypes, Off, StartPhase
<1>3. PhaseInv'
  BY DEF PhaseInv, OpenTypes, LimitsInv, Running, None, StartPhase
<1>4. LeaseInv'
  BY LeaseAssumption, ShapeAssumption DEF LeaseInv, OpenTypes, Checks, OpenInit, Off, guarded, Never, NowInv,
       StartPhase
<1>5. OpenPaceInv'
  <2>1. phase' = phase + 1 /\ phase \in Nat /\ phase + 1 <= Len(limits.phases) /\ limits' = limits
    BY DEF OpenTypes, LimitsInv, StartPhase
  <2>2. p' = limits.phases[phase + 1]
    BY <2>1 DEF p
  <2>3. p' \in Phases
    BY <2>1, <2>2 DEF LimitsInv
  <2>4. p'.interval \in Nat \ {0}
    BY <2>3 DEF Phases
  <2>5. start' = now /\ nextSend' = now /\ attempted' = 0 /\ now' = now /\ now \in Nat
    BY DEF NowInv, StartPhase
  <2>6. 0 * p'.interval = 0 /\ 0 \div p'.interval \in Nat
    BY <2>4, DivBounds
  <2> QED BY <2>5, <2>6 DEF OpenPaceInv
<1>6. LimitsInv' /\ NowInv'
  BY DEF LimitsInv, NowInv, StartPhase
<1> QED BY <1>1, <1>2, <1>3, <1>4, <1>5, <1>6

LEMMA OpenLoopEndsStep ==
  ASSUME OpenInv, LoopEnds, RunFrame
  PROVE  OpenInv'
<1> USE DEF OpenInv, RunFrame, policyVars, loopVars, sendVars, leaseVars
<1>1. OpenTypes'
  BY DEF OpenTypes, Checks, Off, NowInv, LoopEnds
<1>2. (pc = "idle" => OpenInit)'
  BY DEF OpenInit, OpenTypes, Off, LoopEnds
<1>3. PhaseInv'
  BY DEF PhaseInv, OpenTypes, LimitsInv, Running, None, LoopEnds
<1>4. LeaseInv'
  BY LeaseAssumption, ShapeAssumption DEF LeaseInv, OpenTypes, Checks, OpenInit, Off, guarded, Never, NowInv,
       LoopEnds
<1>5. OpenPaceInv'
  BY NextSendBound DEF OpenPaceInv, OpenTypes, p, Running, NowInv, LoopEnds
<1>6. LimitsInv' /\ NowInv'
  BY DEF LimitsInv, NowInv, LoopEnds
<1> QED BY <1>1, <1>2, <1>3, <1>4, <1>5, <1>6

LEMMA OpenLoopStopsStep ==
  ASSUME OpenInv, LoopStops, RunFrame
  PROVE  OpenInv'
<1> USE DEF OpenInv, RunFrame, policyVars, loopVars, sendVars, leaseVars
<1>1. OpenTypes'
  BY DEF OpenTypes, Checks, Off, NowInv, LoopStops, Looping
<1>2. (pc = "idle" => OpenInit)'
  BY DEF OpenInit, OpenTypes, Off, LoopStops, Looping
<1>3. PhaseInv'
  BY DEF PhaseInv, OpenTypes, LimitsInv, Running, None, LoopStops, Looping
<1>4. LeaseInv'
  BY LeaseAssumption, ShapeAssumption DEF LeaseInv, OpenTypes, Checks, OpenInit, Off, guarded, Never, NowInv,
       LoopStops, Looping
<1>5. OpenPaceInv'
  BY NextSendBound DEF OpenPaceInv, OpenTypes, p, Running, NowInv, LoopStops, Looping
<1>6. LimitsInv' /\ NowInv'
  BY DEF LimitsInv, NowInv, LoopStops, Looping
<1> QED BY <1>1, <1>2, <1>3, <1>4, <1>5, <1>6

LEMMA OpenCeilingReachedStep ==
  ASSUME OpenInv, CeilingReached, RunFrame
  PROVE  OpenInv'
<1> USE DEF OpenInv, RunFrame, policyVars, loopVars, sendVars, leaseVars
<1>1. OpenTypes'
  BY NextSendType DEF OpenTypes, Checks, Off, NowInv, CeilingReached, Iterates, Looping
<1>2. (pc = "idle" => OpenInit)'
  BY DEF OpenInit, OpenTypes, Off, CeilingReached, Iterates, Looping
<1>3. PhaseInv'
  BY DEF PhaseInv, OpenTypes, LimitsInv, Running, None, CeilingReached, Iterates, Looping
<1>4. LeaseInv'
  BY LeaseAssumption, ShapeAssumption DEF LeaseInv, OpenTypes, Checks, OpenInit, Off, guarded, Never, NowInv,
       CeilingReached, Iterates, Looping
<1>5. OpenPaceInv'
  BY NextSendBound DEF OpenPaceInv, OpenTypes, p, Running, NowInv, CeilingReached, Iterates, Looping
<1>6. LimitsInv' /\ NowInv'
  BY DEF LimitsInv, NowInv, CeilingReached, Iterates, Looping
<1> QED BY <1>1, <1>2, <1>3, <1>4, <1>5, <1>6

LEMMA OpenCapReachedStep ==
  ASSUME OpenInv, CapReached, RunFrame
  PROVE  OpenInv'
<1> USE DEF OpenInv, RunFrame, policyVars, loopVars, sendVars, leaseVars
<1>1. OpenTypes'
  BY NextSendType DEF OpenTypes, Checks, Off, NowInv, CapReached, Iterates, Looping
<1>2. (pc = "idle" => OpenInit)'
  BY DEF OpenInit, OpenTypes, Off, CapReached, Iterates, Looping
<1>3. PhaseInv'
  BY DEF PhaseInv, OpenTypes, LimitsInv, Running, None, CapReached, Iterates, Looping
<1>4. LeaseInv'
  BY LeaseAssumption, ShapeAssumption DEF LeaseInv, OpenTypes, Checks, OpenInit, Off, guarded, Never, NowInv,
       CapReached, Iterates, Looping
<1>5. OpenPaceInv'
  BY NextSendBound DEF OpenPaceInv, OpenTypes, p, Running, NowInv, CapReached, Iterates, Looping
<1>6. LimitsInv' /\ NowInv'
  BY DEF LimitsInv, NowInv, CapReached, Iterates, Looping
<1> QED BY <1>1, <1>2, <1>3, <1>4, <1>5, <1>6

LEMMA OpenDropSendStep ==
  ASSUME OpenInv, DropSend, RunFrame
  PROVE  OpenInv'
<1> USE DEF OpenInv, RunFrame, policyVars, loopVars, sendVars, leaseVars
<1>1. OpenTypes'
  BY NextSendType DEF OpenTypes, Checks, Off, NowInv, DropSend, MaySend, Iterates, Looping
<1>2. (pc = "idle" => OpenInit)'
  BY DEF OpenInit, OpenTypes, Off, DropSend, MaySend, Iterates, Looping
<1>3. PhaseInv'
  BY DEF PhaseInv, OpenTypes, LimitsInv, Running, None, DropSend, MaySend, Iterates, Looping
<1>4. LeaseInv'
  BY LeaseAssumption, ShapeAssumption DEF LeaseInv, OpenTypes, Checks, OpenInit, Off, guarded, Never, NowInv,
       DropSend, MaySend, Iterates, Looping
<1>5. OpenPaceInv'
  <2>1. p' = p /\ p.interval \in Nat \ {0} /\ pc = "loop"
    BY PhaseType DEF p, Phases, DropSend, MaySend, Iterates, Looping
  <2>2. NextSend \in Nat /\ NextSend >= nextSend + p.interval
    BY <2>1, NextSendBound
  <2>3. start + attempted * p.interval <= NextSend
    BY <2>1, <2>2, PaceKept DEF OpenPaceInv, OpenTypes, LimitsInv, Running
  <2> QED BY <2>1, <2>3 DEF OpenPaceInv, LimitsInv, Running, DropSend, MaySend, Iterates, Looping
<1>6. LimitsInv' /\ NowInv'
  BY DEF LimitsInv, NowInv, DropSend, MaySend, Iterates, Looping
<1> QED BY <1>1, <1>2, <1>3, <1>4, <1>5, <1>6

LEMMA OpenSendAuthorizedStep ==
  ASSUME OpenInv, sendAuthorized, RunFrame
  PROVE  OpenInv'
<1> USE DEF OpenInv, RunFrame, policyVars, loopVars, sendVars, leaseVars
<1>1. OpenTypes'
  BY NextSendType DEF OpenTypes, Checks, Off, NowInv, sendAuthorized, Counted, MaySend, Iterates, Looping
<1>2. (pc = "idle" => OpenInit)'
  BY DEF OpenInit, OpenTypes, Off, sendAuthorized, Counted, MaySend, Iterates, Looping
<1>3. PhaseInv'
  BY DEF PhaseInv, OpenTypes, LimitsInv, Running, None, sendAuthorized, Counted, MaySend, Iterates, Looping
<1>4. LeaseInv'
  BY LeaseAssumption, ShapeAssumption DEF LeaseInv, OpenTypes, Checks, guarded, age, Fresh, Never, NowInv,
       sendAuthorized, Counted, MaySend, Iterates, Looping
<1>5. OpenPaceInv'
  <2>1. p' = p /\ p.interval \in Nat \ {0} /\ pc = "loop"
    BY PhaseType DEF p, Phases, sendAuthorized, Counted, MaySend, Iterates, Looping
  <2>2. NextSend \in Nat /\ NextSend >= nextSend + p.interval
    BY <2>1, NextSendBound
  <2>3. nextSend <= now /\ now \in Nat
    BY DEF Due, NowInv, OpenTypes, sendAuthorized, Counted, MaySend, Iterates, Looping
  <2>4. start + (attempted + 1) * p.interval <= NextSend /\ attempted + 1 <= 1 + (now - start) \div p.interval
    BY <2>1, <2>2, <2>3, PaceStep DEF OpenPaceInv, OpenTypes, LimitsInv, Running
  <2> QED BY <2>1, <2>4 DEF OpenPaceInv, LimitsInv, Running, sendAuthorized, Counted, MaySend, Iterates, Looping
<1>6. LimitsInv' /\ NowInv'
  BY DEF LimitsInv, NowInv, sendAuthorized, Counted, MaySend, Iterates, Looping
<1> QED BY <1>1, <1>2, <1>3, <1>4, <1>5, <1>6

LEMMA OpenSendRefusedStep ==
  ASSUME OpenInv, SendRefused, RunFrame
  PROVE  OpenInv'
<1> USE DEF OpenInv, RunFrame, policyVars, loopVars, sendVars, leaseVars
<1>1. OpenTypes'
  BY NextSendType DEF OpenTypes, Checks, Off, NowInv, SendRefused, Counted, MaySend, Iterates, Looping
<1>2. (pc = "idle" => OpenInit)'
  BY DEF OpenInit, OpenTypes, Off, SendRefused, Counted, MaySend, Iterates, Looping
<1>3. PhaseInv'
  BY DEF PhaseInv, OpenTypes, LimitsInv, Running, None, SendRefused, Counted, MaySend, Iterates, Looping
<1>4. LeaseInv'
  BY LeaseAssumption, ShapeAssumption DEF LeaseInv, OpenTypes, Checks, OpenInit, Off, guarded, Never, NowInv,
       SendRefused, Counted, MaySend, Iterates, Looping
<1>5. OpenPaceInv'
  BY NextSendBound DEF OpenPaceInv, OpenTypes, p, Running, NowInv, SendRefused, Counted, MaySend, Iterates,
       Looping
<1>6. LimitsInv' /\ NowInv'
  BY DEF LimitsInv, NowInv, SendRefused, Counted, MaySend, Iterates, Looping
<1> QED BY <1>1, <1>2, <1>3, <1>4, <1>5, <1>6

LEMMA OpenSettlesStep ==
  ASSUME OpenInv, NEW r \in pending, NEW outcome \in Outcomes, Settles(r, outcome), RunFrame
  PROVE  OpenInv'
<1> USE DEF OpenInv, RunFrame, policyVars, loopVars, sendVars, leaseVars
<1>1. OpenTypes'
  <2>1. failed + One(outcome = "failed") \in Nat
    BY DEF OpenTypes, One
  <2> QED BY <2>1 DEF OpenTypes, Checks, Settles, FirstStop
<1>2. (pc = "idle" => OpenInit)'
  BY DEF OpenInit, OpenTypes, Off, Settles, FirstStop
<1>3. PhaseInv'
  BY DEF PhaseInv, OpenTypes, LimitsInv, Running, None, Settles, FirstStop
<1>4. LeaseInv'
  BY LeaseAssumption, ShapeAssumption DEF LeaseInv, OpenTypes, Checks, OpenInit, Off, guarded, Never, NowInv,
       Settles, FirstStop
<1>5. OpenPaceInv'
  BY NextSendBound DEF OpenPaceInv, OpenTypes, p, Running, NowInv, Settles, FirstStop
<1>6. LimitsInv' /\ NowInv'
  BY DEF LimitsInv, NowInv, Settles, FirstStop
<1> QED BY <1>1, <1>2, <1>3, <1>4, <1>5, <1>6

LEMMA OpenPhaseEndsStep ==
  ASSUME OpenInv, PhaseEnds, RunFrame
  PROVE  OpenInv'
<1> USE DEF OpenInv, RunFrame, policyVars, loopVars, sendVars, leaseVars
<1>1. OpenTypes'
  <2>1. p.rule \in Rules
    BY PhaseType DEF Phases, PhaseEnds
  <2>2. [rule |-> p.rule, attempted |-> attempted, failed |-> failed, late |-> late] \in PhaseStats
    BY <2>1 DEF PhaseStats, OpenTypes
  <2>3. phases' \in Seq(PhaseStats)
    BY <2>2 DEF OpenTypes, PhaseEnds
  <2> QED BY <2>3 DEF OpenTypes, PhaseEnds
<1>2. (pc = "idle" => OpenInit)'
  BY DEF OpenInit, OpenTypes, Off, PhaseEnds
<1>3. PhaseInv'
  BY DEF PhaseInv, OpenTypes, LimitsInv, Running, None, PhaseEnds
<1>4. LeaseInv'
  BY LeaseAssumption, ShapeAssumption DEF LeaseInv, OpenTypes, Checks, OpenInit, Off, guarded, Never, NowInv,
       PhaseEnds
<1>5. OpenPaceInv'
  BY NextSendBound DEF OpenPaceInv, OpenTypes, p, Running, NowInv, PhaseEnds
<1>6. LimitsInv' /\ NowInv'
  BY DEF LimitsInv, NowInv, PhaseEnds
<1> QED BY <1>1, <1>2, <1>3, <1>4, <1>5, <1>6

LEMMA OpenAllPhasesEndStep ==
  ASSUME OpenInv, AllPhasesEnd, RunFrame
  PROVE  OpenInv'
<1> USE DEF OpenInv, RunFrame, policyVars, loopVars, sendVars, leaseVars
<1>1. OpenTypes'
  BY DEF OpenTypes, Checks, Off, NowInv, AllPhasesEnd
<1>2. (pc = "idle" => OpenInit)'
  BY DEF OpenInit, OpenTypes, Off, AllPhasesEnd
<1>3. PhaseInv'
  BY DEF PhaseInv, OpenTypes, LimitsInv, Running, None, AllPhasesEnd
<1>4. LeaseInv'
  BY LeaseAssumption, ShapeAssumption DEF LeaseInv, OpenTypes, Checks, OpenInit, Off, guarded, Never, NowInv,
       AllPhasesEnd
<1>5. OpenPaceInv'
  BY NextSendBound DEF OpenPaceInv, OpenTypes, p, Running, NowInv, AllPhasesEnd
<1>6. LimitsInv' /\ NowInv'
  BY DEF LimitsInv, NowInv, AllPhasesEnd
<1> QED BY <1>1, <1>2, <1>3, <1>4, <1>5, <1>6

LEMMA OpenHardStopStep ==
  ASSUME OpenInv, HardStop, RunFrame
  PROVE  OpenInv'
<1> USE DEF OpenInv, RunFrame, policyVars, loopVars, sendVars, leaseVars
<1>1. OpenTypes'
  BY DEF OpenTypes, Checks, Off, NowInv, HardStop
<1>2. (pc = "idle" => OpenInit)'
  BY DEF OpenInit, OpenTypes, Off, HardStop
<1>3. PhaseInv'
  BY DEF PhaseInv, OpenTypes, LimitsInv, Running, None, HardStop
<1>4. LeaseInv'
  BY LeaseAssumption, ShapeAssumption DEF LeaseInv, OpenTypes, Checks, OpenInit, Off, guarded, Never, NowInv,
       HardStop
<1>5. OpenPaceInv'
  BY NextSendBound DEF OpenPaceInv, OpenTypes, p, Running, NowInv, HardStop
<1>6. LimitsInv' /\ NowInv'
  BY DEF LimitsInv, NowInv, HardStop
<1> QED BY <1>1, <1>2, <1>3, <1>4, <1>5, <1>6

LEMMA OpenReturnStep ==
  ASSUME OpenInv, Return, RunFrame
  PROVE  OpenInv'
<1> USE DEF OpenInv, RunFrame, policyVars, loopVars, sendVars, leaseVars
<1>1. OpenTypes'
  BY DEF OpenTypes, Checks, Off, NowInv, Return
<1>2. (pc = "idle" => OpenInit)'
  BY DEF OpenInit, OpenTypes, Off, Return
<1>3. PhaseInv'
  BY DEF PhaseInv, OpenTypes, LimitsInv, Running, None, Return
<1>4. LeaseInv'
  BY LeaseAssumption, ShapeAssumption DEF LeaseInv, OpenTypes, Checks, OpenInit, Off, guarded, Never, NowInv,
       Return
<1>5. OpenPaceInv'
  BY NextSendBound DEF OpenPaceInv, OpenTypes, p, Running, NowInv, Return
<1>6. LimitsInv' /\ NowInv'
  BY DEF LimitsInv, NowInv, Return
<1> QED BY <1>1, <1>2, <1>3, <1>4, <1>5, <1>6

-----------------------------------------------------------------------------
(* The closed-loop generator.                                              *)

ClosedInv == ClosedTypes /\ ClosedPaceInv /\ AnswersInv /\ LimitsInv /\ NowInv

LEMMA TwoMax ==
  ASSUME NEW a \in Nat, NEW b \in Nat
  PROVE  Max({a, b}) \in {a, b} /\ Max({a, b}) >= a /\ Max({a, b}) >= b
<1>1. \E x \in {a, b} : \A y \in {a, b} : x >= y
  <2>1. CASE a >= b BY <2>1
  <2>2. CASE ~(a >= b) BY <2>2
  <2> QED BY <2>1, <2>2
<1> QED BY <1>1 DEF Max

LEMMA LevelInterval ==
  ASSUME LimitsInv
  PROVE  level.interval \in Nat \ {0} /\ level.timeout \in Nat
<1>1. 1 \in 1 .. Len(limits.phases) BY DEF LimitsInv
<1>2. level \in Phases BY <1>1 DEF LimitsInv, level
<1> QED BY <1>2 DEF Phases

\* Two sets that differ in one member at most.
LEMMA OneMember ==
  ASSUME NEW S, IsFiniteSet(S), NEW T, NEW w, \A v : v # w => (v \in S <=> v \in T)
  PROVE  /\ Cardinality(S) \in Nat /\ Cardinality(T) \in Nat
         /\ Cardinality(T) = Cardinality(S) - One(w \in S) + One(w \in T)
<1>1. Cardinality(S) \in Nat BY FS_CardinalityType
<1>2. CASE w \in S /\ w \in T
  <2>1. S = T BY <1>2
  <2> QED BY <1>1, <1>2, <2>1 DEF One
<1>3. CASE w \in S /\ w \notin T
  <2>1. T = S \ {w} BY <1>3
  <2>2. Cardinality(T) = Cardinality(S) - 1 /\ IsFiniteSet(T) BY <1>3, <2>1, FS_RemoveElement
  <2>3. Cardinality(T) \in Nat BY <2>2, FS_CardinalityType
  <2> QED BY <1>1, <1>3, <2>2, <2>3 DEF One
<1>4. CASE w \notin S /\ w \in T
  <2>1. T = S \union {w} BY <1>4
  <2>2. Cardinality(T) = Cardinality(S) + 1 BY <1>4, <2>1, FS_AddElement
  <2> QED BY <1>1, <1>4, <2>2 DEF One
<1>5. CASE w \notin S /\ w \notin T
  <2>1. S = T BY <1>5
  <2> QED BY <1>1, <1>5, <2>1 DEF One
<1> QED BY <1>2, <1>3, <1>4, <1>5

LEMMA WorkersFinite ==
  ASSUME ClosedTypes
  PROVE  IsFiniteSet(Workers) /\ \A S : S \subseteq Workers => IsFiniteSet(S) /\ Cardinality(S) \in Nat
<1>1. Workers = 1 .. Workloads["http-closed-loop"].ceilings.concurrency
  BY DEF ClosedTypes, Workers
<1>2. Workloads["http-closed-loop"].ceilings.concurrency \in Nat
  BY ShapeAssumption DEF Engines
<1>3. IsFiniteSet(Workers) BY <1>1, <1>2, FS_Interval
<1> QED BY <1>3, FS_Subset, FS_CardinalityType

\* What one worker's step does to the counts.
LEMMA Counts ==
  ASSUME ClosedTypes, NEW w \in Workers, NEW r \in WorkerStates, worker' = [worker EXCEPT ![w] = r]
  PROVE  /\ Workers' = Workers /\ worker' \in [Workers -> WorkerStates]
         /\ Cardinality(Asleep) \in Nat /\ Cardinality(Asleep') \in Nat
         /\ Cardinality(Asleep') = Cardinality(Asleep) - One(worker[w].st = "asleep") + One(r.st = "asleep")
         /\ Cardinality(OnWire) \in Nat /\ Cardinality(OnWire') \in Nat
         /\ Cardinality(OnWire') = Cardinality(OnWire) - One(worker[w].st = "sending") + One(r.st = "sending")
<1>1. worker \in [Workers -> WorkerStates]
  BY DEF ClosedTypes, Workers
<1>2. worker' \in [Workers -> WorkerStates] /\ Workers' = Workers
      /\ \A v \in Workers : worker'[v] = IF v = w THEN r ELSE worker[v]
  BY <1>1 DEF Workers
<1>3. Asleep \subseteq Workers /\ Asleep' \subseteq Workers /\ OnWire \subseteq Workers /\ OnWire' \subseteq Workers
  BY <1>2 DEF Asleep, OnWire
<1>4. \A v : v # w => (v \in Asleep <=> v \in Asleep')
  BY <1>2 DEF Asleep
<1>5. \A v : v # w => (v \in OnWire <=> v \in OnWire')
  BY <1>2 DEF OnWire, Sending
<1>6. (w \in Asleep <=> worker[w].st = "asleep") /\ (w \in Asleep' <=> r.st = "asleep")
  BY <1>2 DEF Asleep
<1>7. (w \in OnWire <=> worker[w].st = "sending") /\ (w \in OnWire' <=> r.st = "sending")
  BY <1>2 DEF OnWire, Sending
<1>8. IsFiniteSet(Asleep) /\ IsFiniteSet(OnWire) BY <1>3, WorkersFinite
<1>9. /\ Cardinality(Asleep) \in Nat /\ Cardinality(Asleep') \in Nat
      /\ Cardinality(Asleep') = Cardinality(Asleep) - One(w \in Asleep) + One(w \in Asleep')
  BY <1>4, <1>8, OneMember
<1>10. /\ Cardinality(OnWire) \in Nat /\ Cardinality(OnWire') \in Nat
       /\ Cardinality(OnWire') = Cardinality(OnWire) - One(w \in OnWire) + One(w \in OnWire')
  BY <1>5, <1>8, OneMember
<1>11. One(w \in Asleep) = One(worker[w].st = "asleep") /\ One(w \in Asleep') = One(r.st = "asleep")
  BY <1>6 DEF One
<1>12. One(w \in OnWire) = One(worker[w].st = "sending") /\ One(w \in OnWire') = One(r.st = "sending")
  BY <1>7 DEF One
<1> QED BY <1>2, <1>9, <1>10, <1>11, <1>12

LEMMA CountsBy ==
  ASSUME ClosedTypes, NEW w \in Workers, NEW r \in WorkerStates, worker' = [worker EXCEPT ![w] = r],
         NEW t \in Nat
  PROVE  /\ Cardinality(AsleepBy(t)) \in Nat /\ Cardinality(AsleepBy(t)') \in Nat
         /\ Cardinality(AsleepBy(t)) <= Cardinality(Asleep)
         /\ Cardinality(AsleepBy(t)') = Cardinality(AsleepBy(t)) - One(worker[w].st = "asleep" /\ worker[w].at <= t)
                                          + One(r.st = "asleep" /\ r.at <= t)
<1>1. worker \in [Workers -> WorkerStates]
  BY DEF ClosedTypes, Workers
<1>2. worker' \in [Workers -> WorkerStates] /\ Workers' = Workers
      /\ \A v \in Workers : worker'[v] = IF v = w THEN r ELSE worker[v]
  BY <1>1 DEF Workers
<1>3. AsleepBy(t) \subseteq Workers /\ AsleepBy(t) \subseteq Asleep /\ Asleep \subseteq Workers
  BY DEF AsleepBy, Asleep
<1>4. \A v : v # w => (v \in AsleepBy(t) <=> v \in AsleepBy(t)')
  BY <1>2 DEF AsleepBy
<1>5. (w \in AsleepBy(t) <=> worker[w].st = "asleep" /\ worker[w].at <= t)
      /\ (w \in AsleepBy(t)' <=> r.st = "asleep" /\ r.at <= t)
  BY <1>2 DEF AsleepBy
<1>6. IsFiniteSet(AsleepBy(t)) /\ IsFiniteSet(Asleep) BY <1>3, WorkersFinite
<1>7. /\ Cardinality(AsleepBy(t)) \in Nat /\ Cardinality(AsleepBy(t)') \in Nat
      /\ Cardinality(AsleepBy(t)') = Cardinality(AsleepBy(t)) - One(w \in AsleepBy(t)) + One(w \in AsleepBy(t)')
  BY <1>4, <1>6, OneMember
<1>8. One(w \in AsleepBy(t)) = One(worker[w].st = "asleep" /\ worker[w].at <= t)
      /\ One(w \in AsleepBy(t)') = One(r.st = "asleep" /\ r.at <= t)
  BY <1>5 DEF One
<1>9. Cardinality(AsleepBy(t)) <= Cardinality(Asleep) BY <1>3, <1>6, FS_Subset
<1> QED BY <1>7, <1>8, <1>9

\* A slot's holder is one more, and the next slot is an interval later.
LEMMA SlotMath ==
  ASSUME NEW k \in Nat, NEW n \in Nat, NEW slot \in Nat, NEW i \in Nat \ {0}, k * i <= n, n <= slot
  PROVE  /\ (k + 1) * i <= slot + i
         /\ \A t \in Nat : t >= slot => k + 1 <= 1 + t \div i
<1>1. (k + 1) * i = k * i + i /\ k * i \in Nat OBVIOUS
<1>2. ASSUME NEW t \in Nat, t >= slot PROVE k + 1 <= 1 + t \div i
  <2>1. k * i <= t BY <1>1, <1>2
  <2>2. k <= t \div i /\ t \div i \in Nat BY <2>1, DivLeast, DivBounds
  <2> QED BY <2>2
<1> QED BY <1>1, <1>2

LEMMA FewerMath ==
  ASSUME NEW k \in Nat, NEW j \in Nat, NEW n \in Nat, NEW m \in Nat, NEW i \in Nat \ {0}, k * i <= n, j <= k, n <= m
  PROVE  j * i <= m
<1>1. j * i <= k * i /\ j * i \in Nat /\ k * i \in Nat OBVIOUS
<1> QED BY <1>1

\* A step after which there are no more sends and sleepers than before.
LEMMA PaceFewer ==
  ASSUME ClosedInv, RunFrame, NEW w \in Workers, NEW r \in WorkerStates, worker' = [worker EXCEPT ![w] = r],
         sent' \in Nat, nextSlot' \in Nat, nextSlot <= nextSlot', r.st # "asleep",
         \/ sent' = sent
         \/ sent' = sent + 1 /\ worker[w].st = "asleep" /\ worker[w].at <= now
  PROVE  ClosedPaceInv'
<1> USE DEF ClosedInv
<1>0. ClosedTypes /\ w \in Workers /\ r \in WorkerStates /\ worker' = [worker EXCEPT ![w] = r]
  OBVIOUS
<1>1. level' = level /\ level.interval \in Nat \ {0} /\ now' = now /\ now \in Nat /\ sent \in Nat /\ nextSlot \in Nat
  BY LevelInterval DEF level, RunFrame, policyVars, NowInv, ClosedTypes
<1>2. worker[w].at \in Nat BY DEF ClosedTypes, Workers, WorkerStates
<1>3. sent' + Cardinality(Asleep') <= sent + Cardinality(Asleep) /\ Cardinality(Asleep) \in Nat /\ Cardinality(Asleep') \in Nat
  <2>1. /\ Cardinality(Asleep) \in Nat /\ Cardinality(Asleep') \in Nat
        /\ Cardinality(Asleep') = Cardinality(Asleep) - One(worker[w].st = "asleep") + One(r.st = "asleep")
    BY Counts
  <2> QED BY <1>1, <2>1 DEF One
<1>4. (sent + Cardinality(Asleep)) * level.interval <= nextSlot
      /\ \A t \in now .. MaxTime : sent + Cardinality(AsleepBy(t)) <= 1 + t \div level.interval
  BY DEF ClosedPaceInv, LimitsInv, Running
<1>5. (sent' + Cardinality(Asleep')) * level.interval <= nextSlot'
  <2>1. sent + Cardinality(Asleep) \in Nat /\ sent' + Cardinality(Asleep') \in Nat BY <1>1, <1>3
  <2> QED BY <1>1, <1>3, <1>4, <2>1, FewerMath
<1>6. ASSUME NEW t \in now .. MaxTime
      PROVE  sent' + Cardinality(AsleepBy(t)') <= 1 + t \div level.interval
  <2>1. t \in Nat /\ now <= t BY <1>1, ShapeAssumption
  <2>2. /\ Cardinality(AsleepBy(t)) \in Nat /\ Cardinality(AsleepBy(t)') \in Nat
        /\ Cardinality(AsleepBy(t)) <= Cardinality(Asleep)
        /\ Cardinality(AsleepBy(t)') = Cardinality(AsleepBy(t)) - One(worker[w].st = "asleep" /\ worker[w].at <= t)
                                         + One(r.st = "asleep" /\ r.at <= t)
    BY ONLY <1>0, <2>1, CountsBy
  <2>3. Cardinality(AsleepBy(t)) \in Nat /\ Cardinality(AsleepBy(t)') \in Nat
        /\ sent' + Cardinality(AsleepBy(t)') <= sent + Cardinality(AsleepBy(t))
    BY <1>1, <1>2, <2>1, <2>2 DEF One
  <2>4. t \div level.interval \in Nat BY <1>1, <2>1, DivBounds
  <2>5. sent + Cardinality(AsleepBy(t)) <= 1 + t \div level.interval BY <1>4
  <2>6. sent' + Cardinality(AsleepBy(t)') <= sent + Cardinality(AsleepBy(t)) BY <2>3
  <2> QED BY <1>1, <2>3, <2>4, <2>5, <2>6
<1> QED BY <1>1, <1>5, <1>6 DEF ClosedPaceInv

\* A slot is taken, to sleep until it or to send at once.
LEMMA PaceSlot ==
  ASSUME ClosedInv, RunFrame, NEW w \in Workers, NEW r \in WorkerStates, worker' = [worker EXCEPT ![w] = r],
         NEW slot \in Nat, nextSlot <= slot, now <= slot, nextSlot' = slot + level.interval, worker[w].st = "ready",
         \/ sent' = sent + 1 /\ r.st = "sending" /\ slot = now
         \/ sent' = sent /\ r.st = "asleep" /\ r.at = slot
  PROVE  ClosedPaceInv'
<1> USE DEF ClosedInv
<1>1. level' = level /\ level.interval \in Nat \ {0} /\ now' = now /\ now \in Nat /\ sent \in Nat /\ nextSlot \in Nat
  BY LevelInterval DEF level, RunFrame, policyVars, NowInv, ClosedTypes
<1>3. sent' + Cardinality(Asleep') = sent + Cardinality(Asleep) + 1 /\ Cardinality(Asleep) \in Nat /\ Cardinality(Asleep') \in Nat
  <2>1. /\ Cardinality(Asleep) \in Nat /\ Cardinality(Asleep') \in Nat
        /\ Cardinality(Asleep') = Cardinality(Asleep) - One(worker[w].st = "asleep") + One(r.st = "asleep")
    BY Counts
  <2> QED BY <1>1, <2>1 DEF One
<1>4. (sent + Cardinality(Asleep)) * level.interval <= nextSlot
      /\ \A t \in now .. MaxTime : sent + Cardinality(AsleepBy(t)) <= 1 + t \div level.interval
  BY DEF ClosedPaceInv, LimitsInv, Running
<1>5. /\ (sent + Cardinality(Asleep) + 1) * level.interval <= slot + level.interval
      /\ \A t \in Nat : t >= slot => sent + Cardinality(Asleep) + 1 <= 1 + t \div level.interval
  <2>1. sent + Cardinality(Asleep) \in Nat BY <1>1, <1>3
  <2> QED BY <1>1, <1>4, <2>1, SlotMath
<1>6. ASSUME NEW t \in now .. MaxTime
      PROVE  sent' + Cardinality(AsleepBy(t)') <= 1 + t \div level.interval
  <2>1. t \in Nat /\ now <= t BY <1>1, ShapeAssumption
  <2>2. /\ Cardinality(AsleepBy(t)) \in Nat /\ Cardinality(AsleepBy(t)') \in Nat
        /\ Cardinality(AsleepBy(t)) <= Cardinality(Asleep)
        /\ Cardinality(AsleepBy(t)') = Cardinality(AsleepBy(t)) - One(worker[w].st = "asleep" /\ worker[w].at <= t)
                                         + One(r.st = "asleep" /\ r.at <= t)
    BY <2>1, CountsBy
  <2>3. /\ t < slot => sent' + Cardinality(AsleepBy(t)') <= sent + Cardinality(AsleepBy(t))
        /\ t >= slot => sent' + Cardinality(AsleepBy(t)') <= sent + Cardinality(Asleep) + 1
    BY <1>1, <1>3, <2>1, <2>2 DEF One
  <2>4. t \div level.interval \in Nat BY <1>1, <2>1, DivBounds
  <2>5. sent + Cardinality(AsleepBy(t)) <= 1 + t \div level.interval BY <1>4
  <2>6. t >= slot => sent + Cardinality(Asleep) + 1 <= 1 + t \div level.interval BY <1>5, <2>1
  <2> QED BY <1>1, <1>3, <2>1, <2>2, <2>3, <2>4, <2>5, <2>6
<1> QED BY <1>1, <1>3, <1>5, <1>6 DEF ClosedPaceInv

\* What an attempt comes to: the worker exits, or one more request is on the wire.
LEMMA AttemptEnds ==
  ASSUME NEW w, Attempt(w), level.timeout \in Nat, now \in Nat
  PROVE  \E r \in WorkerStates :
           /\ worker' = [worker EXCEPT ![w] = r]
           /\ kind # "completed" => kind' # "completed"
           /\ \/ r.st = "exited" /\ sent' = sent
              \/ r.st = "sending" /\ sent' = sent + 1
<1>1. Exited \in WorkerStates /\ Exited.st = "exited" BY DEF Exited, WorkerStates
<1> DEFINE out == [st |-> "sending", at |-> now + level.timeout]
<1>2. out \in WorkerStates /\ out.st = "sending" BY DEF WorkerStates
<1> HIDE DEF out
<1>3. CASE worker' = [worker EXCEPT ![w] = Exited] /\ sent' = sent
  <2>1. kind # "completed" => kind' # "completed" BY DEF Attempt, stopWith, Exit
  <2> QED BY <1>1, <1>3, <2>1
<1>4. CASE worker' = [worker EXCEPT ![w] = out] /\ sent' = sent + 1 /\ kind' = kind
  BY <1>2, <1>4
<1> QED BY <1>3, <1>4 DEF Attempt, Exit, out

LEMMA AnswersKept ==
  ASSUME ClosedTypes, AnswersInv, NEW w \in Workers, NEW r \in WorkerStates, worker' = [worker EXCEPT ![w] = r],
         sent' \in Nat, responses' \in Nat, transport' \in Nat, cut' \in Nat,
         sent' + cut' + One(worker[w].st = "sending") + responses + transport
           = sent + cut + One(r.st = "sending") + responses' + transport',
         cut' <= transport', transport' > 0 => kind' # "completed"
  PROVE  AnswersInv'
<1>1. /\ Cardinality(OnWire) \in Nat /\ Cardinality(OnWire') \in Nat
      /\ Cardinality(OnWire') = Cardinality(OnWire) - One(worker[w].st = "sending") + One(r.st = "sending")
  BY Counts
<1>2. sent + cut = responses + transport + Cardinality(OnWire)
  BY DEF AnswersInv
<1>3. sent \in Nat /\ cut \in Nat /\ responses \in Nat /\ transport \in Nat
  BY DEF ClosedTypes
<1>4. sent' + cut' = responses' + transport' + Cardinality(OnWire')
  <2>1. One(worker[w].st = "sending") \in {0, 1} /\ One(r.st = "sending") \in {0, 1} BY DEF One
  <2> QED BY <1>1, <1>2, <1>3, <2>1
<1> QED BY <1>4 DEF AnswersInv

\* The frame of a worker's step: it moves to a state of its own and the counters stay counters.
LEMMA TypesKept ==
  ASSUME ClosedInv, RunFrame, NEW w \in Workers, NEW r \in WorkerStates, worker' = [worker EXCEPT ![w] = r],
         nextSlot' \in Nat, sent' \in Nat, responses' \in Nat, transport' \in Nat, cut' \in Nat, aborted' \in BOOLEAN
  PROVE  ClosedTypes' /\ LimitsInv' /\ NowInv'
<1>1. worker' \in [1 .. Workloads["http-closed-loop"].ceilings.concurrency -> WorkerStates]
  BY DEF ClosedInv, ClosedTypes
<1>2. ClosedTypes' BY <1>1 DEF ClosedTypes
<1>3. LimitsInv' /\ NowInv' BY DEF ClosedInv, LimitsInv, NowInv, RunFrame, policyVars
<1> QED BY <1>2, <1>3

LEMMA ClosedStopsStep ==
  ASSUME ClosedInv, RunFrame, NEW w \in Workers, WorkerStops(w)
  PROVE  ClosedInv'
<1> USE DEF ClosedInv
<1>1. Exited \in WorkerStates /\ Exited.st = "exited" BY DEF Exited, WorkerStates
<1>2. /\ worker' = [worker EXCEPT ![w] = Exited] /\ worker[w].st = "ready"
      /\ nextSlot' = nextSlot /\ sent' = sent /\ responses' = responses /\ transport' = transport /\ cut' = cut
      /\ kind' = kind /\ aborted' = aborted
  BY DEF WorkerStops, Exit
<1>3. nextSlot \in Nat /\ sent \in Nat /\ responses \in Nat /\ transport \in Nat /\ cut \in Nat /\ aborted \in BOOLEAN
  BY DEF ClosedTypes
<1>4. ClosedTypes' /\ LimitsInv' /\ NowInv' BY <1>1, <1>2, <1>3, TypesKept
<1>5. ClosedPaceInv'
  <2>1. nextSlot <= nextSlot' BY <1>1, <1>2, <1>3
  <2> QED BY <1>1, <1>2, <1>3, <2>1, PaceFewer
<1>6. AnswersInv'
  <2>1. cut' <= transport' /\ (transport' > 0 => kind' # "completed") BY <1>1, <1>2, <1>3 DEF AnswersInv
  <2>2. sent' + cut' + One(worker[w].st = "sending") + responses + transport
           = sent + cut + One(Exited.st = "sending") + responses' + transport'
    BY <1>1, <1>2, <1>3 DEF One
  <2> QED BY <1>1, <1>2, <1>3, <2>1, <2>2, AnswersKept
<1> QED BY <1>4, <1>5, <1>6

LEMMA ClosedTakesSlotStep ==
  ASSUME ClosedInv, RunFrame, NEW w \in Workers, TakeSlot(w)
  PROVE  ClosedInv'
<1> USE DEF ClosedInv
<1>1. nextSlot \in Nat /\ sent \in Nat /\ responses \in Nat /\ transport \in Nat /\ cut \in Nat /\ aborted \in BOOLEAN
      /\ now \in Nat /\ level.interval \in Nat \ {0} /\ level.timeout \in Nat
  BY LevelInterval DEF ClosedTypes, NowInv
<1>2. PICK slot : slot = Max({now, nextSlot}) OBVIOUS
<1>3. slot \in Nat /\ slot >= now /\ slot >= nextSlot /\ (slot = now \/ slot > now)
  BY <1>1, <1>2, TwoMax
<1>4. /\ worker[w].st = "ready" /\ nextSlot' = slot + level.interval
      /\ responses' = responses /\ transport' = transport /\ cut' = cut /\ aborted' = aborted
      /\ nextSlot' \in Nat /\ nextSlot <= nextSlot'
  BY <1>1, <1>2, <1>3 DEF TakeSlot
<1>5. CASE slot > now
  <2> DEFINE r == [st |-> "asleep", at |-> slot]
  <2>1. r \in WorkerStates /\ r.st = "asleep" /\ r.at = slot BY <1>3 DEF WorkerStates
  <2>2. worker' = [worker EXCEPT ![w] = r] /\ sent' = sent /\ kind' = kind
    BY <1>2, <1>5 DEF TakeSlot
  <2> HIDE DEF r
  <2>3. ClosedTypes' /\ LimitsInv' /\ NowInv' BY <1>1, <1>4, <2>1, <2>2, TypesKept
  <2>4. ClosedPaceInv' BY <1>3, <1>4, <2>1, <2>2, PaceSlot
  <2>5. AnswersInv'
    <3>1. cut' <= transport' /\ (transport' > 0 => kind' # "completed") BY <1>1, <1>4, <2>1, <2>2 DEF AnswersInv
    <3>2. sent' + cut' + One(worker[w].st = "sending") + responses + transport
             = sent + cut + One(r.st = "sending") + responses' + transport'
      BY <1>1, <1>4, <2>1, <2>2 DEF One
    <3> QED BY <1>1, <1>4, <2>1, <2>2, <3>1, <3>2, AnswersKept
  <2> QED BY <2>3, <2>4, <2>5
<1>6. CASE slot = now
  <2>1. Attempt(w) BY <1>1, <1>2, <1>6 DEF TakeSlot
  <2>2. PICK r \in WorkerStates :
           /\ worker' = [worker EXCEPT ![w] = r]
           /\ kind # "completed" => kind' # "completed"
           /\ \/ r.st = "exited" /\ sent' = sent
              \/ r.st = "sending" /\ sent' = sent + 1
    BY <1>1, <2>1, AttemptEnds
  <2>3. sent' \in Nat BY <1>1, <2>2
  <2>4. ClosedTypes' /\ LimitsInv' /\ NowInv' BY <1>1, <1>4, <2>2, <2>3, TypesKept
  <2>5. ClosedPaceInv'
    <3>1. CASE r.st = "exited" /\ sent' = sent BY <1>1, <1>4, <2>2, <3>1, PaceFewer
    <3>2. CASE r.st = "sending" /\ sent' = sent + 1 BY <1>3, <1>4, <1>6, <2>2, <3>2, PaceSlot
    <3> QED BY <2>2, <3>1, <3>2
  <2>6. AnswersInv'
    <3>1. cut' <= transport' /\ (transport' > 0 => kind' # "completed") BY <1>1, <1>4, <2>2, <2>3 DEF AnswersInv
    <3>2. sent' + cut' + One(worker[w].st = "sending") + responses + transport
             = sent + cut + One(r.st = "sending") + responses' + transport'
      <4>1. One(worker[w].st = "sending") = 0 BY <1>4 DEF One
      <4>2. CASE r.st = "exited" /\ sent' = sent BY <1>1, <1>4, <4>1, <4>2 DEF One
      <4>3. CASE r.st = "sending" /\ sent' = sent + 1 BY <1>1, <1>4, <4>1, <4>3 DEF One
      <4> QED BY <2>2, <4>2, <4>3
    <3> QED BY <1>1, <1>4, <2>2, <2>3, <3>1, <3>2, AnswersKept
  <2> QED BY <2>4, <2>5, <2>6
<1> QED BY <1>3, <1>5, <1>6

LEMMA ClosedWakesStep ==
  ASSUME ClosedInv, RunFrame, NEW w \in Workers, WorkerWakes(w)
  PROVE  ClosedInv'
<1> USE DEF ClosedInv
<1>1. nextSlot \in Nat /\ sent \in Nat /\ responses \in Nat /\ transport \in Nat /\ cut \in Nat /\ aborted \in BOOLEAN
      /\ now \in Nat /\ level.interval \in Nat \ {0} /\ level.timeout \in Nat
  BY LevelInterval DEF ClosedTypes, NowInv
<1>2. /\ worker[w].st = "asleep" /\ worker[w].at <= now /\ nextSlot' = nextSlot
      /\ responses' = responses /\ transport' = transport /\ cut' = cut /\ aborted' = aborted
  BY <1>1 DEF WorkerWakes, ClosedTypes, Workers, WorkerStates
<1>3. PICK r \in WorkerStates :
         /\ worker' = [worker EXCEPT ![w] = r]
         /\ kind # "completed" => kind' # "completed"
         /\ \/ r.st = "exited" /\ sent' = sent
            \/ r.st = "sending" /\ sent' = sent + 1
  <2>1. CASE stopped
    <3>1. Exited \in WorkerStates /\ Exited.st = "exited" BY DEF Exited, WorkerStates
    <3>2. worker' = [worker EXCEPT ![w] = Exited] /\ sent' = sent /\ kind' = kind
      BY <2>1 DEF WorkerWakes, Exit
    <3> QED BY <3>1, <3>2
  <2>2. CASE ~stopped
    <3>1. Attempt(w) BY <2>2 DEF WorkerWakes
    <3> QED BY <1>1, <3>1, AttemptEnds
  <2> QED BY <2>1, <2>2
<1>4. sent' \in Nat BY <1>1, <1>3
<1>5. ClosedTypes' /\ LimitsInv' /\ NowInv' BY <1>1, <1>2, <1>3, <1>4, TypesKept
<1>6. ClosedPaceInv'
  <2>1. nextSlot <= nextSlot' BY <1>1, <1>2, <1>3, <1>4
  <2> QED BY <1>1, <1>2, <1>3, <1>4, <2>1, PaceFewer
<1>7. AnswersInv'
  <2>1. cut' <= transport' /\ (transport' > 0 => kind' # "completed") BY <1>1, <1>2, <1>3, <1>4 DEF AnswersInv
  <2>2. sent' + cut' + One(worker[w].st = "sending") + responses + transport
           = sent + cut + One(r.st = "sending") + responses' + transport'
    <3>1. One(worker[w].st = "sending") = 0 BY <1>2 DEF One
    <3>2. CASE r.st = "exited" /\ sent' = sent BY <1>1, <1>2, <3>1, <3>2 DEF One
    <3>3. CASE r.st = "sending" /\ sent' = sent + 1 BY <1>1, <1>2, <3>1, <3>3 DEF One
    <3> QED BY <1>3, <3>2, <3>3
  <2> QED BY <1>1, <1>2, <1>3, <1>4, <2>1, <2>2, AnswersKept
<1> QED BY <1>5, <1>6, <1>7

LEMMA ClosedRespondsStep ==
  ASSUME ClosedInv, RunFrame, NEW w \in Workers, Responds(w)
  PROVE  ClosedInv'
<1> USE DEF ClosedInv
<1>1. Ready \in WorkerStates /\ Ready.st = "ready" BY DEF Ready, WorkerStates
<1>2. /\ worker' = [worker EXCEPT ![w] = Ready] /\ worker[w].st = "sending"
      /\ nextSlot' = nextSlot /\ sent' = sent /\ responses' = responses + 1 /\ transport' = transport /\ cut' = cut
      /\ kind' = kind /\ aborted' = aborted
  BY DEF Responds, Sending
<1>3. nextSlot \in Nat /\ sent \in Nat /\ responses \in Nat /\ transport \in Nat /\ cut \in Nat /\ aborted \in BOOLEAN
      /\ responses' \in Nat
  BY <1>2 DEF ClosedTypes
<1>4. ClosedTypes' /\ LimitsInv' /\ NowInv' BY <1>1, <1>2, <1>3, TypesKept
<1>5. ClosedPaceInv'
  <2>1. nextSlot <= nextSlot' BY <1>1, <1>2, <1>3
  <2> QED BY <1>1, <1>2, <1>3, <2>1, PaceFewer
<1>6. AnswersInv'
  <2>1. cut' <= transport' /\ (transport' > 0 => kind' # "completed") BY <1>1, <1>2, <1>3 DEF AnswersInv
  <2>2. sent' + cut' + One(worker[w].st = "sending") + responses + transport
           = sent + cut + One(Ready.st = "sending") + responses' + transport'
    BY <1>1, <1>2, <1>3 DEF One
  <2> QED BY <1>1, <1>2, <1>3, <2>1, <2>2, AnswersKept
<1> QED BY <1>4, <1>5, <1>6

LEMMA ClosedFailsStep ==
  ASSUME ClosedInv, RunFrame, NEW w \in Workers, NEW status \in BOOLEAN, TransportFails(w, status)
  PROVE  ClosedInv'
<1> USE DEF ClosedInv
<1>1. Exited \in WorkerStates /\ Exited.st = "exited" BY DEF Exited, WorkerStates
<1>2. /\ worker' = [worker EXCEPT ![w] = Exited] /\ worker[w].st = "sending"
      /\ nextSlot' = nextSlot /\ sent' = sent /\ transport' = transport + 1
      /\ responses' + cut = responses + cut' /\ cut' \in {cut, cut + 1} /\ responses' \in {responses, responses + 1}
      /\ kind' # "completed" /\ aborted' = aborted
  <2>1. responses \in Nat /\ cut \in Nat BY DEF ClosedTypes
  <2>2. responses' + cut = responses + cut' /\ cut' \in {cut, cut + 1} /\ responses' \in {responses, responses + 1}
    <3>1. CASE status BY <2>1, <3>1 DEF TransportFails
    <3>2. CASE ~status BY <2>1, <3>2 DEF TransportFails
    <3> QED BY <3>1, <3>2
  <2>3. kind' # "completed" BY DEF TransportFails, stopWith
  <2> QED BY <2>2, <2>3 DEF TransportFails, Sending
<1>3. nextSlot \in Nat /\ sent \in Nat /\ responses \in Nat /\ transport \in Nat /\ cut \in Nat /\ aborted \in BOOLEAN
      /\ responses' \in Nat /\ transport' \in Nat /\ cut' \in Nat
  BY <1>2 DEF ClosedTypes
<1>4. ClosedTypes' /\ LimitsInv' /\ NowInv' BY <1>1, <1>2, <1>3, TypesKept
<1>5. ClosedPaceInv'
  <2>1. nextSlot <= nextSlot' BY <1>1, <1>2, <1>3
  <2> QED BY <1>1, <1>2, <1>3, <2>1, PaceFewer
<1>6. AnswersInv'
  <2>1. cut' <= transport' BY <1>2, <1>3 DEF AnswersInv
  <2>2. sent' + cut' + One(worker[w].st = "sending") + responses + transport
           = sent + cut + One(Exited.st = "sending") + responses' + transport'
    BY <1>1, <1>2, <1>3 DEF One
  <2> QED BY <1>1, <1>2, <1>3, <2>1, <2>2, AnswersKept
<1> QED BY <1>4, <1>5, <1>6

\* An abort moves no worker.
LEMMA ClosedAbortStep ==
  ASSUME ClosedInv, RunFrame, onCallerAbort \/ AbortTimer
  PROVE  ClosedInv'
<1> USE DEF ClosedInv
<1>1. UNCHANGED <<worker, nextSlot, sent, responses, transport, cut>> /\ aborted' = TRUE
      /\ (kind # "completed" => kind' # "completed")
  BY DEF onCallerAbort, AbortTimer, stopWith
<1>2. aborted' \in BOOLEAN BY <1>1
<1>3. ClosedTypes' BY <1>1, <1>2 DEF ClosedTypes
<1>4. LimitsInv' /\ NowInv' BY DEF LimitsInv, NowInv, RunFrame, policyVars
<1>5. ClosedPaceInv' BY <1>1 DEF ClosedPaceInv, Asleep, AsleepBy, Workers, level, Running, RunFrame, policyVars
<1>6. AnswersInv' BY <1>1 DEF AnswersInv, OnWire, Sending, Workers
<1> QED BY <1>3, <1>4, <1>5, <1>6

-----------------------------------------------------------------------------
(* The container.                                                          *)

K6Inv == K6Types /\ ContainerInv

LEMMA K6Step ==
  ASSUME K6Inv, K6Next
  PROVE  K6Inv'
<1> USE DEF K6Inv, K6Types, ContainerInv, None
<1>1. CASE K6Start BY <1>1 DEF K6Start
<1>2. CASE DaemonStarts BY <1>2 DEF DaemonStarts
<1>3. CASE ContainerExits BY <1>3 DEF ContainerExits
<1>4. CASE StartReturns BY <1>4 DEF StartReturns
<1>5. CASE StartFails BY <1>5 DEF StartFails
<1>6. ASSUME NEW reason \in {"wall-clock", "authorization-expiry"}, Request(reason) PROVE K6Inv'
  BY <1>6 DEF Request
<1>7. CASE KillCall BY <1>7 DEF KillCall
<1>8. CASE KillRead BY <1>8 DEF KillRead, isProven, StateReads
<1>9. CASE WaitReturns BY <1>9 DEF WaitReturns
<1>10. CASE KillOver BY <1>10 DEF KillOver
<1>11. CASE WaitFails BY <1>11 DEF WaitFails
<1>12. CASE Settle BY <1>12 DEF Settle, isProven, StateReads
<1>13. CASE Judge BY <1>13 DEF Judge, judgeK6Run, Summaries
<1>14. CASE removeLabContainer BY <1>14 DEF removeLabContainer
<1> QED BY <1>1, <1>2, <1>3, <1>4, <1>5, <1>6, <1>7, <1>8, <1>9, <1>10, <1>11, <1>12, <1>13, <1>14 DEF K6Next
-----------------------------------------------------------------------------
(* The run.                                                                *)

LEMMA TwoMin ==
  ASSUME NEW a \in Nat, NEW b \in Nat
  PROVE  Min({a, b}) \in {a, b}
<1>1. \E x \in {a, b} : \A y \in {a, b} : x <= y
  <2>1. CASE a <= b BY <2>1
  <2>2. CASE ~(a <= b) BY <2>2
  <2> QED BY <2>1, <2>2
<1> QED BY <1>1 DEF Min

\* A typed limit lowers a phase to a phase.
LEMMA LoweredTypes ==
  ASSUME NEW q \in Phases, NEW cli \in [interval : Nat, concurrency : Nat, duration : Nat]
  PROVE  LoweredPhase(q, cli) \in Phases
<1>1. q.duration \in Nat /\ q.interval \in Nat \ {0} /\ q.concurrency \in Nat
      /\ cli.duration \in Nat /\ cli.interval \in Nat /\ cli.concurrency \in Nat
  BY DEF Phases
<1>2. Min({q.duration, cli.duration}) \in Nat /\ Min({q.concurrency, cli.concurrency}) \in Nat
  BY <1>1, TwoMin
<1>3. Max({q.interval, cli.interval}) \in Nat \ {0}
  <2>1. PICK m : m = Max({q.interval, cli.interval}) OBVIOUS
  <2>2. m \in {q.interval, cli.interval} /\ m >= q.interval BY <1>1, <2>1, TwoMax
  <2>3. m \in Nat \ {0} BY <1>1, <2>2
  <2> QED BY <2>1, <2>3
<1> QED BY <1>2, <1>3 DEF LoweredPhase, Phases

LEMMA AppliedTypes ==
  ASSUME NEW e \in Engines, NEW cli \in CliLimits
  PROVE  LET l == applyCliLimits(Workloads[e], cli) IN
         l.phases \in Seq(Phases) /\ l.phases # << >> /\ l.duration \in Nat
<1>1. cli \in [interval : Nat, concurrency : Nat, duration : Nat]
  BY ShapeAssumption
<1>2. PICK s \in Seq(Phases) : s = Workloads[e].phases /\ s # << >>
  BY ShapeAssumption
<1>3. \A i \in DOMAIN s : LoweredPhase(s[i], cli) \in Phases
  BY <1>1, LoweredTypes
<1> DEFINE u == [i \in DOMAIN s |-> LoweredPhase(s[i], cli)]
<1>4. Len(s) \in Nat /\ DOMAIN s = 1 .. Len(s) /\ Len(s) # 0 BY <1>2
<1>5. u \in [1 .. Len(s) -> Phases] BY <1>3, <1>4
<1>6. u \in Seq(Phases) /\ u # << >>
  <2>1. u \in Seq(Phases) BY <1>4, <1>5, SeqDef
  <2>2. DOMAIN u = 1 .. Len(s) BY <1>5
  <2>3. 1 \in DOMAIN u BY <1>4, <2>2
  <2> QED BY <2>1, <2>3
<1> HIDE DEF u
<1>7. applyCliLimits(Workloads[e], cli).phases = u
  BY <1>2 DEF applyCliLimits, u
<1>8. applyCliLimits(Workloads[e], cli).duration = cli.duration
  BY DEF applyCliLimits
<1>9. cli.duration \in Nat BY <1>1
<1> QED BY <1>6, <1>7, <1>8, <1>9

LEMMA LoadInitInv == Init => LoadInv
<1> SUFFICES ASSUME Init PROVE LoadInv OBVIOUS
<1> USE DEF Init
<1>1. OpenTypes
  <2>1. Off \in Checks BY DEF Off, Checks
  <2>2. late \in BOOLEAN /\ hard \in BOOLEAN /\ owned \in BOOLEAN BY DEF OpenInit
  <2>3. Never \in Nat BY ShapeAssumption DEF Never
  <2> QED BY <2>1, <2>2, <2>3 DEF OpenInit, OpenTypes
<1>2. ClosedTypes
  <2>1. Ready \in WorkerStates BY DEF Ready, WorkerStates
  <2>2. aborted \in BOOLEAN BY DEF ClosedInit
  <2> QED BY <2>1, <2>2 DEF ClosedInit, ClosedTypes
<1>3. K6Types BY DEF K6Init, K6Types
<1>4. LoadTypes BY <1>1, <1>2, <1>3, ShapeAssumption DEF LoadTypes
<1>5. AuthorityInv
  <2>1. request.engine \in Engines BY DEF Requests
  <2> QED BY <2>1 DEF AuthorityInv, Running, None
<1>6. PhaseInv /\ OpenPaceInv /\ ClosedPaceInv
  BY DEF PhaseInv, OpenPaceInv, ClosedPaceInv, Running, None
<1>7. LeaseInv
  BY LeaseAssumption, ShapeAssumption DEF OpenInit, LeaseInv, Off, guarded
<1>8. AnswersInv
  <2>1. OnWire = {}
    BY DEF OnWire, Sending, Workers, ClosedInit, Ready
  <2>2. Cardinality(OnWire) = 0 BY <2>1, FS_EmptySet
  <2> QED BY <2>2 DEF AnswersInv, ClosedInit
<1>9. ContainerInv BY DEF K6Init, ContainerInv, None
<1>10. ResultIsEarned BY DEF ResultIsEarned, None
<1> QED BY <1>4, <1>5, <1>6, <1>7, <1>8, <1>9, <1>10 DEF LoadInv

LEMMA RefuseStep ==
  ASSUME LoadInv, Refuse
  PROVE  LoadInv'
<1> USE DEF LoadInv, Refuse
<1>1. LoadTypes'
  BY DEF LoadTypes, OpenTypes, ClosedTypes, K6Types, policyVars, openVars, loopVars, sendVars, leaseVars,
       closedVars, k6Vars
<1>2. AuthorityInv'
  BY DEF AuthorityInv, engine, Running, None, OpenInit, ClosedInit, K6Init, policyVars, openVars, loopVars,
       sendVars, leaseVars, closedVars, k6Vars
<1>3. PhaseInv' /\ OpenPaceInv' /\ ClosedPaceInv'
  BY DEF PhaseInv, OpenPaceInv, ClosedPaceInv, Running
<1>4. LeaseInv'
  BY DEF LeaseInv, guarded, policyVars, openVars, loopVars, sendVars, leaseVars
<1>5. AnswersInv' BY DEF AnswersInv, OnWire, Sending, Workers, closedVars
<1>6. ContainerInv' BY DEF ContainerInv, k6Vars
<1>7. ResultIsEarned' BY DEF ResultIsEarned
<1> QED BY <1>1, <1>2, <1>3, <1>4, <1>5, <1>6, <1>7

LEMMA AuthorizeStep ==
  ASSUME LoadInv, Authorize
  PROVE  LoadInv'
<1> USE DEF LoadInv, Authorize
<1>0. /\ UNCHANGED <<now, openVars, closedVars, k6Vars>> /\ result = None /\ result' = "running"
      /\ request'.engine = engine /\ request'.guarded = request.guarded
      /\ limits' = applyCliLimits(Workloads[engine], request.cli)
      /\ OpenInit /\ ClosedInit /\ K6Init /\ request \in Requests
  BY DEF AuthorityInv
<1>1. LoadTypes'
  BY <1>0 DEF LoadTypes, OpenTypes, ClosedTypes, K6Types, openVars, loopVars, sendVars, leaseVars,
       closedVars, k6Vars
<1>2. engine \in Engines /\ request.cli \in CliLimits BY <1>0 DEF engine, Requests
<1>3. limits'.phases \in Seq(Phases) /\ limits'.phases # << >> /\ limits'.duration \in Nat
  BY <1>0, <1>2, AppliedTypes
<1>4. OpenInit' /\ ClosedInit' /\ K6Init'
  BY <1>0 DEF OpenInit, ClosedInit, K6Init, openVars, loopVars, sendVars, leaseVars, closedVars, k6Vars
<1>5. AuthorityInv'
  BY <1>0, <1>2, <1>3, <1>4 DEF AuthorityInv, engine, None
<1>6. PhaseInv'
  BY <1>3, <1>4 DEF PhaseInv, OpenInit
<1>7. OpenPaceInv'
  BY <1>4 DEF OpenPaceInv, OpenInit
<1>8. ClosedPaceInv'
  <2>1. LimitsInv' BY <1>0, <1>3 DEF LimitsInv
  <2>2. level'.interval \in Nat \ {0}
    <3>1. 1 \in 1 .. Len(limits'.phases) BY <1>3
    <3>2. level' \in Phases BY <1>3, <3>1 DEF level
    <3> QED BY <3>2 DEF Phases
  <2>3. Asleep' = {} /\ \A t : AsleepBy(t)' = {}
    BY <1>4 DEF Asleep, AsleepBy, Workers, ClosedInit, Ready
  <2>4. Cardinality(Asleep') = 0 /\ \A t : Cardinality(AsleepBy(t)') = 0
    BY <2>3, FS_EmptySet
  <2>5. 0 * level'.interval = 0 BY <2>2
  <2>6. now' \in Nat BY <1>1, ShapeAssumption DEF LoadTypes
  <2>7. \A t \in now' .. MaxTime : t \div level'.interval \in Nat BY <2>2, <2>6, ShapeAssumption, DivBounds
  <2>8. sent' = 0 /\ nextSlot' = 0 BY <1>4 DEF ClosedInit
  <2> QED BY <2>4, <2>5, <2>7, <2>8 DEF ClosedPaceInv
<1>9. LeaseInv'
  BY <1>0 DEF LeaseInv, guarded, openVars, loopVars, sendVars, leaseVars
<1>10. AnswersInv' BY <1>0 DEF AnswersInv, OnWire, Sending, Workers, closedVars
<1>11. ContainerInv' BY <1>0 DEF ContainerInv, k6Vars
<1>12. ResultIsEarned' BY <1>0 DEF ResultIsEarned
<1> QED BY <1>1, <1>5, <1>6, <1>7, <1>8, <1>9, <1>10, <1>11, <1>12

LEMMA RunningFacts ==
  ASSUME LoadInv, Running
  PROVE  /\ LimitsInv /\ NowInv /\ ResultIsEarned
         /\ engine = "http" => OpenInv
         /\ ClosedInv /\ K6Inv
<1>1. LimitsInv BY DEF LoadInv, AuthorityInv, LimitsInv, Running
<1>2. NowInv BY ShapeAssumption DEF LoadInv, LoadTypes, NowInv
<1> QED BY <1>1, <1>2 DEF LoadInv, LoadTypes, AuthorityInv, OpenInv, ClosedInv, K6Inv

\* While the run goes on no result claims anything.
LEMMA NothingClaimed ==
  ASSUME Running'
  PROVE  ResultIsEarned'
BY DEF Running, ResultIsEarned

LEMMA OpenNextStep ==
  ASSUME OpenInv, OpenNext, RunFrame
  PROVE  OpenInv'
BY OpenOpenStep, OpenLoseDestinationStep, OpenVerifyAppContainerStep, OpenFirstProofStep, OpenWatcherWakesStep,
   OpenProvedStep, OpenDisprovedStep, OpenStartPhaseStep, OpenLoopEndsStep, OpenLoopStopsStep,
   OpenCeilingReachedStep, OpenCapReachedStep, OpenDropSendStep, OpenSendAuthorizedStep, OpenSendRefusedStep,
   OpenSettlesStep, OpenPhaseEndsStep, OpenAllPhasesEndStep, OpenHardStopStep, OpenReturnStep
   DEF OpenNext

LEMMA ClosedNextStep ==
  ASSUME ClosedInv, ClosedNext, RunFrame
  PROVE  ClosedInv'
BY ClosedAbortStep, ClosedStopsStep, ClosedTakesSlotStep, ClosedWakesStep, ClosedRespondsStep, ClosedFailsStep
   DEF ClosedNext, WorkerStep

LEMMA OpenTurnStep ==
  ASSUME LoadInv, OpenTurn(OpenNext)
  PROVE  LoadInv'
<1>1. Running /\ engine = "http" /\ OpenNext /\ RunFrame /\ UNCHANGED <<closedVars, k6Vars>>
  BY DEF OpenTurn, RunFrame
<1>2. OpenInv' BY <1>1, RunningFacts, OpenNextStep
<1>3. ClosedInv /\ K6Inv BY <1>1, RunningFacts
<1>4. Running' /\ engine' = engine /\ NowInv' BY <1>1, <1>2 DEF OpenInv, Running, engine, RunFrame, policyVars
<1>5. ClosedTypes' /\ K6Types'
  BY <1>1, <1>3 DEF ClosedInv, K6Inv, ClosedTypes, K6Types, closedVars, k6Vars
<1>6. LoadTypes' BY <1>2, <1>4, <1>5 DEF OpenInv, NowInv, LoadTypes
<1>7. ClosedPaceInv' /\ AnswersInv'
  BY <1>1, <1>3 DEF ClosedInv, ClosedPaceInv, AnswersInv, OnWire, Sending, Asleep, AsleepBy, Workers, level,
       Running,
                    closedVars, RunFrame, policyVars
<1>8. ContainerInv' BY <1>1, <1>3 DEF K6Inv, ContainerInv, k6Vars
<1>9. AuthorityInv'
  <2>1. ClosedInit' /\ K6Init'
    BY <1>1 DEF LoadInv, AuthorityInv, ClosedInit, K6Init, closedVars, k6Vars
  <2>2. LimitsInv' /\ (pc = "idle" => OpenInit)' BY <1>2 DEF OpenInv
  <2>3. engine' = "http" /\ result' # None BY <1>1, <1>4 DEF Running, None
  <2> QED BY <2>1, <2>2, <2>3 DEF AuthorityInv, LimitsInv, engine, Engines
<1> QED BY <1>2, <1>4, <1>6, <1>7, <1>8, <1>9, NothingClaimed DEF OpenInv, LoadInv

LEMMA ClosedTurnStep ==
  ASSUME LoadInv, ClosedTurn(ClosedNext)
  PROVE  LoadInv'
<1>1. Running /\ engine = "http-closed-loop" /\ ClosedNext /\ RunFrame /\ UNCHANGED <<openVars, k6Vars>>
  BY DEF ClosedTurn, RunFrame
<1>2. ClosedInv' BY <1>1, RunningFacts, ClosedNextStep
<1>3. Running' /\ engine' = engine BY <1>1 DEF Running, engine, RunFrame, policyVars
<1>4. OpenTypes' /\ K6Types'
  BY <1>1 DEF LoadInv, LoadTypes, OpenTypes, K6Types, openVars, loopVars, sendVars, leaseVars, k6Vars
<1>5. LoadTypes' BY <1>2, <1>4 DEF ClosedInv, NowInv, LoadTypes
<1>6. OpenInit' /\ K6Init'
  BY <1>1 DEF LoadInv, AuthorityInv, OpenInit, K6Init, openVars, loopVars, sendVars, leaseVars, k6Vars
<1>7. AuthorityInv'
  <2>1. LimitsInv' BY <1>2 DEF ClosedInv
  <2>2. engine' = "http-closed-loop" /\ result' # None BY <1>1, <1>3 DEF Running, None
  <2> QED BY <1>6, <2>1, <2>2 DEF AuthorityInv, LimitsInv, engine, Engines
<1>8. PhaseInv' /\ OpenPaceInv'
  BY <1>1 DEF LoadInv, PhaseInv, OpenPaceInv, p, Running, RunFrame, policyVars, openVars, loopVars, sendVars,
       leaseVars
<1>9. LeaseInv'
  BY <1>1 DEF LoadInv, LeaseInv, guarded, RunFrame, policyVars, openVars, loopVars, sendVars, leaseVars
<1>10. ContainerInv' BY <1>1 DEF LoadInv, ContainerInv, k6Vars
<1> QED BY <1>2, <1>3, <1>5, <1>7, <1>8, <1>9, <1>10, NothingClaimed DEF ClosedInv, LoadInv

LEMMA K6TurnStep ==
  ASSUME LoadInv, K6Turn(K6Next)
  PROVE  LoadInv'
<1>1. Running /\ engine = "k6" /\ K6Next /\ RunFrame /\ UNCHANGED <<openVars, closedVars>>
  BY DEF K6Turn, RunFrame
<1>2. K6Inv' BY <1>1, RunningFacts, K6Step
<1>3. Running' /\ engine' = engine BY <1>1 DEF Running, engine, RunFrame, policyVars
<1>4. OpenTypes' /\ ClosedTypes'
  BY <1>1 DEF LoadInv, LoadTypes, OpenTypes, ClosedTypes, openVars, loopVars, sendVars, leaseVars, closedVars
<1>5. LoadTypes' BY <1>1, <1>2, <1>4 DEF LoadInv, K6Inv, LoadTypes, RunFrame
<1>6. OpenInit' /\ ClosedInit'
  BY <1>1 DEF LoadInv, AuthorityInv, OpenInit, ClosedInit, openVars, loopVars, sendVars, leaseVars, closedVars
<1>7. AuthorityInv'
  <2>1. LimitsInv BY <1>1, RunningFacts
  <2>2. LimitsInv' BY <1>1, <2>1 DEF LimitsInv, RunFrame, policyVars
  <2>3. engine' = "k6" /\ result' # None BY <1>1, <1>3 DEF Running, None
  <2> QED BY <1>6, <2>2, <2>3 DEF AuthorityInv, LimitsInv, engine, Engines
<1>8. PhaseInv' /\ OpenPaceInv'
  BY <1>1 DEF LoadInv, PhaseInv, OpenPaceInv, p, Running, RunFrame, policyVars, openVars, loopVars, sendVars,
       leaseVars
<1>9. LeaseInv'
  BY <1>1 DEF LoadInv, LeaseInv, guarded, RunFrame, policyVars, openVars, loopVars, sendVars, leaseVars
<1>10. ClosedPaceInv' /\ AnswersInv'
  BY <1>1 DEF LoadInv, ClosedPaceInv, AnswersInv, OnWire, Sending, Asleep, AsleepBy, Workers, level, Running,
                    closedVars, RunFrame, policyVars
<1> QED BY <1>2, <1>3, <1>5, <1>7, <1>8, <1>9, <1>10, NothingClaimed DEF K6Inv, LoadInv

\* An engine's return changes the result only.
LEMMA ResultFrame ==
  ASSUME LoadInv, Running, UNCHANGED <<now, policyVars, openVars, closedVars, k6Vars>>,
         result' \notin {None, "running"}, ResultIsEarned'
  PROVE  LoadInv'
<1>1. LoadTypes'
  BY DEF LoadInv, LoadTypes, OpenTypes, ClosedTypes, K6Types, policyVars, openVars, loopVars, sendVars,
       leaseVars, closedVars, k6Vars
<1>2. AuthorityInv'
  <2>1. result # None BY DEF Running, None
  <2>2. OpenInit => OpenInit' BY DEF OpenInit, openVars, loopVars, sendVars, leaseVars
  <2>3. ClosedInit => ClosedInit' BY DEF ClosedInit, closedVars
  <2>4. K6Init => K6Init' BY DEF K6Init, k6Vars
  <2>5. request' = request /\ pc' = pc BY DEF policyVars, openVars
  <2> QED BY <2>1, <2>2, <2>3, <2>4, <2>5 DEF LoadInv, AuthorityInv, engine, Running
<1>3. PhaseInv' /\ OpenPaceInv' /\ ClosedPaceInv'
  BY DEF PhaseInv, OpenPaceInv, ClosedPaceInv, Running
<1>4. LeaseInv'
  BY DEF LoadInv, LeaseInv, guarded, policyVars, openVars, loopVars, sendVars, leaseVars
<1>5. AnswersInv' BY DEF LoadInv, AnswersInv, OnWire, Sending, Workers, closedVars
<1>6. ContainerInv' BY DEF LoadInv, ContainerInv, k6Vars
<1> QED BY <1>1, <1>2, <1>3, <1>4, <1>5, <1>6 DEF LoadInv

LEMMA OpenResultStep ==
  ASSUME LoadInv, OpenResult
  PROVE  LoadInv'
<1>1. /\ Running /\ engine = "http" /\ UNCHANGED <<now, policyVars, openVars, closedVars, k6Vars>>
      /\ \/ pc = "done" /\ result' = OpenVerdict
         \/ pc = "threw" /\ result' \in {"REFUSED", "ERROR"}
  BY DEF OpenResult
<1>2. result' \in {"STOP", "PASS", "FAIL", "REFUSED", "ERROR"} BY <1>1 DEF OpenVerdict
<1>3. engine' = engine /\ engine' # "k6" BY <1>1 DEF engine, policyVars
<1>4. ASSUME result' = "PASS" PROVE stop = None /\ pending = {} /\ (~hard => Len(phases) = Len(limits.phases))
  <2>1. pc = "done" /\ stop = None BY <1>1, <1>4 DEF OpenVerdict
  <2> QED BY <1>1, <2>1 DEF LoadInv, PhaseInv
<1>5. stop' = stop /\ pending' = pending /\ hard' = hard /\ phases' = phases /\ limits' = limits
  BY <1>1 DEF policyVars, openVars, loopVars, sendVars
<1>6. ResultIsEarned' BY <1>2, <1>3, <1>4, <1>5 DEF ResultIsEarned
<1> QED BY <1>1, <1>2, <1>6, ResultFrame DEF None

LEMMA ClosedResultStep ==
  ASSUME LoadInv, ClosedResult
  PROVE  LoadInv'
<1>1. /\ Running /\ engine = "http-closed-loop" /\ UNCHANGED <<now, policyVars, openVars, closedVars, k6Vars>> /\ ~Level
      /\ result' \in {"GENERATOR-COMPLETE", "ABORTED", "STOP"}
  BY DEF ClosedResult
<1>2. engine' = "http-closed-loop" BY <1>1 DEF engine, policyVars
<1>3. ASSUME kind = "completed" PROVE transport = 0 /\ responses = sent
  <2>1. OnWire = {} BY <1>1 DEF OnWire, Sending, Level
  <2>2. Cardinality(OnWire) = 0 BY <2>1, FS_EmptySet
  <2>3. sent \in Nat /\ cut \in Nat /\ responses \in Nat /\ transport \in Nat BY DEF LoadInv, LoadTypes,
         ClosedTypes
  <2> QED BY <1>3, <2>2, <2>3 DEF LoadInv, AnswersInv
<1>4. kind' = kind /\ transport' = transport /\ responses' = responses /\ sent' = sent BY <1>1 DEF closedVars
<1>5. ResultIsEarned' BY <1>1, <1>2, <1>3, <1>4 DEF ResultIsEarned
<1> QED BY <1>1, <1>5, ResultFrame DEF None

LEMMA K6ResultStep ==
  ASSUME LoadInv, K6Result
  PROVE  LoadInv'
<1>1. /\ Running /\ engine = "k6" /\ UNCHANGED <<now, policyVars, openVars, closedVars, k6Vars>>
      /\ kpc = "done" /\ result' = verdict
  BY DEF K6Result
<1>2. verdict \in {"PASS", "FAIL", "STOP", "ERROR"}
  BY <1>1 DEF LoadInv, LoadTypes, K6Types, ContainerInv
<1>3. engine' = "k6" /\ container' = container BY <1>1 DEF engine, policyVars, k6Vars
<1>4. ResultIsEarned' BY <1>1, <1>2, <1>3 DEF ResultIsEarned, LoadInv, ContainerInv
<1> QED BY <1>1, <1>2, <1>4, ResultFrame DEF None

LEMMA LoadTickStep ==
  ASSUME LoadInv, Tick
  PROVE  LoadInv'
<1>1. /\ Running /\ now < MaxTime /\ now' = now + 1 /\ UNCHANGED <<policyVars, result, openVars, closedVars, k6Vars>>
      /\ engine \in Engines
      /\ engine = "http" => ~OpenOverdue
  BY DEF Tick, LoadInv, AuthorityInv, engine
<1>2. now \in Nat /\ now' \in Nat /\ now' \in 0 .. MaxTime /\ now <= now'
  BY <1>1, ShapeAssumption DEF LoadInv, LoadTypes
<1>3. LoadTypes'
  BY <1>1, <1>2 DEF LoadInv, LoadTypes, OpenTypes, ClosedTypes, K6Types, openVars, loopVars, sendVars,
       leaseVars, closedVars, k6Vars
<1>4. AuthorityInv'
  <2>1. OpenInit => OpenInit' BY <1>1 DEF OpenInit, openVars, loopVars, sendVars, leaseVars
  <2>2. ClosedInit => ClosedInit' BY <1>1 DEF ClosedInit, closedVars
  <2>3. K6Init => K6Init' BY <1>1 DEF K6Init, k6Vars
  <2>4. request' = request /\ limits' = limits /\ pc' = pc /\ result' = result BY <1>1 DEF policyVars, openVars
  <2> QED BY <2>1, <2>2, <2>3, <2>4 DEF LoadInv, AuthorityInv, engine, Running
<1>5. PhaseInv'
  BY <1>1 DEF LoadInv, PhaseInv, Running, policyVars, openVars, loopVars, sendVars
<1>6. OpenPaceInv'
  <2> SUFFICES ASSUME Running', pc' = "loop" PROVE OpenPaceInv' BY DEF OpenPaceInv
  <2>1. engine = "http"
    BY <1>1 DEF LoadInv, AuthorityInv, OpenInit, openVars
  <2>2. pc = "loop" /\ OpenInv BY <1>1, <2>1, RunningFacts DEF openVars
  <2>3. p.interval \in Nat \ {0} BY <2>2, PhaseType DEF Phases
  <2>4. start \in Nat /\ attempted \in Nat /\ start <= now
        /\ start + attempted * p.interval <= nextSend /\ attempted <= 1 + (now - start) \div p.interval
    BY <1>1, <2>2 DEF OpenInv, OpenTypes, OpenPaceInv
  <2>5. now - start \in Nat /\ now' - start \in Nat /\ now - start <= now' - start /\ start <= now' BY <1>1,
         <1>2, <2>4
  <2>6. (now - start) \div p.interval <= (now' - start) \div p.interval
        /\ (now - start) \div p.interval \in Nat /\ (now' - start) \div p.interval \in Nat
    BY <2>3, <2>5, DivMono, DivBounds
  <2>7. attempted <= 1 + (now' - start) \div p.interval BY <2>4, <2>6
  <2>8. p' = p /\ start' = start /\ attempted' = attempted /\ nextSend' = nextSend
    BY <1>1 DEF p, policyVars, openVars, loopVars
  <2> QED BY <2>4, <2>5, <2>7, <2>8 DEF OpenPaceInv
<1>7. ClosedPaceInv'
  <2>1. level' = level /\ sent' = sent /\ nextSlot' = nextSlot /\ worker' = worker
    BY <1>1 DEF level, policyVars, closedVars
  <2>2. Asleep' = Asleep /\ \A t : AsleepBy(t)' = AsleepBy(t) BY <2>1 DEF Asleep, AsleepBy, Workers
  <2>3. \A t \in now' .. MaxTime : t \in now .. MaxTime BY <1>2, ShapeAssumption
  <2> QED BY <1>1, <2>1, <2>2, <2>3 DEF LoadInv, ClosedPaceInv
<1>8. LeaseInv'
  <2>1. pc # "verify" /\ check.st \in {"asked", "answered"} => now < check.since + 2 * MaxStale
    <3>1. CASE engine = "http" BY <1>1, <1>2, <3>1, LeaseAssumption DEF OpenOverdue, CheckTimesOut, LoadInv,
           LoadTypes, OpenTypes, Checks
    <3>2. CASE engine # "http" BY <3>2 DEF LoadInv, AuthorityInv, OpenInit, Off
    <3> QED BY <3>1, <3>2
  <2>2. UNCHANGED <<pc, check, lastOk, firstOk, lastSend, lostAt, owned, request>>
    BY <1>1 DEF policyVars, openVars, sendVars, leaseVars
  <2>3. /\ lastOk \in Nat /\ firstOk \in Nat /\ lastSend \in Nat /\ lostAt \in Nat /\ check.since \in Nat
        /\ MaxStale \in Nat /\ Never \in Nat /\ now' = now + 1 /\ guarded' = guarded /\ Never' = Never
    BY <1>1, <1>2, <2>2, LeaseAssumption, ShapeAssumption DEF LoadInv, LoadTypes, OpenTypes, Checks, guarded, Never
  <2>4. lostAt # Never => lostAt <= now' BY <1>2, <2>3 DEF LoadInv, LeaseInv
  <2>5. lastOk <= now' /\ firstOk <= lastOk /\ lastSend <= now' /\ check.since <= now'
    BY <1>2, <2>3 DEF LoadInv, LeaseInv
  <2>6. pc # "verify" /\ check.st \in {"asked", "answered"} => now' <= check.since + 2 * MaxStale
    <3>1. 2 * MaxStale \in Nat BY <2>3
    <3> QED BY <1>2, <2>1, <2>3, <3>1
  <2>7. LeaseInv BY DEF LoadInv
  <2> QED BY ONLY <2>2, <2>3, <2>4, <2>5, <2>6, <2>7 DEF LeaseInv
<1>9. AnswersInv' BY <1>1 DEF LoadInv, AnswersInv, OnWire, Sending, Workers, closedVars
<1>10. ContainerInv' BY <1>1 DEF LoadInv, ContainerInv, k6Vars
<1>11. ResultIsEarned' BY <1>1, NothingClaimed DEF Running
<1> QED BY <1>3, <1>4, <1>5, <1>6, <1>7, <1>8, <1>9, <1>10, <1>11 DEF LoadInv

LEMMA LoadStutter == LoadInv /\ UNCHANGED vars => LoadInv'
<1> SUFFICES ASSUME LoadInv, UNCHANGED vars PROVE LoadInv' OBVIOUS
<1> USE DEF LoadInv, vars, policyVars, openVars, loopVars, sendVars, leaseVars, closedVars, k6Vars
<1>1. LoadTypes' BY DEF LoadTypes, OpenTypes, ClosedTypes, K6Types
<1>2. AuthorityInv' BY DEF AuthorityInv, engine, Running, OpenInit, ClosedInit, K6Init
<1>3. PhaseInv' /\ OpenPaceInv' BY DEF PhaseInv, OpenPaceInv, Running, p
<1>4. ClosedPaceInv' BY DEF ClosedPaceInv, Running, level, Asleep, AsleepBy, Workers
<1>5. LeaseInv' BY DEF LeaseInv, guarded
<1>6. AnswersInv' BY DEF AnswersInv, OnWire, Sending, Workers
<1>7. ContainerInv' BY DEF ContainerInv
<1>8. ResultIsEarned' BY DEF ResultIsEarned, engine
<1> QED BY <1>1, <1>2, <1>3, <1>4, <1>5, <1>6, <1>7, <1>8

\* The invariant behind the properties of a load run: whatever the engine, the destination, the answers,
\* the daemon and the clock do, LoadInv holds (run.ts, engine.ts, closed-loop.ts, k6.ts).
THEOREM LoadInvariance == Spec => []LoadInv
<1>1. LoadInv /\ [Next]_vars => LoadInv'
  BY RefuseStep, AuthorizeStep, LoadTickStep, OpenTurnStep, ClosedTurnStep, K6TurnStep,
     OpenResultStep, ClosedResultStep, K6ResultStep, LoadStutter DEF Next
<1> QED BY <1>1, LoadInitInv, PTL DEF Spec

\* No request leaves for a destination the lab has lost for longer than the lease allows (engine.ts,
\* DestinationGuard), whatever the stale period, the interval of the checks and their answers.
THEOREM LeaseHolds == Spec => []LeaseBoundsTraffic
<1>1. LoadInv => LeaseBoundsTraffic
  <2> SUFFICES ASSUME LoadInv, lostAt # Never PROVE LeaseBoundsTraffic BY DEF LeaseBoundsTraffic
  <2>1. lostAt \in Nat /\ firstOk \in Nat /\ lastOk \in Nat /\ lastSend \in Nat
    BY DEF LoadInv, LoadTypes, OpenTypes
  <2>2. lastSend <= lastOk + MaxStale /\ (lastOk <= lostAt + 2 * MaxStale \/ lastOk = firstOk)
    BY DEF LoadInv, LeaseInv
  <2> DEFINE a == lostAt + 3 * MaxStale  b == firstOk + MaxStale
  <2>3. a \in Nat /\ b \in Nat /\ (lastSend <= a \/ lastSend <= b)
    BY <2>1, <2>2, LeaseAssumption
  <2> HIDE DEF a, b
  <2>4. PICK m : m = Max({a, b}) OBVIOUS
  <2>5. m \in {a, b} /\ m >= a /\ m >= b BY <2>3, <2>4, TwoMax
  <2>6. lastSend <= m BY <2>1, <2>3, <2>5
  <2> QED BY <2>4, <2>6 DEF LeaseBoundsTraffic, a, b
<1> QED BY <1>1, LoadInvariance, PTL

\* Neither engine runs ahead of its schedule (engine.ts, nextSend; closed-loop.ts, nextSlot), for any
\* reviewed workload, any typed limits and any order in which the workers wake.
THEOREM PacesHold == Spec => []PaceHolds
<1>1. LoadInv => PaceHolds
  <2> SUFFICES ASSUME LoadInv, Running PROVE PaceHolds BY DEF PaceHolds
  <2>1. pc = "loop" => attempted <= 1 + (now - start) \div p.interval
    BY DEF LoadInv, OpenPaceInv
  <2>2. sent <= 1 + now \div level.interval
    <3>1. now \in Nat /\ now <= MaxTime /\ ClosedTypes /\ LimitsInv BY RunningFacts DEF NowInv, ClosedInv
    <3>2. now \in now .. MaxTime BY <3>1, ShapeAssumption
    <3>3. sent + Cardinality(AsleepBy(now)) <= 1 + now \div level.interval BY <3>2 DEF LoadInv, ClosedPaceInv
    <3>4. Cardinality(AsleepBy(now)) \in Nat BY <3>1, WorkersFinite DEF AsleepBy
    <3>5. sent \in Nat /\ now \div level.interval \in Nat BY <3>1, LevelInterval, DivBounds DEF ClosedTypes
    <3> QED BY <3>3, <3>4, <3>5
  <2> QED BY <2>1, <2>2 DEF PaceHolds
<1> QED BY <1>1, LoadInvariance, PTL

\* A result is what it says (run.ts, evaluateHttpPass, executeClosedLoop, superviseContainer): PASS is a
\* whole run, a completed generator lost nothing, and a judged container no longer runs.
THEOREM ResultsAreEarned == Spec => []ResultIsEarned
<1>1. LoadInv => ResultIsEarned BY DEF LoadInv
<1> QED BY <1>1, LoadInvariance, PTL

-----------------------------------------------------------------------------
(***************************************************************************)
(* The predecessor-collapse run                                            *)
(***************************************************************************)

Fixtures == {FormFixture, SemFixture, Fabricated, FormPage}
PhaseNames == {"natural", "collapse", "collapse_burst", "attempt"}

\* A step of a body that sends a request.
SendStep(b) ==
  /\ b.do = "send" /\ b.what \in Fixtures /\ b.layers \in Seq(BothLayers) /\ b.phase \in PhaseNames /\ b.own \in BOOLEAN
  /\ "l1" \in ToSet(b.layers) => b.what.l1 = "reject"
FaultStep(b) == b.do = "fault" /\ b.layer \in BothLayers /\ b.kind \in {"throw", "hang"} /\ b.remaining \in Nat

\* What may stand at a place of the body of an arm.
BodyStep(name, b) ==
  CASE name \in {"C0r", "C0"} -> SendStep(b) /\ b.layers = <<>> /\ b.what # FormPage
    [] name \in {"C1", "C2"}  -> b = Probe \/ (SendStep(b) /\ b.phase # "attempt")
    [] name = "C2p"           -> FaultStep(b) \/ (SendStep(b) /\ b.layers = <<>> /\ b.what \in {Fabricated, FormPage})

TraceType ==
  [pc : {"none", "l1", "l2", "egress", "done"}, l1 : {"none", "reject", "error", "pass", "simulated_pass"},
   l2 : {"none", "admitted", "shed", "degraded", "error"}, lane : {"none", "open", "credited", "unverified"},
   why : {"none", "throw", "timeout", "evaluator_saturation", "lane_budget"}, simulated : SUBSET BothLayers,
   failed : BOOLEAN, end : {"none", "egress_failed", "app_mutated", "app_executed_no_mutation", "canon_refused"}]

HarnessType ==
  [at : Nat \ {0}, pc : {"next", "arming", "awaiting", "probing"}, todo : Seq(BothLayers), since : Nat, sent : Nat]
ArmType == [step : Nat, layer : BothLayers, expires : Nat, consumed : BOOLEAN]
FaultType == [kind : {"none", "throw", "hang"}, remaining : Nat]
PlaneType ==
  [arms : SUBSET ArmType, refused : Nat, fault : [BothLayers -> FaultType], abandoned : Nat, enrolled : BOOLEAN]
StatsType == [armed : Nat, consumed : Nat, refused : Nat, expired : Nat, outstanding : Nat, l2Occupancy : Nat, inFlight : Nat]
DownType ==
  [type : {"arm"}, step : Nat, layer : BothLayers]
    \union [type : {"fault"}, layer : BothLayers, kind : {"throw", "hang"}, remaining : Nat]
    \union [type : {"probe"}, step : Nat]
UpType ==
  [type : {"ack"}, step : Nat, layer : BothLayers, granted : BOOLEAN] \union [type : {"probe"}, step : Nat, stats : StatsType]

Untraced(q) ==
  q.l1 = "none" /\ q.l2 = "none" /\ q.lane = "none" /\ q.why = "none" /\ q.simulated = {} /\ ~q.failed /\ q.end = "none"

\* What the plane has recorded of a request when it is at a point of its handler; b is the step that sent it.
Traced(name, b, q) ==
  /\ q.pc # "none" => SendStep(b)
  /\ q.pc \in {"none", "l1"} => Untraced(q)
  /\ q.pc = "l2" => q.l2 = "none" /\ q.lane = "none" /\ q.why = "none" /\ ~q.failed /\ q.end = "none" /\ HasL2(name)
  /\ q.pc = "egress" => q.end = "none"
  /\ q.pc \in {"egress", "done"} /\ HasL2(name) /\ q.l2 = "none" =>
       q.pc = "done" /\ q.end = "none" /\ q.l1 \in {"reject", "error"}
  /\ "l1" \in q.simulated => q.l1 = "simulated_pass" /\ b.what.l1 = "reject"
  /\ q.end # "none" => q.end \in {b.what.ends, "egress_failed"}
  /\ q.l1 = "error" \/ q.l2 \in {"error", "degraded"} \/ q.why \in {"throw", "timeout", "evaluator_saturation"} => q.failed
  /\ q.lane = "unverified" => ~q.failed
  /\ name # "C2p" => ~q.failed

Names == {"C0r", "C0", "C1", "C2", "C2p"}
At(name) == 1..Len(Body(name))
DoAt(name, i) == Body(name)[i].do
LayersAt(name, i) == ToSet(Body(name)[i].layers)

(***************************************************************************)
(* The invariant, as a predicate of the arm's name, the harness h, the two *)
(* directions d and u of the pipe, the plane pl, what it recorded of the    *)
(* requests q, the controller's records r and the last probe t.            *)
(***************************************************************************)
ArmTypes(name, h, d, u, pl, q, r) ==
  /\ name \in Names /\ h \in HarnessType /\ d \in Seq(DownType) /\ u \in Seq(UpType)
  /\ pl \in PlaneType /\ IsFiniteSet(pl.arms) /\ q \in [At(name) -> TraceType] /\ r \in Seq(BOOLEAN)

\* Requests are sent one after the other, each when its step comes.
InOrder(name, h, q) ==
  /\ \A i \in At(name) : Traced(name, Body(name)[i], q[i])
  /\ \A i \in At(name) : i > h.at \/ (i = h.at /\ h.pc # "awaiting") => q[i].pc = "none"
  /\ h.at <= Len(Body(name)) + 1
  /\ h.pc \in {"arming", "awaiting"} => h.at \in At(name) /\ DoAt(name, h.at) = "send"
  /\ h.pc = "probing" => h.at \in At(name) /\ DoAt(name, h.at) = "probe"
  /\ h.pc = "arming" => h.todo # <<>> /\ ToSet(h.todo) \subseteq LayersAt(name, h.at)

\* Only C2p breaks layers, and an ordinary plane is as it was forked.
AsForked(name, pl, d) ==
  /\ name # "C2p" => /\ pl.fault = FreshPlane.fault /\ pl.abandoned = 0
                     /\ \A m \in ToSet(d) : m.type # "fault"
  /\ name \in {"C0r", "C0"} => pl = FreshPlane

IsArmed(pl, i, layer) == \E a \in pl.arms : a.step = i /\ a.layer = layer
AllConsumed(pl) == \A a \in pl.arms : a.consumed
NoArmIn(d) == \A m \in ToSet(d) : m.type # "arm"
Granting(r) == \A n \in DOMAIN r : r[n]

\* The arms of C1 and C2 are for steps that ask for them, and the used ones are those the requests took.
Taking(name, pl, q) ==
  /\ \A a \in pl.arms : a.step \in At(name) /\ a.layer \in LayersAt(name, a.step)
  /\ \A a \in pl.arms : a.consumed => a.layer \in q[a.step].simulated
  /\ \A i \in At(name) : \A layer \in q[i].simulated : IsArmed(pl, i, layer)

\* What is asked for is armed by the time its request is sent, unless a record says otherwise.
Asked(name, m) == m.type = "arm" => m.step \in At(name) /\ m.layer \in LayersAt(name, m.step)
Acked(pl, m) == m.type = "ack" /\ m.granted => IsArmed(pl, m.step, m.layer)
Prepared(name, h, pl) ==
  \A i \in At(name) : DoAt(name, i) = "send" =>
    /\ i < h.at \/ (i = h.at /\ h.pc = "awaiting") => \A layer \in LayersAt(name, i) : IsArmed(pl, i, layer)
    /\ i = h.at /\ h.pc = "arming" => \A layer \in LayersAt(name, i) \ ToSet(h.todo) : IsArmed(pl, i, layer)
Asking(name, h, d, u, pl, r) ==
  /\ \A m \in ToSet(d) : Asked(name, m)
  /\ \A m \in ToSet(u) : Acked(pl, m)
  /\ Granting(r) => Prepared(name, h, pl)

\* The last step of C1 and C2 is a probe; nothing is armed once it has been asked for.
FinalStep(name) == Len(Body(name))
FinalAsked(name, h) == (h.at = FinalStep(name) /\ h.pc = "probing") \/ h.at > FinalStep(name)
FinalProbe(name, m) == m.type = "probe" /\ m.step = FinalStep(name)
Telling(name, h, d, u, pl, t) ==
  /\ \A k \in DOMAIN d : FinalProbe(name, d[k]) =>
        FinalAsked(name, h) /\ \A j \in DOMAIN d : j > k => d[j].type # "arm"
  /\ \A m \in ToSet(u) : FinalProbe(name, m) =>
        FinalAsked(name, h) /\ NoArmIn(d) /\ (m.stats.armed = m.stats.consumed => AllConsumed(pl))
  /\ h.at > FinalStep(name) /\ t # NoProbe =>
        NoArmIn(d) /\ (t.armed = t.consumed => AllConsumed(pl))

ArmHolds(name, h, d, u, pl, q, r, t) ==
  /\ ArmTypes(name, h, d, u, pl, q, r) /\ InOrder(name, h, q) /\ AsForked(name, pl, d)
  /\ name \in {"C1", "C2"} => Taking(name, pl, q) /\ Asking(name, h, d, u, pl, r) /\ Telling(name, h, d, u, pl, t)

CollapseInv ==
  /\ arm \in 1..5 /\ clock \in Nat
  /\ ArmHolds(Name, harness, down, up, plane, seen, records, quiet)

-----------------------------------------------------------------------------
(* The bodies of the arms                                                  *)

LEMMA ArmKnown ==
  ASSUME arm \in 1..5
  PROVE  Name \in Names /\ Name = ArmNames[arm] /\ Len(ArmNames) = 5
BY DEF Name, Names, ArmNames

LEMMA Concatenated ==
  ASSUME NEW S, NEW a \in Seq(S), NEW b \in Seq(S)
  PROVE  /\ a \o b \in Seq(S) /\ Len(a \o b) = Len(a) + Len(b) /\ Len(a) \in Nat /\ Len(b) \in Nat
         /\ \A i \in 1..Len(a) : (a \o b)[i] = a[i]
         /\ \A i \in 1..Len(b) : (a \o b)[Len(a) + i] = b[i]
<1> DEFINE m == Len(a)
           n == Len(b)
           c == a \o b
<1>1. m \in Nat /\ n \in Nat BY LenProperties
<1>2. /\ c \in Seq(S) /\ Len(c) = m + n
      /\ \A i \in 1..m + n : c[i] = IF i <= m THEN a[i] ELSE b[i - m]
  BY ConcatProperties
<1> HIDE DEF m, n, c
<1>3. ASSUME NEW i \in 1..m PROVE c[i] = a[i] BY <1>1, <1>2
<1>4. ASSUME NEW i \in 1..n PROVE c[m + i] = b[i]
  <2>1. m + i \in 1..m + n /\ ~(m + i <= m) /\ (m + i) - m = i BY ONLY <1>1, i \in 1..n
  <2> QED BY <1>2, <2>1
<1> QED BY <1>1, <1>2, <1>3, <1>4 DEF m, n, c

LEMMA SendsAreSteps ==
  ASSUME NEW what \in Fixtures, NEW layers \in Seq(BothLayers), NEW ph \in PhaseNames,
         "l1" \in ToSet(layers) => what.l1 = "reject"
  PROVE  /\ SendStep(sendForced(what, layers, ph))
         /\ sendForced(what, layers, ph).what = what /\ sendForced(what, layers, ph).phase = ph
BY DEF sendForced, Send, SendStep

LEMMA FixturesDiffer ==
  /\ FormFixture \in Fixtures /\ SemFixture \in Fixtures /\ Fabricated \in Fixtures /\ FormPage \in Fixtures
  /\ FormFixture.l1 = "reject" /\ SemFixture.l1 = "reject"
  /\ Fabricated # FormPage /\ SemFixture # FormPage /\ FormFixture # FormPage
  /\ FormFixture # Fabricated /\ SemFixture # Fabricated
BY DEF Fixtures, FormFixture, SemFixture, Fabricated, FormPage

LEMMA LayerSequences ==
  /\ <<>> \in Seq(BothLayers) /\ <<"l1">> \in Seq(BothLayers) /\ <<"l2">> \in Seq(BothLayers)
  /\ <<"l1", "l2">> \in Seq(BothLayers) /\ ToSet(<<>>) = {} /\ ToSet(<<"l2">>) = {"l2"}
BY DEF BothLayers, ToSet

LEMMA PlainSend ==
  ASSUME NEW what \in Fixtures
  PROVE  LET b == Send(what, <<>>) IN
         SendStep(b) /\ b.what = what /\ b.layers = <<>> /\ b.phase = "natural" /\ b.own = FALSE
<1>1. <<>> \in Seq(BothLayers) /\ ~("l1" \in ToSet(<<>>)) BY LayerSequences
<1> QED BY <1>1 DEF Send, SendStep, PhaseNames

\* C0r and C0: a request, and one under an arm that nobody grants.
LEMMA NormalBody ==
  ASSUME NEW name \in {"C0r", "C0"}
  PROVE  /\ Len(Body(name)) = 2 /\ DOMAIN Body(name) = 1..2
         /\ \A i \in 1..2 : BodyStep(name, Body(name)[i])
<1>1. Body(name) = <<Send(Fabricated, <<>>), sendUnderArmAttempt>> BY DEF Body
<1>2. SendStep(Send(Fabricated, <<>>)) /\ Send(Fabricated, <<>>).what = Fabricated /\ Send(Fabricated, <<>>).layers = <<>>
  BY PlainSend, FixturesDiffer
<1>3. SendStep(sendUnderArmAttempt) /\ sendUnderArmAttempt.what = SemFixture /\ sendUnderArmAttempt.layers = <<>>
  <2>1. <<>> \in Seq(BothLayers) /\ ~("l1" \in ToSet(<<>>)) BY LayerSequences
  <2> DEFINE r == Send(SemFixture, <<>>)
  <2>2. /\ r \in [do : {"send"}, what : Fixtures, layers : Seq(BothLayers), phase : PhaseNames, own : BOOLEAN]
        /\ r.do = "send" /\ r.what = SemFixture /\ r.layers = <<>> /\ r.own = FALSE
    BY <2>1, FixturesDiffer DEF Send, PhaseNames
  <2> HIDE DEF r
  <2> DEFINE z == [r EXCEPT !.phase = "attempt"]
  <2>3. z.do = "send" /\ z.what = SemFixture /\ z.layers = <<>> /\ z.own = FALSE /\ z.phase = "attempt" BY <2>2
  <2>4. sendUnderArmAttempt = z BY DEF r, sendUnderArmAttempt
  <2> HIDE DEF z
  <2>5. SendStep(z)
    <3>1. z.own \in BOOLEAN BY <2>3, Zenon
    <3>2. z.do = "send" /\ z.what \in Fixtures /\ z.layers \in Seq(BothLayers) /\ z.phase \in PhaseNames
      BY <2>1, <2>3, FixturesDiffer DEF PhaseNames
    <3>3. ~("l1" \in ToSet(z.layers)) BY <2>1, <2>3
    <3> QED BY <3>1, <3>2, <3>3 DEF SendStep
  <2>6. SendStep(sendUnderArmAttempt) BY ONLY <2>4, <2>5, Zenon
  <2> QED BY <2>3, <2>4, <2>6
<1>4. Len(Body(name)) = 2 /\ DOMAIN Body(name) = 1..2 BY <1>1
<1>5. Body(name)[1] = Send(Fabricated, <<>>) /\ Body(name)[2] = sendUnderArmAttempt BY <1>1
<1>6. BodyStep(name, Send(Fabricated, <<>>)) BY <1>2, FixturesDiffer DEF BodyStep
<1>7. BodyStep(name, sendUnderArmAttempt) BY <1>3, FixturesDiffer DEF BodyStep
<1>8. ASSUME NEW i \in 1..2 PROVE BodyStep(name, Body(name)[i])
  <2>1. i = 1 \/ i = 2 OBVIOUS
  <2> QED BY <1>5, <1>6, <1>7, <2>1, Zenon
<1> QED BY <1>4, <1>8

\* C1 and C2: probes around requests; C1 forces nothing but the reviewed fixtures.
LEMMA CollapseBodies ==
  ASSUME NEW name \in {"C1", "C2"}
  PROVE  /\ Len(Body(name)) \in Nat \ {0} /\ DOMAIN Body(name) = 1..Len(Body(name))
         /\ \A i \in 1..Len(Body(name)) : BodyStep(name, Body(name)[i])
         /\ Body(name)[Len(Body(name))] = Probe
         /\ name = "C1" => \A i \in 1..Len(Body(name)) :
              Body(name)[i].do = "send" /\ Body(name)[i].phase \in {"collapse", "collapse_burst"} =>
                Body(name)[i].what \in {FormFixture, SemFixture}
<1> DEFINE layers == IF name = "C2" THEN <<"l1", "l2">> ELSE <<"l1">>
           a == sendForced(FormFixture, layers, "collapse")
           b == sendForced(SemFixture, layers, "collapse")
           second == <<"l2">>
           first == <<"l1">>
           c == sendForced(Fabricated, second, "collapse")
           d == sendForced(FormFixture, first, "collapse_burst")
           e == Send(Fabricated, <<>>)
           S == {Probe, a, b, c, d, e}
           mid == IF name = "C2" THEN <<c>> ELSE <<d, e>>
           front == <<Probe, a, b>>
           last == <<Probe>>
<1>0. "collapse" \in PhaseNames /\ "collapse_burst" \in PhaseNames BY DEF PhaseNames
<1>1. layers \in Seq(BothLayers)
  <2>1. CASE name = "C1" BY <2>1, LayerSequences
  <2>2. CASE name = "C2" BY <2>2, LayerSequences
  <2> QED BY <2>1, <2>2
<1>20. second \in Seq(BothLayers) /\ ~("l1" \in ToSet(second)) /\ first \in Seq(BothLayers) BY LayerSequences
<1> HIDE DEF layers, first, second
<1>2. SendStep(a) /\ a.what = FormFixture /\ a.phase # "attempt" BY <1>0, <1>1, SendsAreSteps, FixturesDiffer
<1>3. SendStep(b) /\ b.what = SemFixture /\ b.phase # "attempt" BY <1>0, <1>1, SendsAreSteps, FixturesDiffer
<1>4. SendStep(c) /\ c.phase # "attempt" BY <1>0, <1>20, SendsAreSteps, FixturesDiffer
<1>5. SendStep(d) /\ d.what = FormFixture /\ d.phase # "attempt" BY <1>0, <1>20, SendsAreSteps, FixturesDiffer
<1>6. SendStep(e) /\ e.phase = "natural" /\ e.phase # "attempt" BY PlainSend, FixturesDiffer
<1>7. Probe.do = "probe" BY DEF Probe
<1>8. Body(name) = front \o mid \o last
  <2>1. CASE name = "C1" BY <2>1 DEF Body, bodyCollapse, layers, first, second
  <2>2. CASE name = "C2" BY <2>2 DEF Body, bodyCollapse, layers, first, second
  <2> QED BY <2>1, <2>2
<1> HIDE DEF a, b, c, d, e
<1>9. front \in Seq(S) /\ mid \in Seq(S) /\ last \in Seq(S) /\ Len(last) = 1 /\ last[1] = Probe
  <2>1. <<c>> \in Seq(S) /\ <<d, e>> \in Seq(S) OBVIOUS
  <2>2. mid = <<c>> \/ mid = <<d, e>> OBVIOUS
  <2>3. mid \in Seq(S) BY <2>1, <2>2
  <2> QED BY <2>3
<1> DEFINE y == front \o mid
<1>21. y = front \o mid OBVIOUS
<1> HIDE DEF mid, front, last, S, y
<1>10. y \o last \in Seq(S) /\ Len(y \o last) = Len(y) + 1 /\ Len(y) \in Nat /\ (y \o last)[Len(y) + 1] = Probe
  <2>1. y \in Seq(S) /\ Len(y) \in Nat
    <3>1. front \in Seq(S) /\ mid \in Seq(S) BY <1>9
    <3>2. front \o mid \in Seq(S) BY <3>1, Concatenated
    <3> QED BY <3>2, LenProperties DEF y
  <2>2. 1 \in 1..Len(last) /\ last \in Seq(S) BY <1>9
  <2>3. /\ y \o last \in Seq(S) /\ Len(y \o last) = Len(y) + Len(last)
        /\ \A i \in 1..Len(last) : (y \o last)[Len(y) + i] = last[i]
    BY <2>1, <2>2, Concatenated
  <2> QED BY <1>9, <2>1, <2>2, <2>3
<1> DEFINE z == Body(name)
<1>11. z \in Seq(S) /\ Len(z) \in Nat \ {0} /\ z[Len(z)] = Probe BY <1>8, <1>10, <1>21
<1> HIDE DEF z
<1>12. DOMAIN z = 1..Len(z) /\ \A i \in 1..Len(z) : z[i] \in S BY <1>11, LenProperties, ElementOfSeq
<1>13. ASSUME NEW s \in S PROVE BodyStep(name, s)
  <2>1. s = Probe \/ (SendStep(s) /\ s.phase # "attempt") BY <1>2, <1>3, <1>4, <1>5, <1>6, Zenon DEF S
  <2> QED BY <2>1 DEF BodyStep
<1>14. ASSUME name = "C1", NEW i \in 1..Len(z), z[i].do = "send", z[i].phase \in {"collapse", "collapse_burst"}
       PROVE  z[i].what \in {FormFixture, SemFixture}
  <2>1. /\ front = <<Probe, a, b>> /\ mid = <<d, e>> /\ last = <<Probe>> BY <1>14 DEF front, mid, last
  <2>2. z \in Seq({Probe, a, b, d, e})
    <3> DEFINE R == {Probe, a, b, d, e}
    <3>1. front \in Seq(R) /\ mid \in Seq(R) /\ last \in Seq(R) BY <2>1
    <3> HIDE DEF R
    <3>2. front \o mid \in Seq(R) BY <3>1, Concatenated
    <3>4. y \in Seq(R) BY <1>21, <3>2
    <3>5. last \in Seq(R) BY <3>1
    <3>6. y \o last \in Seq(R) BY <3>4, <3>5, Concatenated
    <3>3. front \o mid \o last \in Seq(R) BY <1>21, <3>6
    <3> QED BY <1>8, <3>3 DEF z, R
  <2>3. z[i] \in {Probe, a, b, d, e} BY <2>2, ElementOfSeq
  <2>4. z[i] # Probe /\ z[i] # e BY <1>6, <1>7, <1>14
  <2> QED BY <1>2, <1>3, <1>5, <2>3, <2>4
<1>15. \A i \in 1..Len(z) : BodyStep(name, z[i]) BY <1>12, <1>13
<1> QED BY <1>11, <1>12, <1>14, <1>15 DEF z

\* C2p: a fault before each group of requests; the third step renders the form.
LEMMA FaultBody ==
  LET b == Body("C2p") IN
  /\ Len(b) = 9 + L2Places /\ DOMAIN b = 1..(9 + L2Places) /\ L2Places \in Nat /\ Len(bodyC2p) = 9 + L2Places
  /\ \A i \in 1..(9 + L2Places) : BodyStep("C2p", b[i])
  /\ b[1].do = "fault" /\ b[5].do = "fault" /\ b[7 + L2Places].do = "fault" /\ b[3].what = FormPage
<1> DEFINE post == Send(Fabricated, <<>>)
           page == Send(FormPage, <<>>)
           own == [post EXCEPT !.own = TRUE]
           f1 == Fault("l2", "throw", 3)
           f2 == Fault("l2", "hang", L2Places)
           f3 == Fault("l1", "throw", 1)
           S == {post, page, own, f1, f2, f3}
           front == <<f1, post, page, post, f2>>
           mid == [i \in 1..(L2Places + 1) |-> post]
           last == <<f3, post, own>>
           z == Body("C2p")
<1>1. L2Places \in Nat BY CollapseAssumption
<1>2. z = front \o mid \o last /\ z = bodyC2p BY DEF Body, bodyC2p
<1>3. SendStep(post) /\ post.layers = <<>> /\ post.what = Fabricated BY PlainSend, FixturesDiffer
<1>4. SendStep(page) /\ page.layers = <<>> /\ page.what = FormPage BY PlainSend, FixturesDiffer
<1>5. SendStep(own) /\ own.layers = <<>> /\ own.what = Fabricated
  <2>1. <<>> \in Seq(BothLayers) /\ ~("l1" \in ToSet(<<>>)) BY LayerSequences
  <2>2. /\ post \in [do : {"send"}, what : Fixtures, layers : Seq(BothLayers), phase : PhaseNames, own : BOOLEAN]
        /\ post.layers = <<>> /\ post.what = Fabricated
    BY <2>1, FixturesDiffer DEF Send, PhaseNames
  <2> HIDE DEF post
  <2>3. /\ own.do = "send" /\ own.what \in Fixtures /\ own.what = Fabricated /\ own.layers = <<>>
        /\ own.phase \in PhaseNames /\ own.own = TRUE
    BY <2>2
  <2>4. own.own \in BOOLEAN BY <2>3, Zenon
  <2> HIDE DEF own
  <2>5. own.layers \in Seq(BothLayers) /\ ~("l1" \in ToSet(own.layers)) BY <2>1, <2>3
  <2>6. SendStep(own) BY <2>3, <2>4, <2>5 DEF SendStep
  <2> QED BY <2>3, <2>6
<1>6. /\ FaultStep(f1) /\ FaultStep(f2) /\ FaultStep(f3)
      /\ f1.do = "fault" /\ f2.do = "fault" /\ f3.do = "fault"
  BY <1>1 DEF Fault, FaultStep, BothLayers
<1>7. /\ front \in Seq(S) /\ Len(front) = 5 /\ front[1] = f1 /\ front[3] = page /\ front[5] = f2
      /\ last \in Seq(S) /\ Len(last) = 3 /\ last[1] = f3
  OBVIOUS
<1> HIDE DEF post, page, own, f1, f2, f3, front, last, z
<1>8. mid \in Seq(S) /\ Len(mid) = L2Places + 1
  <2>1. L2Places + 1 \in Nat BY <1>1
  <2>2. mid \in [1..(L2Places + 1) -> S] OBVIOUS
  <2>3. mid \in Seq(S) BY <2>1, <2>2, SeqDef
  <2> QED BY <2>1, <2>3, LenProperties
<1> HIDE DEF mid, S
<1> DEFINE y == front \o mid
<1>9. /\ y \in Seq(S) /\ Len(y) = Len(front) + Len(mid)
      /\ \A i \in 1..Len(front) : y[i] = front[i]
  BY <1>7, <1>8, Concatenated
<1> HIDE DEF y
<1>10. /\ y \o last \in Seq(S) /\ Len(y \o last) = Len(y) + Len(last)
       /\ \A i \in 1..Len(y) : (y \o last)[i] = y[i]
       /\ \A i \in 1..Len(last) : (y \o last)[Len(y) + i] = last[i]
  <2>1. y \in Seq(S) /\ last \in Seq(S) BY <1>7, <1>9
  <2> QED BY <2>1, Concatenated
<1>11. z = y \o last BY <1>2 DEF y
<1>12. Len(y) = 6 + L2Places /\ Len(z) = 9 + L2Places BY <1>1, <1>7, <1>8, <1>9, <1>10, <1>11
<1>13. z[1] = f1 /\ z[3] = page /\ z[5] = f2
  <2>1. \A i \in 1..5 : i \in 1..Len(y) /\ i \in 1..Len(front) BY <1>1, <1>7, <1>12
  <2>2. \A i \in 1..5 : z[i] = front[i] BY <1>9, <1>10, <1>11, <2>1
  <2> QED BY <1>7, <2>2
<1>14. z[7 + L2Places] = f3
  <2>1. Len(y) + 1 = 7 + L2Places /\ 1 \in 1..Len(last) BY <1>1, <1>7, <1>12
  <2>2. (y \o last)[Len(y) + 1] = last[1] BY <1>10, <2>1
  <2> QED BY <1>7, <1>11, <2>1, <2>2
<1>15. z \in Seq(S) BY <1>10, <1>11
<1>16. DOMAIN z = 1..(9 + L2Places) /\ \A i \in 1..(9 + L2Places) : z[i] \in S
  BY <1>12, <1>15, LenProperties, ElementOfSeq
<1>17. ASSUME NEW s \in S PROVE BodyStep("C2p", s)
  <2>1. FaultStep(s) \/ (SendStep(s) /\ s.layers = <<>> /\ s.what \in {Fabricated, FormPage})
    BY <1>3, <1>4, <1>5, <1>6, Zenon DEF S
  <2> QED BY <2>1 DEF BodyStep
<1>18. \A i \in 1..(9 + L2Places) : BodyStep("C2p", z[i]) BY <1>16, <1>17
<1>19. Len(bodyC2p) = 9 + L2Places BY <1>2, <1>12
<1> QED BY <1>1, <1>4, <1>6, <1>12, <1>13, <1>14, <1>16, <1>18, <1>19 DEF z

LEMMA BodyFacts ==
  ASSUME NEW name \in Names
  PROVE  /\ Len(Body(name)) \in Nat \ {0} /\ DOMAIN Body(name) = At(name)
         /\ \A i \in At(name) : BodyStep(name, Body(name)[i])
         /\ name \in {"C1", "C2"} => FinalStep(name) \in At(name) /\ Body(name)[FinalStep(name)] = Probe
<1>1. CASE name \in {"C0r", "C0"} BY <1>1, NormalBody DEF At
<1>2. CASE name \in {"C1", "C2"}
  <2>1. /\ Len(Body(name)) \in Nat \ {0} /\ DOMAIN Body(name) = 1..Len(Body(name))
        /\ \A i \in 1..Len(Body(name)) : BodyStep(name, Body(name)[i])
        /\ Body(name)[Len(Body(name))] = Probe
    BY <1>2, CollapseBodies
  <2>2. Len(Body(name)) \in 1..Len(Body(name)) BY <2>1
  <2> QED BY <2>1, <2>2 DEF At, FinalStep
<1>3. CASE name = "C2p"
  <2>1. /\ Len(Body(name)) = 9 + L2Places /\ DOMAIN Body(name) = 1..(9 + L2Places) /\ L2Places \in Nat
        /\ \A i \in 1..(9 + L2Places) : BodyStep(name, Body(name)[i])
    BY <1>3, FaultBody
  <2>2. Len(Body(name)) \in Nat \ {0} BY <2>1
  <2> QED BY <1>3, <2>1, <2>2 DEF At
<1> QED BY <1>1, <1>2, <1>3 DEF Names

\* What a step of a body does tells what it carries, and in which arms it may stand.
LEMMA StepKinds ==
  ASSUME NEW name \in Names, NEW i \in At(name)
  PROVE  LET b == Body(name)[i] IN
         /\ b.do \in {"send", "fault", "probe"}
         /\ b.do = "send" => SendStep(b) /\ (name \in {"C1", "C2"} => b.phase # "attempt")
         /\ b.do = "send" /\ name \notin {"C1", "C2"} => b.layers = <<>>
         /\ b.do = "fault" => FaultStep(b) /\ name = "C2p"
         /\ b.do = "probe" => name \in {"C1", "C2"}
         /\ name \in {"C0r", "C0"} => b.what # FormPage
<1> DEFINE b == Body(name)[i]
<1>1. BodyStep(name, b) BY BodyFacts
<1>2. Probe.do = "probe" BY DEF Probe
<1> HIDE DEF b
<1>3. SendStep(b) => b.do = "send" BY DEF SendStep
<1>4. FaultStep(b) => b.do = "fault" BY DEF FaultStep
<1>5. CASE name \in {"C0r", "C0"}
  <2>1. SendStep(b) /\ b.layers = <<>> /\ b.what # FormPage BY <1>1, <1>5 DEF BodyStep
  <2> QED BY <1>3, <1>5, <2>1 DEF b
<1>6. CASE name \in {"C1", "C2"}
  <2>1. b = Probe \/ (SendStep(b) /\ b.phase # "attempt") BY <1>1, <1>6 DEF BodyStep
  <2> QED BY <1>2, <1>3, <1>6, <2>1 DEF b
<1>7. CASE name = "C2p"
  <2>1. FaultStep(b) \/ (SendStep(b) /\ b.layers = <<>>) BY <1>1, <1>7 DEF BodyStep
  <2> QED BY <1>3, <1>4, <1>7, <2>1 DEF b
<1> QED BY <1>5, <1>6, <1>7 DEF Names

-----------------------------------------------------------------------------
(* Pipes                                                                   *)

LEMMA Appended ==
  ASSUME NEW S, NEW s \in Seq(S), NEW m \in S
  PROVE  /\ Append(s, m) \in Seq(S) /\ ToSet(Append(s, m)) = ToSet(s) \union {m}
         /\ DOMAIN Append(s, m) = 1..(Len(s) + 1) /\ DOMAIN s = 1..Len(s) /\ Len(s) \in Nat
         /\ \A k \in 1..Len(s) : Append(s, m)[k] = s[k]
         /\ Append(s, m)[Len(s) + 1] = m
<1> DEFINE z == Append(s, m)
           n == Len(s)
<1>1. /\ z \in Seq(S) /\ Len(z) = n + 1 /\ z[n + 1] = m /\ \A k \in 1..n : z[k] = s[k]
  BY AppendProperties
<1>2. n \in Nat /\ DOMAIN s = 1..n BY LenProperties
<1>3. DOMAIN z = 1..(n + 1) BY <1>1, LenProperties
<1> HIDE DEF z, n
<1>4. ToSet(z) = {z[k] : k \in 1..(n + 1)} /\ ToSet(s) = {s[k] : k \in 1..n} BY <1>2, <1>3 DEF ToSet
<1>5. 1..(n + 1) = 1..n \union {n + 1} BY <1>2
<1>6. ToSet(z) = ToSet(s) \union {m} BY <1>1, <1>4, <1>5
<1> QED BY <1>1, <1>2, <1>3, <1>6 DEF z, n

LEMMA HeadTaken ==
  ASSUME NEW S, NEW s \in Seq(S), s # <<>>
  PROVE  /\ Tail(s) \in Seq(S) /\ Head(s) \in S /\ Head(s) \in ToSet(s) /\ ToSet(Tail(s)) \subseteq ToSet(s)
         /\ Head(s) = s[1] /\ 1 \in DOMAIN s /\ DOMAIN s = 1..Len(s) /\ Len(s) \in Nat
         /\ \A k \in DOMAIN Tail(s) : k \in Nat /\ k + 1 \in DOMAIN s /\ k + 1 > 1 /\ Tail(s)[k] = s[k + 1]
<1> DEFINE z == Tail(s)
           n == Len(s)
<1>1. z \in Seq(S) /\ Head(s) \in S /\ Len(z) = n - 1 /\ \A k \in 1..Len(z) : z[k] = s[k + 1]
  BY HeadTailProperties
<1>2. n \in Nat /\ DOMAIN s = 1..n /\ DOMAIN z = 1..Len(z) /\ Len(z) \in Nat
  <2>1. n \in Nat /\ DOMAIN s = 1..n BY LenProperties
  <2> HIDE DEF z, n
  <2>2. DOMAIN z = 1..Len(z) /\ Len(z) \in Nat BY <1>1, LenProperties
  <2> QED BY <2>1, <2>2
<1>3. Head(s) = s[1] OBVIOUS
<1> HIDE DEF z, n
<1>4. 1 \in 1..n BY <1>1, <1>2
<1>5. \A k \in 1..Len(z) : k \in Nat /\ k + 1 \in 1..n /\ k + 1 > 1 BY <1>1, <1>2
<1>6. ToSet(z) \subseteq ToSet(s) BY <1>1, <1>2, <1>5 DEF ToSet
<1>7. s[1] \in ToSet(s) BY <1>2, <1>4 DEF ToSet
<1> QED BY <1>1, <1>2, <1>3, <1>4, <1>5, <1>6, <1>7 DEF z, n

-----------------------------------------------------------------------------
(* The order of the requests                                               *)

LEMMA OrderAdvances ==
  ASSUME NEW name \in Names, NEW h \in HarnessType, NEW q, InOrder(name, h, q), h.at \in At(name)
  PROVE  LET g == Advance(h) IN
         g \in HarnessType /\ g.at = h.at + 1 /\ g.pc = "next" /\ InOrder(name, g, q)
<1> DEFINE g == Advance(h)
<1>1. <<>> \in Seq(BothLayers) BY LayerSequences
<1>2. g \in HarnessType /\ g.at = h.at + 1 /\ g.pc = "next"
  <2>1. h.at \in Nat /\ h.at + 1 \in Nat \ {0} BY DEF HarnessType
  <2> DEFINE n == h.at + 1
  <2>2. g = [h EXCEPT !.at = n, !.pc = "next", !.todo = <<>>] BY DEF Advance
  <2> HIDE DEF g, n
  <2>3. n \in Nat \ {0} BY <2>1 DEF n
  <2>4. g \in HarnessType /\ g.at = n /\ g.pc = "next" BY <1>1, <2>2, <2>3 DEF HarnessType
  <2> QED BY <2>4 DEF n
<1>3. h.at \in Nat /\ Len(Body(name)) \in Nat /\ h.at <= Len(Body(name)) BY BodyFacts DEF At, HarnessType
<1> HIDE DEF g
<1>4. \A i \in At(name) : i > g.at \/ (i = g.at /\ g.pc # "awaiting") => q[i].pc = "none"
  <2>1. \A i \in At(name) : i \in Nat BY DEF At
  <2>2. \A i \in At(name) : i > h.at => q[i].pc = "none" BY DEF InOrder
  <2> QED BY <1>2, <1>3, <2>1, <2>2
<1>5. g.at <= Len(Body(name)) + 1 BY <1>2, <1>3
<1> QED BY <1>2, <1>4, <1>5 DEF InOrder, g

\* AskFor()
LEMMA OrderAsks ==
  ASSUME NEW name \in Names, NEW h \in HarnessType, NEW q, InOrder(name, h, q),
         h.at \in At(name), DoAt(name, h.at) = "send", h.pc # "awaiting",
         NEW todo \in Seq(BothLayers), todo # <<>>, ToSet(todo) \subseteq LayersAt(name, h.at), NEW n \in Nat
  PROVE  LET g == [h EXCEPT !.pc = "arming", !.todo = todo, !.since = n] IN
         g \in HarnessType /\ g.at = h.at /\ g.pc = "arming" /\ g.todo = todo /\ InOrder(name, g, q)
<1> DEFINE g == [h EXCEPT !.pc = "arming", !.todo = todo, !.since = n]
<1>1. g \in HarnessType /\ g.at = h.at /\ g.pc = "arming" /\ g.todo = todo BY DEF HarnessType
<1> HIDE DEF g
<1>2. InOrder(name, g, q) BY <1>1 DEF InOrder
<1> QED BY <1>1, <1>2 DEF g

\* AskProbe
LEMMA OrderProbes ==
  ASSUME NEW name \in Names, NEW h \in HarnessType, NEW q, InOrder(name, h, q),
         h.at \in At(name), DoAt(name, h.at) = "probe", h.pc = "next"
  PROVE  LET g == [h EXCEPT !.pc = "probing"] IN
         g \in HarnessType /\ g.at = h.at /\ g.pc = "probing" /\ InOrder(name, g, q)
<1> DEFINE g == [h EXCEPT !.pc = "probing"]
<1>1. g \in HarnessType /\ g.at = h.at /\ g.pc = "probing" BY DEF HarnessType
<1> HIDE DEF g
<1>2. InOrder(name, g, q) BY <1>1 DEF InOrder
<1> QED BY <1>1, <1>2 DEF g

\* One request is at another point of its handler.
LEMMA OneRequest ==
  ASSUME NEW name \in Names, NEW q \in [At(name) -> TraceType], NEW h, InOrder(name, h, q),
         NEW i \in At(name), NEW z \in TraceType, Traced(name, Body(name)[i], z),
         z.pc = "none" \/ ~(i > h.at \/ (i = h.at /\ h.pc # "awaiting"))
  PROVE  [q EXCEPT ![i] = z] \in [At(name) -> TraceType] /\ InOrder(name, h, [q EXCEPT ![i] = z])
<1> DEFINE w == [q EXCEPT ![i] = z]
<1>1. w \in [At(name) -> TraceType] /\ w[i] = z /\ \A j \in At(name) : j # i => w[j] = q[j] OBVIOUS
<1> HIDE DEF w
<1>2. ASSUME NEW j \in At(name) PROVE Traced(name, Body(name)[j], w[j])
  <2>1. CASE j = i BY <1>1, <2>1, Zenon
  <2>2. CASE j # i
    <3>1. w[j] = q[j] /\ Traced(name, Body(name)[j], q[j]) BY <1>1, <2>2 DEF InOrder
    <3> QED BY <3>1, Zenon
  <2> QED BY <2>1, <2>2
<1>3. ASSUME NEW j \in At(name), j > h.at \/ (j = h.at /\ h.pc # "awaiting") PROVE w[j].pc = "none"
  <2>1. CASE j = i BY <1>1, <1>3, <2>1
  <2>2. CASE j # i BY <1>1, <1>3, <2>2 DEF InOrder
  <2> QED BY <2>1, <2>2
<1>4. InOrder(name, h, w)
  <2>1. /\ h.at <= Len(Body(name)) + 1
        /\ h.pc \in {"arming", "awaiting"} => h.at \in At(name) /\ DoAt(name, h.at) = "send"
        /\ h.pc = "probing" => h.at \in At(name) /\ DoAt(name, h.at) = "probe"
        /\ h.pc = "arming" => h.todo # <<>> /\ ToSet(h.todo) \subseteq LayersAt(name, h.at)
    BY DEF InOrder
  <2> QED BY ONLY <1>2, <1>3, <2>1 DEF InOrder
<1> QED BY <1>1, <1>4 DEF w

\* Transmit(): the handler of the request begins.
LEMMA OrderTransmits ==
  ASSUME NEW name \in Names, NEW h \in HarnessType, NEW q \in [At(name) -> TraceType], InOrder(name, h, q),
         h.at \in At(name), DoAt(name, h.at) = "send", h.pc # "awaiting", NEW todo \in Seq(BothLayers), NEW n \in Nat
  PROVE  LET g == [h EXCEPT !.todo = todo, !.pc = "awaiting", !.sent = n]
             w == [q EXCEPT ![h.at].pc = "l1"] IN
         /\ g \in HarnessType /\ g.at = h.at /\ g.pc = "awaiting" /\ InOrder(name, g, w)
         /\ w \in [At(name) -> TraceType] /\ \A j \in At(name) : w[j].simulated = q[j].simulated
<1> DEFINE g == [h EXCEPT !.todo = todo, !.pc = "awaiting", !.sent = n]
           w == [q EXCEPT ![h.at].pc = "l1"]
           z == [q[h.at] EXCEPT !.pc = "l1"]
           y == q[h.at]
<1>1. g \in HarnessType /\ g.at = h.at /\ g.pc = "awaiting" BY DEF HarnessType
<1>2. w = [q EXCEPT ![h.at] = z] OBVIOUS
<1>3. y \in TraceType /\ Traced(name, Body(name)[h.at], y) /\ y.pc = "none" BY DEF InOrder, HarnessType, At
<1>4. SendStep(Body(name)[h.at]) BY StepKinds DEF DoAt
<1>5. z \in TraceType /\ Traced(name, Body(name)[h.at], z) /\ z.simulated = y.simulated
  <2>1. Untraced(y) BY <1>3 DEF Traced
  <2> HIDE DEF y
  <2> DEFINE x == [y EXCEPT !.pc = "l1"]
  <2>2. /\ x \in TraceType /\ x.pc = "l1" /\ x.l1 = y.l1 /\ x.l2 = y.l2 /\ x.lane = y.lane /\ x.why = y.why
        /\ x.simulated = y.simulated /\ x.failed = y.failed /\ x.end = y.end
    BY <1>3 DEF TraceType
  <2> HIDE DEF x
  <2>3. Untraced(x) BY <2>1, <2>2 DEF Untraced
  <2>4. Traced(name, Body(name)[h.at], x) BY <1>4, <2>2, <2>3 DEF Traced, Untraced
  <2>5. z = x BY DEF x, y
  <2> QED BY <2>2, <2>4, <2>5
<1> HIDE DEF z, y, w, g
<1>6. InOrder(name, g, q)
  <2>1. \A i \in At(name) : i > h.at \/ (i = h.at /\ h.pc # "awaiting") => q[i].pc = "none" BY DEF InOrder
  <2> QED BY <1>1, <2>1 DEF InOrder
<1>7. ~(h.at > g.at \/ (h.at = g.at /\ g.pc # "awaiting")) BY <1>1 DEF HarnessType
<1>8. w \in [At(name) -> TraceType] /\ InOrder(name, g, w)
  <2>1. /\ [q EXCEPT ![h.at] = z] \in [At(name) -> TraceType]
        /\ InOrder(name, g, [q EXCEPT ![h.at] = z])
    BY <1>5, <1>6, <1>7, OneRequest
  <2> QED BY <1>2, <2>1
<1>9. \A j \in At(name) : w[j].simulated = q[j].simulated BY <1>2, <1>5 DEF y
<1> QED BY <1>1, <1>8, <1>9 DEF w, g

-----------------------------------------------------------------------------
(* The handler of a request                                                *)

\* The record of a request after each of its points.
AfterL1(name, y, real, forced) ==
  [y EXCEPT !.pc = IF real = "pass" \/ forced THEN (IF HasL2(name) THEN "l2" ELSE "egress") ELSE "done",
            !.l1 = IF forced THEN "simulated_pass" ELSE real,
            !.simulated = IF forced THEN {"l1"} ELSE {}, !.failed = real = "error"]
AfterEgress(y, end) == [y EXCEPT !.pc = "done", !.end = end]

\* The first layer, through the seam of the override.
LEMMA TraceL1 ==
  ASSUME NEW name \in Names, NEW b, NEW y \in TraceType, y.pc = "l1", Traced(name, b, y),
         NEW real, real = "error" \/ (real = b.what.l1 /\ real \in {"pass", "reject"}), name # "C2p" => real # "error",
         NEW forced \in BOOLEAN, forced => real = "reject"
  PROVE  LET z == AfterL1(name, y, real, forced) IN
         /\ z \in TraceType /\ Traced(name, b, z) /\ z.pc # "none"
         /\ z.simulated = IF forced THEN y.simulated \union {"l1"} ELSE y.simulated
<1> DEFINE next == IF HasL2(name) THEN "l2" ELSE "egress"
           sim == IF forced THEN {"l1"} ELSE {}
           bad == real = "error"
           z == [y EXCEPT !.pc = IF real = "pass" \/ forced THEN next ELSE "done",
                          !.l1 = IF forced THEN "simulated_pass" ELSE real,
                          !.simulated = sim, !.failed = bad]
<1>1. SendStep(b) /\ Untraced(y) BY DEF Traced
<1>2. (next = "l2" /\ HasL2(name)) \/ (next = "egress" /\ ~HasL2(name)) OBVIOUS
<1>3. y.simulated \union {"l1"} = {"l1"} /\ y.simulated = {} BY <1>1 DEF Untraced
<1>4. sim \in SUBSET BothLayers /\ ("l1" \in sim <=> forced) BY DEF BothLayers
<1>5. bad \in BOOLEAN /\ (bad <=> real = "error") OBVIOUS
<1> HIDE DEF next, sim, bad
<1>6. /\ z \in TraceType /\ z.l2 = y.l2 /\ z.lane = y.lane /\ z.why = y.why /\ z.end = y.end
      /\ z.pc = IF real = "pass" \/ forced THEN next ELSE "done"
      /\ z.l1 = IF forced THEN "simulated_pass" ELSE real
      /\ z.simulated = sim /\ z.failed = bad
  BY <1>2, <1>4, <1>5 DEF TraceType
<1> HIDE DEF z
<1>7. z.failed <=> real = "error" BY <1>5, <1>6, Zenon
<1>8. z.l2 = "none" /\ z.lane = "none" /\ z.why = "none" /\ z.end = "none" BY <1>1, <1>6 DEF Untraced
<1>9. z.pc # "none" /\ z.pc # "l1" BY <1>2, <1>6
<1>10. Traced(name, b, z)
  <2>1. CASE forced
    <3>1. z.pc = next /\ z.l1 = "simulated_pass" /\ b.what.l1 = "reject" BY <1>6, <2>1
    <3>2. ~z.failed BY <1>7, <2>1
    <3> QED BY <1>1, <1>2, <1>8, <3>1, <3>2 DEF Traced
  <2>2. CASE ~forced /\ real = "pass"
    <3>1. z.pc = next /\ z.l1 = "pass" /\ ~("l1" \in z.simulated) BY <1>4, <1>6, <2>2
    <3>2. ~z.failed BY <1>7, <2>2
    <3> QED BY <1>1, <1>2, <1>8, <3>1, <3>2 DEF Traced
  <2>3. CASE ~forced /\ real = "reject"
    <3>1. z.pc = "done" /\ z.l1 = "reject" /\ ~("l1" \in z.simulated) BY <1>4, <1>6, <2>3
    <3>2. ~z.failed BY <1>7, <2>3
    <3> QED BY <1>1, <1>8, <3>1, <3>2 DEF Traced
  <2>4. CASE ~forced /\ real = "error"
    <3>1. z.pc = "done" /\ z.l1 = "error" /\ ~("l1" \in z.simulated) BY <1>4, <1>6, <2>4
    <3>2. z.failed /\ name = "C2p" BY <1>7, <2>4
    <3> QED BY <1>1, <1>8, <3>1, <3>2 DEF Traced
  <2> QED BY <2>1, <2>2, <2>3, <2>4
<1>11. z.simulated = IF forced THEN y.simulated \union {"l1"} ELSE y.simulated BY <1>3, <1>6 DEF sim
<1> QED BY <1>6, <1>9, <1>10, <1>11 DEF AfterL1, z, next, sim, bad

Updated(y, to, l, v, w, sim, bad) ==
  [y EXCEPT !.pc = to, !.l2 = l, !.lane = v, !.why = w, !.simulated = sim, !.failed = bad]

LEMMA TraceUpdated ==
  ASSUME NEW y \in TraceType, NEW to \in {"egress", "done"}, NEW l \in {"none", "admitted", "shed", "degraded", "error"},
         NEW v \in {"none", "open", "credited", "unverified"},
         NEW w \in {"none", "throw", "timeout", "evaluator_saturation", "lane_budget"},
         NEW sim \in SUBSET BothLayers, NEW bad \in BOOLEAN
  PROVE  LET x == Updated(y, to, l, v, w, sim, bad) IN
         /\ x \in TraceType /\ x.pc = to /\ x.l1 = y.l1 /\ x.l2 = l /\ x.lane = v /\ x.why = w
         /\ x.simulated = sim /\ x.failed = bad /\ x.end = y.end
<1> DEFINE x1 == [y EXCEPT !.pc = to, !.l2 = l]
           x0 == [x1 EXCEPT !.lane = v]
           x2 == [x0 EXCEPT !.why = w]
           x3 == [x2 EXCEPT !.simulated = sim, !.failed = bad]
           x == Updated(y, to, l, v, w, sim, bad)
<1>1. /\ x1 \in TraceType /\ x1.pc = to /\ x1.l1 = y.l1 /\ x1.l2 = l /\ x1.end = y.end
  BY DEF TraceType
<1>2. x = x3 BY DEF Updated
<1> HIDE DEF x1, x
<1>6. /\ x0 \in TraceType /\ x0.pc = x1.pc /\ x0.l1 = x1.l1 /\ x0.l2 = x1.l2 /\ x0.lane = v /\ x0.end = x1.end
  BY <1>1 DEF TraceType
<1> HIDE DEF x0
<1>3. /\ x2 \in TraceType /\ x2.pc = x0.pc /\ x2.l1 = x0.l1 /\ x2.l2 = x0.l2 /\ x2.lane = x0.lane /\ x2.why = w
      /\ x2.end = x0.end
  BY <1>6 DEF TraceType
<1> HIDE DEF x2
<1>4. /\ x3 \in TraceType /\ x3.pc = x2.pc /\ x3.l1 = x2.l1 /\ x3.l2 = x2.l2 /\ x3.lane = x2.lane /\ x3.why = x2.why
      /\ x3.simulated = sim /\ x3.failed = bad /\ x3.end = x2.end
  BY <1>3 DEF TraceType
<1> HIDE DEF x3
<1>5. /\ x3 \in TraceType /\ x3.pc = to /\ x3.l1 = y.l1 /\ x3.l2 = l /\ x3.lane = v /\ x3.why = w
      /\ x3.simulated = sim /\ x3.failed = bad /\ x3.end = y.end
  BY <1>1, <1>3, <1>4, <1>6
<1> QED BY <1>2, <1>5, Zenon DEF x

\* What a second layer that works may decide, and what one that fails does.
Working == {[l2 |-> "admitted", lane |-> "open", why |-> "none"], [l2 |-> "admitted", lane |-> "credited", why |-> "none"],
            [l2 |-> "admitted", lane |-> "unverified", why |-> "none"],
            [l2 |-> "shed", lane |-> "unverified", why |-> "lane_budget"]}
Failing(d) ==
  /\ d.l2 \in {"degraded", "shed", "error"} /\ d.lane \in {"open", "none"}
  /\ d.why \in {"throw", "timeout", "evaluator_saturation"}

LEMMA TraceL2 ==
  ASSUME NEW name \in Names, NEW b, NEW y \in TraceType, y.pc = "l2", Traced(name, b, y),
         NEW d, NEW fails \in BOOLEAN, IF fails THEN Failing(d) ELSE d \in Working, name # "C2p" => ~fails,
         NEW forced \in BOOLEAN
  PROVE  LET z == Decided(y, d, forced, fails) IN
         /\ z \in TraceType /\ Traced(name, b, z) /\ z.pc # "none"
         /\ z.simulated = IF forced THEN y.simulated \union {"l2"} ELSE y.simulated
<1> DEFINE sim == IF forced THEN y.simulated \union {"l2"} ELSE y.simulated
           bad == y.failed \/ fails
           to == IF forced \/ d.l2 \in {"admitted", "degraded"} THEN "egress" ELSE "done"
           z == [y EXCEPT !.pc = to, !.l2 = d.l2, !.lane = d.lane, !.why = d.why, !.simulated = sim, !.failed = bad]
<1>1. /\ SendStep(b) /\ ~y.failed /\ y.end = "none"
      /\ "l1" \in y.simulated => y.l1 = "simulated_pass" /\ b.what.l1 = "reject"
      /\ y.l1 = "error" => y.failed
  BY DEF Traced
<1>2. /\ d.l2 \in {"admitted", "shed", "degraded", "error"} /\ d.lane \in {"none", "open", "credited", "unverified"}
      /\ d.why \in {"none", "throw", "timeout", "evaluator_saturation", "lane_budget"}
      /\ ~fails => d.l2 \in {"admitted", "shed"} /\ d.why \in {"none", "lane_budget"}
      /\ fails => d.lane # "unverified"
  <2>1. CASE fails BY <2>1 DEF Failing
  <2>2. CASE ~fails BY <2>2 DEF Working
  <2> QED BY <2>1, <2>2
<1>3. y.simulated \in SUBSET BothLayers BY DEF TraceType
<1>4. sim \in SUBSET BothLayers /\ ("l1" \in sim <=> "l1" \in y.simulated) BY <1>3 DEF BothLayers
<1>5. bad \in BOOLEAN /\ (bad <=> fails) BY <1>1, Zenon
<1>6. to \in {"egress", "done"} OBVIOUS
<1> HIDE DEF sim, bad, to
<1> DEFINE l == d.l2
           v == d.lane
           w == d.why
           x == Updated(y, to, l, v, w, sim, bad)
<1>11. z = x BY DEF Updated
<1>12. /\ l \in {"none", "admitted", "shed", "degraded", "error"} /\ v \in {"none", "open", "credited", "unverified"}
       /\ w \in {"none", "throw", "timeout", "evaluator_saturation", "lane_budget"}
  BY <1>2
<1> HIDE DEF l, v, w
<1>13. /\ x \in TraceType /\ x.pc = to /\ x.l1 = y.l1 /\ x.l2 = l /\ x.lane = v /\ x.why = w
       /\ x.simulated = sim /\ x.failed = bad /\ x.end = y.end
  <2>1. y \in TraceType /\ to \in {"egress", "done"} /\ sim \in SUBSET BothLayers /\ bad \in BOOLEAN BY <1>4, <1>5, <1>6
  <2> QED BY ONLY <1>12, <2>1, TraceUpdated
<1> HIDE DEF x, z
<1>7. /\ z \in TraceType /\ z.pc = to /\ z.l1 = y.l1 /\ z.l2 = d.l2 /\ z.lane = d.lane /\ z.why = d.why
      /\ z.simulated = sim /\ z.failed = bad /\ z.end = y.end
  BY <1>11, <1>13 DEF l, v, w
<1> HIDE DEF z
<1>8. z.failed <=> fails BY <1>5, <1>7, Zenon
<1>9. z.l1 # "error" BY <1>1, <1>7
<1>10. Traced(name, b, z)
  <2>1. z.end = "none" /\ z.pc \in {"egress", "done"} /\ z.l2 # "none" BY <1>1, <1>2, <1>6, <1>7
  <2>2. "l1" \in z.simulated => z.l1 = "simulated_pass" /\ b.what.l1 = "reject" BY <1>1, <1>4, <1>7
  <2>3. z.l2 \in {"error", "degraded"} \/ z.why \in {"throw", "timeout", "evaluator_saturation"} => z.failed
    BY <1>2, <1>7, <1>8
  <2>4. z.lane = "unverified" => ~z.failed BY <1>2, <1>7, <1>8
  <2>5. name # "C2p" => ~z.failed BY <1>8
  <2> QED BY <1>1, <1>9, <2>1, <2>2, <2>3, <2>4, <2>5 DEF Traced
<1> QED BY <1>6, <1>7, <1>10 DEF Decided, z, sim, bad, to

LEMMA TraceEgress ==
  ASSUME NEW name \in Names, NEW b, NEW y \in TraceType, y.pc = "egress", Traced(name, b, y),
         NEW end \in {b.what.ends, "egress_failed"}
  PROVE  LET z == AfterEgress(y, end) IN
         z \in TraceType /\ Traced(name, b, z) /\ z.pc # "none" /\ z.simulated = y.simulated
<1> DEFINE z == [y EXCEPT !.pc = "done", !.end = end]
<1>1. SendStep(b) BY DEF Traced
<1>2. b.what.ends \in {"app_mutated", "app_executed_no_mutation", "canon_refused"}
  BY <1>1 DEF SendStep, Fixtures, FormFixture, SemFixture, Fabricated, FormPage
<1>3. /\ z \in TraceType /\ z.pc = "done" /\ z.l1 = y.l1 /\ z.l2 = y.l2 /\ z.lane = y.lane /\ z.why = y.why
      /\ z.simulated = y.simulated /\ z.failed = y.failed /\ z.end = end
  BY <1>2 DEF TraceType
<1> HIDE DEF z
<1>4. HasL2(name) => y.l2 # "none" BY DEF Traced
<1>5. Traced(name, b, z)
  <2>1. (z.failed <=> y.failed) /\ z.end \in {b.what.ends, "egress_failed"} BY <1>3, Zenon
  <2> QED BY <1>1, <1>3, <1>4, <2>1 DEF Traced
<1> QED BY <1>3, <1>5 DEF AfterEgress, z

-----------------------------------------------------------------------------
(* Arms: taken, asked for, told of                                         *)

\* The arms w of a plane are those of pl, of which the one for this step and layer may have been used up.
Used(pl, w, i, layer) ==
  /\ \A b \in w.arms : \E a \in pl.arms :
        /\ b.step = a.step /\ b.layer = a.layer /\ (a.consumed => b.consumed)
        /\ b.consumed => a.consumed \/ (a.step = i /\ a.layer = layer)
  /\ \A a \in pl.arms : \E b \in w.arms : b.step = a.step /\ b.layer = a.layer

LEMMA TakenUses ==
  ASSUME plane \in PlaneType, IsFiniteSet(plane.arms), NEW pl \in PlaneType, pl.arms = plane.arms, NEW i, NEW layer
  PROVE  LET w == Taken(pl, i, layer) IN
         /\ w \in PlaneType /\ IsFiniteSet(w.arms) /\ w.fault = pl.fault /\ w.abandoned = pl.abandoned
         /\ Used(pl, w, i, layer)
<1> DEFINE M == Matching(i, layer)
           f == [a \in pl.arms |-> IF a \in M THEN [a EXCEPT !.consumed = TRUE] ELSE a]
           new == {f[a] : a \in pl.arms}
           w == [pl EXCEPT !.arms = new]
<1>1. Taken(pl, i, layer) = w
  <2>1. {IF a \in M THEN [a EXCEPT !.consumed = TRUE] ELSE a : a \in pl.arms} = new OBVIOUS
  <2> HIDE DEF new
  <2> QED BY <2>1 DEF Taken
<1>2. pl.arms \subseteq ArmType BY DEF PlaneType
<1>3. \A a \in M : a.step = i /\ a.layer = layer BY DEF Matching
<1> HIDE DEF M
<1>4. ASSUME NEW a \in pl.arms
      PROVE  /\ f[a] \in ArmType /\ f[a].step = a.step /\ f[a].layer = a.layer /\ (a.consumed => f[a].consumed)
             /\ f[a].consumed => a.consumed \/ (a.step = i /\ a.layer = layer)
  <2>1. a \in ArmType BY <1>2
  <2>2. CASE a \in M
    <3>1. f[a] = [a EXCEPT !.consumed = TRUE] BY <2>2
    <3> HIDE DEF f
    <3>2. f[a] \in ArmType /\ f[a].step = a.step /\ f[a].layer = a.layer /\ f[a].consumed = TRUE
      BY <2>1, <3>1 DEF ArmType
    <3> QED BY <1>3, <2>2, <3>2
  <2>3. CASE a \notin M BY <2>1, <2>3
  <2> QED BY <2>2, <2>3
<1>5. f \in Surjection(pl.arms, new) BY DEF Surjection
<1> HIDE DEF f
<1>6. IsFiniteSet(new) BY <1>5, FS_Surjection
<1>7. new \subseteq ArmType BY <1>4
<1>8. /\ \A b \in new : \E a \in pl.arms :
           /\ b.step = a.step /\ b.layer = a.layer /\ (a.consumed => b.consumed)
           /\ b.consumed => a.consumed \/ (a.step = i /\ a.layer = layer)
      /\ \A a \in pl.arms : \E b \in new : b.step = a.step /\ b.layer = a.layer
  <2>1. ASSUME NEW b \in new
        PROVE  \E a \in pl.arms :
                 /\ b.step = a.step /\ b.layer = a.layer /\ (a.consumed => b.consumed)
                 /\ b.consumed => a.consumed \/ (a.step = i /\ a.layer = layer)
    <3>1. PICK a \in pl.arms : b = f[a] OBVIOUS
    <3> QED BY <1>4, <3>1
  <2>2. ASSUME NEW a \in pl.arms PROVE \E b \in new : b.step = a.step /\ b.layer = a.layer
    <3>1. f[a] \in new OBVIOUS
    <3> QED BY <1>4, <3>1
  <2> QED BY <2>1, <2>2
<1> HIDE DEF new
<1>9. w \in PlaneType /\ w.arms = new /\ w.fault = pl.fault /\ w.abandoned = pl.abandoned BY <1>7 DEF PlaneType
<1> HIDE DEF w
<1>10. Used(pl, w, i, layer) BY <1>8, <1>9 DEF Used
<1>11. IsFiniteSet(w.arms) BY <1>6, <1>9
<1> QED BY <1>1, <1>9, <1>10, <1>11, Zenon

LEMMA TakingServes ==
  ASSUME NEW name, NEW pl, NEW w, NEW q \in [At(name) -> TraceType], Taking(name, pl, q), NEW i \in At(name),
         NEW z, NEW layer,
         \/ z.simulated = q[i].simulated /\ w.arms = pl.arms
         \/ z.simulated = q[i].simulated \union {layer} /\ IsArmed(pl, i, layer) /\ Used(pl, w, i, layer)
  PROVE  Taking(name, w, [q EXCEPT ![i] = z])
<1> DEFINE x == [q EXCEPT ![i] = z]
<1>1. \A j \in At(name) : x[j] = IF j = i THEN z ELSE q[j] OBVIOUS
<1> HIDE DEF x
<1>2. CASE z.simulated = q[i].simulated /\ w.arms = pl.arms
  <2>1. \A j \in At(name) : x[j].simulated = q[j].simulated BY <1>1, <1>2
  <2> QED BY <1>2, <2>1 DEF Taking, IsArmed, x
<1>3. CASE z.simulated = q[i].simulated \union {layer} /\ IsArmed(pl, i, layer) /\ Used(pl, w, i, layer)
  <2>1. /\ \A j \in At(name) : q[j].simulated \subseteq x[j].simulated
        /\ \A j \in At(name) : \A l \in x[j].simulated : l \in q[j].simulated \/ (j = i /\ l = layer)
        /\ layer \in x[i].simulated
    BY <1>1, <1>3
  <2>2. ASSUME NEW b \in w.arms
        PROVE  /\ b.step \in At(name) /\ b.layer \in LayersAt(name, b.step)
               /\ b.consumed => b.layer \in x[b.step].simulated
    <3>1. PICK a \in pl.arms :
            /\ b.step = a.step /\ b.layer = a.layer
            /\ b.consumed => a.consumed \/ (a.step = i /\ a.layer = layer)
      BY <1>3 DEF Used
    <3>2. a.step \in At(name) /\ a.layer \in LayersAt(name, a.step) BY DEF Taking
    <3>3. a.consumed => a.layer \in q[a.step].simulated BY DEF Taking
    <3> QED BY <2>1, <3>1, <3>2, <3>3
  <2>3. ASSUME NEW j \in At(name), NEW l \in x[j].simulated PROVE IsArmed(w, j, l)
    <3>1. IsArmed(pl, j, l) BY <1>3, <2>1 DEF Taking
    <3> QED BY <1>3, <3>1 DEF Used, IsArmed
  <2> QED BY <2>2, <2>3 DEF Taking, x
<1> QED BY <1>2, <1>3

\* Serving a request leaves what is armed armed, and what is used up used up.
Serves(pl, w) ==
  /\ \A a \in pl.arms : \E b \in w.arms : b.step = a.step /\ b.layer = a.layer
  /\ AllConsumed(pl) => AllConsumed(w)

LEMMA UsedServes ==
  ASSUME NEW pl, NEW w, NEW i, NEW layer, w.arms = pl.arms \/ Used(pl, w, i, layer)
  PROVE  Serves(pl, w)
<1>1. CASE w.arms = pl.arms BY <1>1 DEF Serves, AllConsumed
<1>2. CASE Used(pl, w, i, layer)
  <2>1. ASSUME AllConsumed(pl), NEW b \in w.arms PROVE b.consumed
    <3>1. PICK a \in pl.arms : a.consumed => b.consumed BY <1>2 DEF Used
    <3> QED BY <2>1, <3>1 DEF AllConsumed
  <2>2. \A a \in pl.arms : \E b \in w.arms : b.step = a.step /\ b.layer = a.layer BY <1>2 DEF Used
  <2> QED BY <2>1, <2>2 DEF Serves, AllConsumed
<1> QED BY <1>1, <1>2

LEMMA AskingServes ==
  ASSUME NEW name, NEW h, NEW d, NEW u, NEW pl, NEW w, NEW r, Asking(name, h, d, u, pl, r), Serves(pl, w)
  PROVE  Asking(name, h, d, u, w, r)
<1>1. \A i, l : IsArmed(pl, i, l) => IsArmed(w, i, l) BY DEF Serves, IsArmed
<1>2. \A m \in ToSet(u) : Acked(w, m) BY <1>1 DEF Asking, Acked
<1>3. Prepared(name, h, pl) => Prepared(name, h, w) BY <1>1 DEF Prepared
<1> QED BY <1>2, <1>3 DEF Asking

LEMMA TellingServes ==
  ASSUME NEW name, NEW h, NEW d, NEW u, NEW pl, NEW w, NEW t, Telling(name, h, d, u, pl, t), Serves(pl, w)
  PROVE  Telling(name, h, d, u, w, t)
<1>1. AllConsumed(pl) => AllConsumed(w) BY DEF Serves
<1> QED BY <1>1 DEF Telling

\* The steps of the harness.
LEMMA ReadyAdvances ==
  ASSUME NEW name \in Names, NEW h \in HarnessType, NEW g \in HarnessType, NEW pl, Prepared(name, h, pl), h.at \in At(name),
         h.pc = "awaiting" \/ DoAt(name, h.at) # "send", g.at = h.at + 1, g.pc = "next"
  PROVE  Prepared(name, g, pl)
<1>1. \A i \in At(name) : i \in Nat BY DEF At
<1>2. h.at \in Nat BY DEF HarnessType
<1>3. \A i \in At(name) : i < g.at => i < h.at \/ i = h.at BY <1>1, <1>2
<1> QED BY <1>3 DEF Prepared

LEMMA ReadyAsksFirst ==
  ASSUME NEW name \in Names, NEW h \in HarnessType, NEW g \in HarnessType, NEW pl, Prepared(name, h, pl), h.pc = "next",
         g.at = h.at, g.pc = "arming", ToSet(g.todo) = LayersAt(name, h.at)
  PROVE  Prepared(name, g, pl)
BY DEF Prepared

LEMMA ReadyAsksNext ==
  ASSUME NEW name \in Names, NEW h \in HarnessType, NEW g \in HarnessType, NEW pl, Prepared(name, h, pl), h.pc = "arming",
         NEW l, IsArmed(pl, h.at, l), g.at = h.at, g.pc = "arming", ToSet(h.todo) = {l} \union ToSet(g.todo)
  PROVE  Prepared(name, g, pl)
BY DEF Prepared

LEMMA ReadyTransmits ==
  ASSUME NEW name \in Names, NEW h \in HarnessType, NEW g \in HarnessType, NEW pl, Prepared(name, h, pl),
         g.at = h.at, g.pc = "awaiting",
         \/ h.pc = "next" /\ LayersAt(name, h.at) = {}
         \/ h.pc = "arming" /\ \A l \in ToSet(h.todo) : IsArmed(pl, h.at, l)
  PROVE  Prepared(name, g, pl)
BY DEF Prepared

LEMMA ReadyProbes ==
  ASSUME NEW name \in Names, NEW h \in HarnessType, NEW g \in HarnessType, NEW pl, Prepared(name, h, pl),
         g.at = h.at, g.pc = "probing"
  PROVE  Prepared(name, g, pl)
BY DEF Prepared

\* The harness goes on; what it sends is no arm once the last probe was asked for.
LEMMA TellingMoves ==
  ASSUME NEW name, NEW h, NEW g, NEW d \in Seq(DownType), NEW e, NEW u, NEW v, NEW pl, NEW t, NEW s,
         Telling(name, h, d, u, pl, t), FinalAsked(name, h) => FinalAsked(name, g), ToSet(v) \subseteq ToSet(u),
         \/ e = d
         \/ \E m \in DownType : e = Append(d, m) /\ m.type = "arm" /\ ~FinalAsked(name, h)
         \/ \E m \in DownType : e = Append(d, m) /\ m.type # "arm" /\ (FinalProbe(name, m) => FinalAsked(name, g)),
         g.at > FinalStep(name) /\ s # NoProbe => NoArmIn(e) /\ (s.armed = s.consumed => AllConsumed(pl))
  PROVE  Telling(name, g, e, v, pl, s)
<1>1. CASE e = d BY <1>1 DEF Telling
<1>2. ASSUME NEW m \in DownType, e = Append(d, m), m.type = "arm", ~FinalAsked(name, h) PROVE Telling(name, g, e, v, pl, s)
  <2>1. /\ DOMAIN e = 1..(Len(d) + 1) /\ DOMAIN d = 1..Len(d) /\ Len(d) \in Nat
        /\ \A k \in 1..Len(d) : e[k] = d[k]
        /\ e[Len(d) + 1] = m
    BY <1>2, Appended
  <2>2. \A k \in DOMAIN e : k \in DOMAIN d \/ k = Len(d) + 1 BY <2>1
  <2>3. \A k \in DOMAIN e : ~FinalProbe(name, e[k]) BY <1>2, <2>1, <2>2 DEF Telling, FinalProbe
  <2>4. \A n \in ToSet(v) : ~FinalProbe(name, n) BY <1>2 DEF Telling
  <2> QED BY <2>3, <2>4 DEF Telling
<1>3. ASSUME NEW m \in DownType, e = Append(d, m), m.type # "arm", FinalProbe(name, m) => FinalAsked(name, g)
      PROVE  Telling(name, g, e, v, pl, s)
  <2>1. /\ DOMAIN e = 1..(Len(d) + 1) /\ DOMAIN d = 1..Len(d) /\ Len(d) \in Nat
        /\ \A k \in 1..Len(d) : e[k] = d[k]
        /\ e[Len(d) + 1] = m /\ ToSet(e) = ToSet(d) \union {m}
    BY <1>3, Appended
  <2>2. \A k \in DOMAIN e : k \in DOMAIN d \/ k = Len(d) + 1 BY <2>1
  <2>3. ASSUME NEW k \in DOMAIN e, FinalProbe(name, e[k])
        PROVE  FinalAsked(name, g) /\ \A j \in DOMAIN e : j > k => e[j].type # "arm"
    <3>1. CASE k \in DOMAIN d
      <4>1. FinalProbe(name, d[k]) BY <2>1, <2>3, <3>1
      <4>2. FinalAsked(name, g) /\ \A j \in DOMAIN d : j > k => d[j].type # "arm" BY <3>1, <4>1 DEF Telling
      <4> QED BY <1>3, <2>1, <2>2, <4>2
    <3>2. CASE k = Len(d) + 1
      <4>1. FinalAsked(name, g) BY <1>3, <2>1, <2>3, <3>2
      <4>2. \A j \in DOMAIN e : ~(j > k) BY <2>1, <3>2
      <4> QED BY <4>1, <4>2
    <3> QED BY <2>2, <3>1, <3>2
  <2>4. NoArmIn(d) => NoArmIn(e) BY <1>3, <2>1 DEF NoArmIn
  <2> QED BY <2>3, <2>4 DEF Telling
<1> QED BY <1>1, <1>2, <1>3

\* The plane takes a message: an arm, or a probe that it answers with what is true of its arms.
LEMMA TellingTakes ==
  ASSUME NEW name, NEW h, NEW d \in Seq(DownType), d # <<>>, NEW u \in Seq(UpType), NEW pl, NEW w, NEW t, NEW m \in UpType,
         Telling(name, h, d, u, pl, t), ~(h.at > FinalStep(name)),
         \/ Head(d).type = "arm" /\ m.type = "ack"
         \/ Head(d).type = "probe" /\ w = pl /\ m.type = "probe" /\ m.step = Head(d).step
              /\ (m.stats.armed = m.stats.consumed => AllConsumed(pl))
  PROVE  Telling(name, h, Tail(d), Append(u, m), w, t)
<1> DEFINE e == Tail(d)
           v == Append(u, m)
<1>1. /\ Head(d) \in ToSet(d) /\ ToSet(e) \subseteq ToSet(d) /\ Head(d) = d[1] /\ 1 \in DOMAIN d
      /\ \A k \in DOMAIN e : k \in Nat /\ k + 1 \in DOMAIN d /\ k + 1 > 1 /\ e[k] = d[k + 1]
  BY HeadTaken
<1>2. ToSet(v) = ToSet(u) \union {m} BY Appended
<1> HIDE DEF e, v
<1>3. ASSUME NEW k \in DOMAIN e, FinalProbe(name, e[k])
      PROVE  FinalAsked(name, h) /\ \A j \in DOMAIN e : j > k => e[j].type # "arm"
  <2>1. k + 1 \in DOMAIN d /\ FinalProbe(name, d[k + 1]) BY <1>1, <1>3
  <2>2. FinalAsked(name, h) /\ \A j \in DOMAIN d : j > k + 1 => d[j].type # "arm" BY <2>1 DEF Telling
  <2>3. ASSUME NEW j \in DOMAIN e, j > k PROVE e[j].type # "arm"
    <3>1. j \in Nat /\ k \in Nat /\ j + 1 \in DOMAIN d /\ e[j] = d[j + 1] BY <1>1
    <3>2. j + 1 > k + 1 BY <2>3, <3>1
    <3> QED BY <2>2, <3>1, <3>2
  <2> QED BY <2>2, <2>3
<1>4. CASE Head(d).type = "arm" /\ m.type = "ack"
  <2>1. \A n \in ToSet(u) : ~FinalProbe(name, n) BY <1>1, <1>4 DEF Telling, NoArmIn
  <2>2. \A n \in ToSet(v) : ~FinalProbe(name, n) BY <1>2, <1>4, <2>1 DEF FinalProbe
  <2> QED BY <1>3, <2>2 DEF Telling, e, v
<1>5. CASE Head(d).type = "probe" /\ w = pl /\ m.type = "probe" /\ m.step = Head(d).step
           /\ (m.stats.armed = m.stats.consumed => AllConsumed(pl))
  <2>1. NoArmIn(d) => NoArmIn(e) BY <1>1 DEF NoArmIn
  <2>2. ASSUME FinalProbe(name, m) PROVE FinalAsked(name, h) /\ NoArmIn(e)
    <3>1. FinalProbe(name, d[1]) BY <1>1, <1>5, <2>2 DEF FinalProbe
    <3>2. FinalAsked(name, h) /\ \A j \in DOMAIN d : j > 1 => d[j].type # "arm" BY <1>1, <3>1 DEF Telling
    <3>3. \A k \in DOMAIN e : e[k].type # "arm" BY <1>1, <3>2
    <3> QED BY <3>2, <3>3 DEF NoArmIn, ToSet
  <2>3. ASSUME NEW n \in ToSet(v), FinalProbe(name, n)
        PROVE  FinalAsked(name, h) /\ NoArmIn(e) /\ (n.stats.armed = n.stats.consumed => AllConsumed(w))
    <3>1. CASE n \in ToSet(u) BY <1>5, <2>1, <2>3, <3>1 DEF Telling
    <3>2. CASE n = m BY <1>5, <2>2, <2>3, <3>2
    <3> QED BY <1>2, <3>1, <3>2
  <2> QED BY <1>3, <2>3 DEF Telling, e, v
<1> QED BY <1>4, <1>5

-----------------------------------------------------------------------------
(* The steps of an arm                                                     *)

LEMMA HoldsAgain ==
  ASSUME arm \in 1..5, arm' = arm, clock' \in Nat, ArmHolds(Name, harness', down', up', plane', seen', records', quiet')
  PROVE  CollapseInv'
<1>1. Name' = Name BY DEF Name
<1>2. ArmHolds(Name', harness', down', up', plane', seen', records', quiet') BY <1>1
<1> QED BY <1>2 DEF CollapseInv

\* Of the pipe and the records, the messages not yet read and the outcomes of what was asked.
Onward(u, v, r) == v \in Seq(UpType) /\ ToSet(v) \subseteq ToSet(u) /\ r \in Seq(BOOLEAN)

LEMMA SendsEarly ==
  ASSUME NEW name \in Names, NEW h \in HarnessType, h.at \in At(name), DoAt(name, h.at) = "send", name \in {"C1", "C2"}
  PROVE  ~FinalAsked(name, h) /\ h.at < FinalStep(name)
<1>1. FinalStep(name) \in At(name) /\ Body(name)[FinalStep(name)] = Probe /\ FinalStep(name) \in Nat /\ h.at \in Nat
  BY BodyFacts DEF FinalStep, At
<1>2. h.at <= FinalStep(name) BY <1>1 DEF At, FinalStep
<1>3. h.at # FinalStep(name) BY <1>1 DEF DoAt, Probe
<1> QED BY <1>1, <1>2, <1>3 DEF FinalAsked

\* AskFor(): the next layer is asked for.
LEMMA AskHolds ==
  ASSUME NEW name \in {"C1", "C2"}, NEW h, NEW d, NEW u, NEW pl, NEW q, NEW r, NEW t, ArmHolds(name, h, d, u, pl, q, r, t),
         h.at \in At(name), DoAt(name, h.at) = "send", h.pc # "awaiting",
         NEW todo \in Seq(BothLayers), todo # <<>>, ToSet(todo) \subseteq LayersAt(name, h.at), NEW n \in Nat,
         NEW v, NEW x, Onward(u, v, x), NEW g, g = [h EXCEPT !.pc = "arming", !.todo = todo, !.since = n],
         Granting(x) => Prepared(name, g, pl)
  PROVE  ArmHolds(name, g, Append(d, [type |-> "arm", step |-> h.at, layer |-> Head(todo)]), v, pl, q, x, t)
<1> DEFINE m == [type |-> "arm", step |-> h.at, layer |-> Head(todo)]
           e == Append(d, m)
<1>1. name \in Names /\ h \in HarnessType /\ d \in Seq(DownType) /\ InOrder(name, h, q) BY DEF ArmHolds, ArmTypes
<1>2. Head(todo) \in BothLayers /\ Head(todo) \in ToSet(todo) BY HeadTaken
<1>3. h.at \in Nat BY <1>1 DEF HarnessType
<1>4. m \in DownType /\ m.type = "arm" /\ Asked(name, m) /\ ~FinalProbe(name, m) BY <1>2, <1>3 DEF DownType, Asked, FinalProbe
<1>5. g \in HarnessType /\ g.at = h.at /\ g.pc = "arming" /\ g.todo = todo /\ InOrder(name, g, q)
  <2> DEFINE k == [h EXCEPT !.pc = "arming", !.todo = todo, !.since = n]
  <2>1. name \in Names BY <1>1
  <2>2. k \in HarnessType /\ k.at = h.at /\ k.pc = "arming" /\ k.todo = todo /\ InOrder(name, k, q)
    BY <1>1, <2>1, OrderAsks
  <2>3. g = k OBVIOUS
  <2> HIDE DEF k
  <2> QED BY <2>2, <2>3
<1> HIDE DEF m
<1>6. e \in Seq(DownType) /\ ToSet(e) = ToSet(d) \union {m} BY <1>1, <1>4, Appended
<1>7. ~FinalAsked(name, h) /\ h.at < FinalStep(name) BY <1>1, SendsEarly
<1>8. FinalStep(name) \in Nat BY <1>1, BodyFacts DEF FinalStep
<1>9. ~(g.at > FinalStep(name)) BY <1>3, <1>5, <1>7, <1>8
<1>10. Telling(name, g, e, v, pl, t)
  <2>1. Telling(name, h, d, u, pl, t) /\ ToSet(v) \subseteq ToSet(u) BY DEF ArmHolds, Onward
  <2>2. \E k \in DownType : e = Append(d, k) /\ k.type = "arm" /\ ~FinalAsked(name, h) BY <1>4, <1>7
  <2> HIDE DEF e
  <2> QED BY <1>1, <1>7, <1>9, <2>1, <2>2, TellingMoves
<1>11. Asking(name, g, e, v, pl, x)
  <2>1. Asking(name, h, d, u, pl, r) BY DEF ArmHolds
  <2> QED BY <1>4, <1>6, <2>1 DEF Asking, Onward
<1>12. AsForked(name, pl, e) BY <1>4, <1>6 DEF ArmHolds, AsForked
<1>13. ArmTypes(name, g, e, v, pl, q, x) BY <1>5, <1>6 DEF ArmHolds, ArmTypes, Onward
<1> QED BY <1>5, <1>10, <1>11, <1>12, <1>13 DEF ArmHolds, m

\* Transmit(): the head of the request is written.
LEMMA SentHolds ==
  ASSUME NEW name \in Names, NEW h, NEW d, NEW u, NEW pl, NEW q, NEW r, NEW t, ArmHolds(name, h, d, u, pl, q, r, t),
         h.at \in At(name), DoAt(name, h.at) = "send", h.pc # "awaiting", NEW todo \in Seq(BothLayers), NEW n \in Nat,
         NEW v, NEW x, Onward(u, v, x), NEW e,
         \/ e = d
         \/ name \notin {"C1", "C2"} /\ e = Append(d, [type |-> "arm", step |-> h.at, layer |-> "l1"]),
         NEW g, g = [h EXCEPT !.todo = todo, !.pc = "awaiting", !.sent = n],
         name \in {"C1", "C2"} /\ Granting(x) => Prepared(name, g, pl)
  PROVE  ArmHolds(name, g, e, v, pl, [q EXCEPT ![h.at].pc = "l1"], x, t)
<1> DEFINE m == [type |-> "arm", step |-> h.at, layer |-> "l1"]
           w == [q EXCEPT ![h.at].pc = "l1"]
<1>1. h \in HarnessType /\ d \in Seq(DownType) /\ InOrder(name, h, q) /\ q \in [At(name) -> TraceType]
  BY DEF ArmHolds, ArmTypes
<1>2. h.at \in Nat BY <1>1 DEF HarnessType
<1>3. m \in DownType /\ m.type = "arm" BY <1>2 DEF DownType, BothLayers
<1>4. /\ g \in HarnessType /\ g.at = h.at /\ g.pc = "awaiting" /\ InOrder(name, g, w)
      /\ w \in [At(name) -> TraceType] /\ \A j \in At(name) : w[j].simulated = q[j].simulated
  <2> DEFINE k == [h EXCEPT !.todo = todo, !.pc = "awaiting", !.sent = n]
  <2>1. /\ k \in HarnessType /\ k.at = h.at /\ k.pc = "awaiting" /\ InOrder(name, k, w)
        /\ w \in [At(name) -> TraceType] /\ \A j \in At(name) : w[j].simulated = q[j].simulated
    BY <1>1, OrderTransmits
  <2>2. g = k OBVIOUS
  <2> HIDE DEF k, w
  <2> QED BY <2>1, <2>2
<1> HIDE DEF m, w
<1>5. e \in Seq(DownType) /\ \A k \in ToSet(e) : k \in ToSet(d) \/ k.type = "arm"
  <2>1. CASE e = d BY <1>1, <2>1
  <2>2. CASE e = Append(d, m) BY <1>1, <1>3, <2>2, Appended
  <2> QED BY <2>1, <2>2 DEF m
<1>6. ASSUME name \in {"C1", "C2"}
      PROVE  Taking(name, pl, w) /\ Asking(name, g, e, v, pl, x) /\ Telling(name, g, e, v, pl, t)
  <2>1. e = d BY <1>6
  <2>2. Taking(name, pl, q) /\ Asking(name, h, d, u, pl, r) /\ Telling(name, h, d, u, pl, t) /\ ToSet(v) \subseteq ToSet(u)
    BY <1>6 DEF ArmHolds, Onward
  <2>3. Taking(name, pl, w) BY <1>4, <2>2 DEF Taking
  <2>4. Asking(name, g, e, v, pl, x) BY <1>6, <2>1, <2>2 DEF Asking
  <2>5. ~FinalAsked(name, h) /\ h.at < FinalStep(name) BY <1>1, <1>6, SendsEarly
  <2>6. FinalStep(name) \in Nat BY BodyFacts DEF FinalStep
  <2>7. ~(g.at > FinalStep(name)) BY <1>2, <1>4, <2>5, <2>6
  <2>8. Telling(name, g, e, v, pl, t) BY <1>1, <2>1, <2>2, <2>5, <2>7, TellingMoves
  <2> QED BY <2>3, <2>4, <2>8
<1>7. AsForked(name, pl, e)
  <2>1. AsForked(name, pl, d) BY DEF ArmHolds
  <2>2. \A k \in ToSet(e) : k.type = "fault" => k \in ToSet(d) BY <1>5
  <2> QED BY <2>1, <2>2 DEF AsForked
<1>8. ArmTypes(name, g, e, v, pl, w, x) BY <1>4, <1>5 DEF ArmHolds, ArmTypes, Onward
<1> QED BY <1>4, <1>6, <1>7, <1>8 DEF ArmHolds, w

\* Advance(): the step is over, whatever came of it; a step that breaks a layer has told the plane.
LEMMA AdvanceHolds ==
  ASSUME NEW name \in Names, NEW h, NEW d, NEW u, NEW pl, NEW q, NEW r, NEW t, ArmHolds(name, h, d, u, pl, q, r, t),
         h.at \in At(name), NEW v, NEW x, Onward(u, v, x), NEW e,
         \/ e = d
         \/ name = "C2p" /\ \E m \in DownType : e = Append(d, m),
         name \in {"C1", "C2"} /\ Granting(x) => Granting(r) /\ (h.pc = "awaiting" \/ DoAt(name, h.at) # "send"),
         NEW s, name \in {"C1", "C2"} /\ h.at = FinalStep(name) /\ s # NoProbe =>
                  NoArmIn(d) /\ (s.armed = s.consumed => AllConsumed(pl))
  PROVE  ArmHolds(name, Advance(h), e, v, pl, q, x, s)
<1> DEFINE g == Advance(h)
<1>1. h \in HarnessType /\ d \in Seq(DownType) /\ InOrder(name, h, q) BY DEF ArmHolds, ArmTypes
<1>2. h.at \in Nat BY <1>1 DEF HarnessType
<1>3. g \in HarnessType /\ g.at = h.at + 1 /\ g.pc = "next" /\ InOrder(name, g, q) BY <1>1, OrderAdvances
<1> HIDE DEF g
<1>4. e \in Seq(DownType) BY <1>1, Appended
<1>5. ASSUME name \in {"C1", "C2"} PROVE Asking(name, g, e, v, pl, x) /\ Telling(name, g, e, v, pl, s)
  <2>1. e = d BY <1>5
  <2>2. Asking(name, h, d, u, pl, r) /\ Telling(name, h, d, u, pl, t) /\ ToSet(v) \subseteq ToSet(u)
    BY <1>5 DEF ArmHolds, Onward
  <2>3. Granting(x) => Prepared(name, g, pl)
    <3>1. ASSUME Granting(x) PROVE Prepared(name, g, pl)
      <4>1. Prepared(name, h, pl) /\ (h.pc = "awaiting" \/ DoAt(name, h.at) # "send") BY <1>5, <2>2, <3>1 DEF Asking
      <4> QED BY <1>1, <1>3, <4>1, ReadyAdvances
    <3> QED BY <3>1
  <2>4. Asking(name, g, e, v, pl, x) BY <2>1, <2>2, <2>3 DEF Asking
  <2>5. FinalStep(name) \in Nat /\ h.at <= FinalStep(name) BY <1>2, BodyFacts DEF FinalStep, At
  <2>6. g.at > FinalStep(name) => h.at = FinalStep(name) BY <1>2, <1>3, <2>5
  <2>7. FinalAsked(name, h) => FinalAsked(name, g)
    <3>1. FinalAsked(name, h) => h.at = FinalStep(name) BY <1>2, <2>5 DEF FinalAsked
    <3>2. h.at = FinalStep(name) => g.at > FinalStep(name) BY <1>2, <1>3
    <3> QED BY <3>1, <3>2 DEF FinalAsked
  <2>8. Telling(name, g, e, v, pl, s) BY <1>1, <1>5, <2>1, <2>2, <2>6, <2>7, TellingMoves
  <2> QED BY <2>4, <2>8
<1>6. AsForked(name, pl, e)
  <2>1. AsForked(name, pl, d) BY DEF ArmHolds
  <2> QED BY <2>1 DEF AsForked
<1>7. ArmTypes(name, g, e, v, pl, q, x) BY <1>3, <1>4 DEF ArmHolds, ArmTypes, Onward
<1>8. name \in {"C1", "C2"} => Taking(name, pl, q) BY DEF ArmHolds
<1> QED BY <1>3, <1>5, <1>6, <1>7, <1>8 DEF ArmHolds, g

\* AskProbe: the plane is asked for its statistics.
LEMMA ProbeHolds ==
  ASSUME NEW name \in Names, NEW h, NEW d, NEW u, NEW pl, NEW q, NEW r, NEW t, ArmHolds(name, h, d, u, pl, q, r, t),
         h.at \in At(name), DoAt(name, h.at) = "probe", h.pc = "next"
  PROVE  ArmHolds(name, [h EXCEPT !.pc = "probing"], Append(d, [type |-> "probe", step |-> h.at]), u, pl, q, r, t)
<1> DEFINE g == [h EXCEPT !.pc = "probing"]
           m == [type |-> "probe", step |-> h.at]
           e == Append(d, m)
<1>1. /\ h \in HarnessType /\ d \in Seq(DownType) /\ InOrder(name, h, q)
      /\ Asking(name, h, d, u, pl, r) \/ name \notin {"C1", "C2"}
      /\ Telling(name, h, d, u, pl, t) \/ name \notin {"C1", "C2"}
  BY DEF ArmHolds, ArmTypes
<1>2. h.at \in Nat BY <1>1 DEF HarnessType
<1>3. m \in DownType /\ m.type = "probe" /\ m.step = h.at BY <1>2 DEF DownType
<1>4. g \in HarnessType /\ g.at = h.at /\ g.pc = "probing" /\ InOrder(name, g, q) BY <1>1, OrderProbes
<1> HIDE DEF g, m
<1>5. e \in Seq(DownType) /\ ToSet(e) = ToSet(d) \union {m} BY <1>1, <1>3, Appended
<1>6. ASSUME name \in {"C1", "C2"} PROVE Asking(name, g, e, u, pl, r) /\ Telling(name, g, e, u, pl, t)
  <2>1. Prepared(name, h, pl) => Prepared(name, g, pl) BY <1>1, <1>4, ReadyProbes
  <2>2. Asking(name, g, e, u, pl, r) BY <1>1, <1>3, <1>5, <1>6, <2>1 DEF Asking, Asked
  <2>3. FinalStep(name) \in Nat /\ h.at <= FinalStep(name) BY <1>2, BodyFacts DEF FinalStep, At
  <2>4. ~(g.at > FinalStep(name)) BY <1>2, <1>4, <2>3
  <2>5. FinalAsked(name, h) => FinalAsked(name, g) BY <1>2, <1>4, <2>3 DEF FinalAsked
  <2>6. FinalProbe(name, m) => FinalAsked(name, g) BY <1>3, <1>4 DEF FinalProbe, FinalAsked
  <2>7. \E k \in DownType : e = Append(d, k) /\ k.type # "arm" /\ (FinalProbe(name, k) => FinalAsked(name, g))
    BY <1>3, <2>6
  <2> HIDE DEF e
  <2>8. Telling(name, g, e, u, pl, t) BY <1>1, <1>6, <2>4, <2>5, <2>7, TellingMoves
  <2> QED BY <2>2, <2>8
<1>7. AsForked(name, pl, e) BY <1>3, <1>5 DEF ArmHolds, AsForked
<1>8. ArmTypes(name, g, e, u, pl, q, r) BY <1>4, <1>5 DEF ArmHolds, ArmTypes
<1>9. name \in {"C1", "C2"} => Taking(name, pl, q) BY DEF ArmHolds
<1> QED BY <1>4, <1>6, <1>7, <1>8, <1>9 DEF ArmHolds, g, m

\* A message of the plane is read and dropped.
LEMMA DropHolds ==
  ASSUME NEW name \in Names, NEW h, NEW d, NEW u, NEW pl, NEW q, NEW r, NEW t, ArmHolds(name, h, d, u, pl, q, r, t),
         NEW v, Onward(u, v, r)
  PROVE  ArmHolds(name, h, d, v, pl, q, r, t)
<1>1. ASSUME name \in {"C1", "C2"} PROVE Asking(name, h, d, v, pl, r) /\ Telling(name, h, d, v, pl, t)
  <2>1. Asking(name, h, d, u, pl, r) /\ Telling(name, h, d, u, pl, t) /\ ToSet(v) \subseteq ToSet(u)
    BY <1>1 DEF ArmHolds, Onward
  <2> QED BY <2>1 DEF Asking, Telling
<1>2. ArmTypes(name, h, d, v, pl, q, r) BY DEF ArmHolds, ArmTypes, Onward
<1> QED BY <1>1, <1>2 DEF ArmHolds

LEMMA Standing ==
  ASSUME CollapseInv, InArm
  PROVE  /\ arm \in 1..5 /\ clock \in Nat /\ Name \in Names /\ ArmHolds(Name, harness, down, up, plane, seen, records, quiet)
         /\ harness \in HarnessType /\ harness.at \in At(Name) /\ Step = Body(Name)[harness.at]
         /\ Step.do = DoAt(Name, harness.at) /\ ToSet(Step.layers) = LayersAt(Name, harness.at)
         /\ down \in Seq(DownType) /\ up \in Seq(UpType) /\ records \in Seq(BOOLEAN) /\ InOrder(Name, harness, seen)
         /\ plane \in PlaneType /\ IsFiniteSet(plane.arms) /\ seen \in [At(Name) -> TraceType]
         /\ harness.todo \in Seq(BothLayers) /\ harness.at \in Nat
         /\ Onward(up, up, records)
<1>1. /\ arm \in 1..5 /\ clock \in Nat /\ ArmHolds(Name, harness, down, up, plane, seen, records, quiet)
      /\ harness.at \in At(Name)
  BY DEF CollapseInv, InArm, Steps, At
<1>2. /\ Name \in Names /\ harness \in HarnessType /\ InOrder(Name, harness, seen)
      /\ down \in Seq(DownType) /\ up \in Seq(UpType) /\ records \in Seq(BOOLEAN)
      /\ plane \in PlaneType /\ IsFiniteSet(plane.arms) /\ seen \in [At(Name) -> TraceType]
  BY <1>1 DEF ArmHolds, ArmTypes
<1>3. Step = Body(Name)[harness.at] /\ Step.do = DoAt(Name, harness.at) /\ ToSet(Step.layers) = LayersAt(Name, harness.at)
  BY DEF Step, DoAt, LayersAt
<1>4. harness.todo \in Seq(BothLayers) /\ harness.at \in Nat BY <1>2 DEF HarnessType
<1> QED BY <1>1, <1>2, <1>3, <1>4 DEF Onward

LEMMA ConnectHolds == ASSUME CollapseInv, Connect PROVE CollapseInv'
<1>0. InArm BY DEF Connect
<1>1. /\ arm \in 1..5 /\ clock \in Nat /\ Name \in Names /\ ArmHolds(Name, harness, down, up, plane, seen, records, quiet)
      /\ harness \in HarnessType /\ harness.at \in At(Name) /\ Step = Body(Name)[harness.at]
      /\ Step.do = DoAt(Name, harness.at) /\ ToSet(Step.layers) = LayersAt(Name, harness.at)
      /\ harness.todo \in Seq(BothLayers) /\ Onward(up, up, records)
  BY <1>0, Standing
<1>2. /\ harness.pc = "next" /\ Step.do = "send"
      /\ UNCHANGED <<arm, up, plane, records, quiet, clock>>
  BY DEF Connect
<1>3. /\ SendStep(Step) /\ (Name \in {"C1", "C2"} => Step.phase # "attempt")
      /\ Name \notin {"C1", "C2"} => Step.layers = <<>>
  BY <1>1, <1>2, StepKinds
<1>4. Name \in {"C1", "C2"} => Asking(Name, harness, down, up, plane, records) BY <1>1 DEF ArmHolds
<1>5. DoAt(Name, harness.at) = "send" /\ harness.pc # "awaiting" BY <1>1, <1>2
<1>6. CASE Step.layers # <<>>
  <2> DEFINE g == [harness EXCEPT !.pc = "arming", !.todo = Step.layers, !.since = clock]
  <2>1. /\ harness' = g /\ seen' = seen
        /\ down' = Append(down, [type |-> "arm", step |-> harness.at, layer |-> Head(Step.layers)])
    BY <1>6 DEF Connect, AskFor
  <2>2. Name \in {"C1", "C2"} /\ Step.layers \in Seq(BothLayers) BY <1>3, <1>6 DEF SendStep
  <2>3. g \in HarnessType /\ g.at = harness.at /\ g.pc = "arming" /\ g.todo = Step.layers
    BY <1>1, <2>2 DEF HarnessType
  <2> HIDE DEF g
  <2>4. Granting(records) => Prepared(Name, g, plane)
    <3>1. ToSet(g.todo) = LayersAt(Name, harness.at) BY <1>1, <2>3
    <3> QED BY <1>1, <1>2, <1>4, <2>2, <2>3, <3>1, ReadyAsksFirst DEF Asking
  <2>5. ArmHolds(Name, g, Append(down, [type |-> "arm", step |-> harness.at, layer |-> Head(Step.layers)]),
                 up, plane, seen, records, quiet)
    <3>1. g = [harness EXCEPT !.pc = "arming", !.todo = Step.layers, !.since = clock] BY DEF g
    <3>2. ToSet(Step.layers) \subseteq LayersAt(Name, harness.at) BY <1>1
    <3> QED BY ONLY <1>1, <1>5, <1>6, <2>2, <2>4, <3>1, <3>2, AskHolds
  <2>6. ArmHolds(Name, harness', down', up', plane', seen', records', quiet') BY <1>2, <2>1, <2>5
  <2> QED BY <1>1, <1>2, <2>6, HoldsAgain
<1>7. CASE Step.layers = <<>>
  <2> DEFINE g == [harness EXCEPT !.todo = harness.todo, !.pc = "awaiting", !.sent = clock]
             m == [type |-> "arm", step |-> harness.at, layer |-> "l1"]
  <2>1. /\ harness' = [harness EXCEPT !.pc = "awaiting", !.sent = clock] /\ seen' = [seen EXCEPT ![harness.at].pc = "l1"]
        /\ down' = IF Step.phase = "attempt" THEN Append(down, m) ELSE down
    BY <1>7 DEF Connect, Transmit
  <2>2. harness' = g BY <1>1, <2>1 DEF HarnessType
  <2>3. down' = down \/ (Name \notin {"C1", "C2"} /\ down' = Append(down, m)) BY <1>3, <2>1
  <2>4. g \in HarnessType /\ g.at = harness.at /\ g.pc = "awaiting" BY <1>1 DEF HarnessType
  <2> HIDE DEF g
  <2>5. Name \in {"C1", "C2"} /\ Granting(records) => Prepared(Name, g, plane)
    <3>1. LayersAt(Name, harness.at) = {} BY <1>1, <1>7 DEF ToSet
    <3> QED BY <1>1, <1>2, <1>4, <2>4, <3>1, ReadyTransmits DEF Asking
  <2>6. PICK e : e = down' BY Zenon
  <2>7. e = down \/ (Name \notin {"C1", "C2"} /\ e = Append(down, m)) BY <2>3, <2>6
  <2>8. ArmHolds(Name, g, e, up, plane, [seen EXCEPT ![harness.at].pc = "l1"], records, quiet)
    <3>1. g = [harness EXCEPT !.todo = harness.todo, !.pc = "awaiting", !.sent = clock] BY DEF g
    <3> QED BY ONLY <1>1, <1>5, <2>5, <2>7, <3>1, SentHolds
  <2>9. ArmHolds(Name, harness', down', up', plane', seen', records', quiet') BY <1>2, <2>1, <2>2, <2>6, <2>8
  <2> QED BY <1>1, <1>2, <2>9, HoldsAgain
<1> QED BY <1>6, <1>7

LEMMA GrantingAppended ==
  ASSUME NEW r \in Seq(BOOLEAN), NEW b \in BOOLEAN
  PROVE  Append(r, b) \in Seq(BOOLEAN) /\ (Granting(Append(r, b)) => Granting(r) /\ b)
<1>1. /\ Append(r, b) \in Seq(BOOLEAN) /\ DOMAIN Append(r, b) = 1..(Len(r) + 1) /\ DOMAIN r = 1..Len(r) /\ Len(r) \in Nat
      /\ \A k \in 1..Len(r) : Append(r, b)[k] = r[k]
      /\ Append(r, b)[Len(r) + 1] = b
  BY Appended
<1>2. Len(r) + 1 \in DOMAIN Append(r, b) /\ \A k \in DOMAIN r : k \in DOMAIN Append(r, b) BY <1>1
<1>3. ASSUME Granting(Append(r, b)) PROVE Granting(r) /\ b
  <2>1. b BY <1>1, <1>2, <1>3 DEF Granting
  <2>2. ASSUME NEW k \in DOMAIN r PROVE r[k]
    <3>1. k \in DOMAIN Append(r, b) /\ Append(r, b)[k] = r[k] BY <1>1, <1>2
    <3> QED BY <1>3, <3>1 DEF Granting
  <2> QED BY <2>1, <2>2 DEF Granting
<1> QED BY <1>1, <1>3

LEMMA WaitingHolds == ASSUME CollapseInv, ArmTimesOut \/ ClientDone PROVE CollapseInv'
<1>0. InArm BY DEF ArmTimesOut, ClientDone
<1>1. /\ arm \in 1..5 /\ clock \in Nat /\ Name \in Names /\ ArmHolds(Name, harness, down, up, plane, seen, records, quiet)
      /\ harness \in HarnessType /\ harness.at \in At(Name) /\ records \in Seq(BOOLEAN) /\ up \in Seq(UpType)
      /\ Onward(up, up, records) /\ InOrder(Name, harness, seen)
  BY <1>0, Standing
<1>2. /\ harness' = Advance(harness) /\ UNCHANGED <<arm, down, up, plane, seen, quiet, clock>>
      /\ harness.pc \in {"arming", "awaiting"}
      /\ (harness.pc = "awaiting" /\ records' = records) \/ records' = Append(records, FALSE)
  BY DEF ArmTimesOut, ClientDone
<1>3. DoAt(Name, harness.at) = "send" BY <1>1, <1>2 DEF InOrder
<1>4. Name \in {"C1", "C2"} => harness.at # FinalStep(Name)
  <2>1. harness.at \in Nat BY <1>1 DEF HarnessType
  <2>2. FinalStep(Name) \in Nat BY <1>1, BodyFacts DEF FinalStep
  <2> QED BY <1>1, <1>3, <2>1, <2>2, SendsEarly
<1>5. PICK x : x = records' BY Zenon
<1>6. Onward(up, up, x) /\ (Granting(x) => Granting(records) /\ harness.pc = "awaiting")
  <2>1. CASE x = records /\ harness.pc = "awaiting" BY <1>1, <2>1
  <2>2. CASE x = Append(records, FALSE)
    <3>1. x \in Seq(BOOLEAN) /\ ~Granting(x) BY <1>1, <2>2, GrantingAppended
    <3> QED BY <1>1, <3>1 DEF Onward
  <2> QED BY <1>2, <1>5, <2>1, <2>2
<1>7. ArmHolds(Name, Advance(harness), down, up, plane, seen, x, quiet)
  <2>1. Name \in {"C1", "C2"} /\ Granting(x) => Granting(records) /\ (harness.pc = "awaiting" \/ DoAt(Name, harness.at) # "send")
    BY <1>6
  <2>2. Name \in {"C1", "C2"} /\ harness.at = FinalStep(Name) /\ quiet # NoProbe =>
          NoArmIn(down) /\ (quiet.armed = quiet.consumed => AllConsumed(plane))
    BY <1>4
  <2> QED BY ONLY <1>1, <1>6, <2>1, <2>2, AdvanceHolds
<1>8. ArmHolds(Name, harness', down', up', plane', seen', records', quiet') BY <1>2, <1>5, <1>7
<1> QED BY <1>1, <1>2, <1>8, HoldsAgain

LEMMA InjectHolds == ASSUME CollapseInv, InjectFault PROVE CollapseInv'
<1>0. InArm BY DEF InjectFault
<1>1. /\ arm \in 1..5 /\ clock \in Nat /\ Name \in Names /\ ArmHolds(Name, harness, down, up, plane, seen, records, quiet)
      /\ harness.at \in At(Name) /\ Step = Body(Name)[harness.at] /\ Onward(up, up, records)
  BY <1>0, Standing
<1> DEFINE m == [type |-> "fault", layer |-> Step.layer, kind |-> Step.kind, remaining |-> Step.remaining]
<1>2. /\ harness' = Advance(harness) /\ down' = Append(down, m) /\ Step.do = "fault"
      /\ UNCHANGED <<arm, up, plane, seen, records, quiet, clock>>
  BY DEF InjectFault
<1>3. Name = "C2p" /\ FaultStep(Step) BY <1>1, <1>2, StepKinds
<1>4. m \in DownType BY <1>3 DEF FaultStep, DownType
<1> HIDE DEF m
<1>5. ArmHolds(Name, Advance(harness), Append(down, m), up, plane, seen, records, quiet)
  <2>1. Name = "C2p" /\ \E k \in DownType : Append(down, m) = Append(down, k) BY <1>3, <1>4
  <2>2. Name \notin {"C1", "C2"} BY <1>3
  <2> QED BY ONLY <1>1, <2>1, <2>2, AdvanceHolds
<1>6. ArmHolds(Name, harness', down', up', plane', seen', records', quiet') BY <1>2, <1>5
<1> QED BY <1>1, <1>2, <1>6, HoldsAgain

LEMMA AskProbeHolds == ASSUME CollapseInv, AskProbe PROVE CollapseInv'
<1>0. InArm BY DEF AskProbe
<1>1. /\ arm \in 1..5 /\ clock \in Nat /\ Name \in Names /\ ArmHolds(Name, harness, down, up, plane, seen, records, quiet)
      /\ harness.at \in At(Name) /\ Step.do = DoAt(Name, harness.at)
  BY <1>0, Standing
<1>2. /\ harness' = [harness EXCEPT !.pc = "probing"] /\ down' = Append(down, [type |-> "probe", step |-> harness.at])
      /\ harness.pc = "next" /\ Step.do = "probe"
      /\ UNCHANGED <<arm, up, plane, seen, records, quiet, clock>>
  BY DEF AskProbe
<1>3. ArmHolds(Name, [harness EXCEPT !.pc = "probing"], Append(down, [type |-> "probe", step |-> harness.at]),
               up, plane, seen, records, quiet)
  BY <1>1, <1>2, ProbeHolds
<1>4. ArmHolds(Name, harness', down', up', plane', seen', records', quiet') BY <1>2, <1>3
<1> QED BY <1>1, <1>2, <1>4, HoldsAgain

LEMMA ProbeHeardHolds == ASSUME CollapseInv, ProbeAnswered \/ ProbeTimesOut PROVE CollapseInv'
<1>0. InArm BY DEF ProbeAnswered, ProbeTimesOut
<1>1. /\ arm \in 1..5 /\ clock \in Nat /\ Name \in Names /\ ArmHolds(Name, harness, down, up, plane, seen, records, quiet)
      /\ harness \in HarnessType /\ harness.at \in At(Name) /\ records \in Seq(BOOLEAN) /\ up \in Seq(UpType)
      /\ Onward(up, up, records) /\ InOrder(Name, harness, seen)
  BY <1>0, Standing
<1>2. harness.pc = "probing" => DoAt(Name, harness.at) # "send" BY <1>1 DEF InOrder
<1>3. CASE ProbeTimesOut
  <2>1. /\ harness.pc = "probing" /\ harness' = Advance(harness) /\ quiet' = NoProbe
        /\ UNCHANGED <<arm, down, up, plane, seen, records, clock>>
    BY <1>3 DEF ProbeTimesOut
  <2>2. ArmHolds(Name, Advance(harness), down, up, plane, seen, records, NoProbe)
    <3>1. DoAt(Name, harness.at) # "send" BY <1>2, <2>1
    <3> QED BY ONLY <1>1, <3>1, AdvanceHolds
  <2>3. ArmHolds(Name, harness', down', up', plane', seen', records', quiet') BY <2>1, <2>2
  <2> QED BY <1>1, <2>1, <2>3, HoldsAgain
<1>4. CASE ProbeAnswered
  <2>1. up # <<>> /\ Head(up).type = "probe" /\ up' = Tail(up) /\ UNCHANGED <<arm, down, plane, seen, records, clock>>
    BY <1>4 DEF ProbeAnswered
  <2>2. Onward(up, Tail(up), records) /\ Head(up) \in ToSet(up) BY <1>1, <2>1, HeadTaken DEF Onward
  <2>3. CASE harness.pc = "probing" /\ Head(up).step = harness.at
    <3>1. harness' = Advance(harness) /\ quiet' = Head(up).stats BY <1>4, <2>3 DEF ProbeAnswered
    <3>2. ArmHolds(Name, Advance(harness), down, Tail(up), plane, seen, records, Head(up).stats)
      <4>1. DoAt(Name, harness.at) # "send" BY <1>2, <2>3
      <4>2. ASSUME Name \in {"C1", "C2"}, harness.at = FinalStep(Name)
            PROVE  NoArmIn(down) /\ (Head(up).stats.armed = Head(up).stats.consumed => AllConsumed(plane))
        <5>1. FinalProbe(Name, Head(up)) BY <2>1, <2>3, <4>2 DEF FinalProbe
        <5>2. Telling(Name, harness, down, up, plane, quiet) BY <1>1, <4>2 DEF ArmHolds
        <5> QED BY <2>2, <5>1, <5>2 DEF Telling
      <4> QED BY ONLY <1>1, <2>2, <4>1, <4>2, AdvanceHolds
    <3>3. ArmHolds(Name, harness', down', up', plane', seen', records', quiet') BY <2>1, <3>1, <3>2
    <3> QED BY <1>1, <2>1, <3>3, HoldsAgain
  <2>4. CASE ~(harness.pc = "probing" /\ Head(up).step = harness.at)
    <3>1. UNCHANGED <<quiet, harness>> BY <1>4, <2>4 DEF ProbeAnswered
    <3>2. ArmHolds(Name, harness, down, Tail(up), plane, seen, records, quiet) BY ONLY <1>1, <2>2, DropHolds
    <3>3. ArmHolds(Name, harness', down', up', plane', seen', records', quiet') BY <2>1, <3>1, <3>2
    <3> QED BY <1>1, <2>1, <3>3, HoldsAgain
  <2> QED BY <2>3, <2>4
<1> QED BY <1>3, <1>4

LEMMA TickHolds == ASSUME CollapseInv, ArmTick PROVE CollapseInv'
<1>1. clock' \in Nat /\ UNCHANGED <<arm, harness, down, up, plane, seen, records, quiet>> BY DEF ArmTick, CollapseInv
<1>2. ArmHolds(Name, harness', down', up', plane', seen', records', quiet') BY <1>1 DEF CollapseInv
<1>3. arm \in 1..5 BY DEF CollapseInv
<1> QED BY <1>1, <1>2, <1>3, HoldsAgain

LEMMA AcknowledgedHolds == ASSUME CollapseInv, Acknowledged PROVE CollapseInv'
<1>0. InArm BY DEF Acknowledged
<1>1. /\ arm \in 1..5 /\ clock \in Nat /\ Name \in Names /\ ArmHolds(Name, harness, down, up, plane, seen, records, quiet)
      /\ harness \in HarnessType /\ harness.at \in At(Name) /\ records \in Seq(BOOLEAN) /\ up \in Seq(UpType)
      /\ Onward(up, up, records) /\ InOrder(Name, harness, seen)
      /\ Step = Body(Name)[harness.at] /\ Step.do = DoAt(Name, harness.at)
      /\ ToSet(Step.layers) = LayersAt(Name, harness.at) /\ harness.todo \in Seq(BothLayers)
  BY <1>0, Standing
<1>2. up # <<>> /\ Head(up).type = "ack" /\ up' = Tail(up) /\ UNCHANGED <<arm, plane, quiet, clock>> BY DEF Acknowledged
<1>3. Tail(up) \in Seq(UpType) /\ ToSet(Tail(up)) \subseteq ToSet(up) /\ Head(up) \in ToSet(up) /\ Head(up) \in UpType
  BY <1>1, <1>2, HeadTaken
<1>4. Head(up).granted \in BOOLEAN BY <1>2, <1>3 DEF UpType
<1> DEFINE granted == Head(up).granted
           todo == harness.todo
           x == Append(records, granted)
<1>5. CASE ~(harness.pc = "arming" /\ Head(up).step = harness.at /\ Head(up).layer = Head(todo))
  <2>1. UNCHANGED <<records, harness, down, seen>> BY <1>5 DEF Acknowledged
  <2>2. Onward(up, Tail(up), records) BY <1>1, <1>3 DEF Onward
  <2>3. ArmHolds(Name, harness, down, Tail(up), plane, seen, records, quiet) BY ONLY <1>1, <2>2, DropHolds
  <2>4. ArmHolds(Name, harness', down', up', plane', seen', records', quiet') BY <1>2, <2>1, <2>3
  <2> QED BY <1>1, <1>2, <2>4, HoldsAgain
<1>6. CASE harness.pc = "arming" /\ Head(up).step = harness.at /\ Head(up).layer = Head(todo)
  <2>1. /\ records' = x
        /\ CASE ~granted -> harness' = Advance(harness) /\ UNCHANGED <<down, seen>>
             [] granted /\ Len(todo) > 1 -> AskFor(Tail(todo)) /\ UNCHANGED seen
             [] OTHER -> Transmit([harness EXCEPT !.todo = <<>>]) /\ UNCHANGED down
    BY <1>6 DEF Acknowledged
  <2>2. DoAt(Name, harness.at) = "send" /\ todo # <<>> /\ ToSet(todo) \subseteq LayersAt(Name, harness.at)
    BY <1>1, <1>6 DEF InOrder
  <2>3. Onward(up, Tail(up), x) /\ (Granting(x) => Granting(records) /\ granted)
    BY <1>1, <1>3, <1>4, GrantingAppended DEF Onward
  <2>4. Name \in {"C1", "C2"}
    <3>1. Name \notin {"C1", "C2"} => Step.layers = <<>> BY <1>1, <2>2, StepKinds
    <3>2. Step.layers = <<>> => ToSet(todo) = {}
      <4>1. Step.layers = <<>> => ToSet(Step.layers) = {} BY DEF ToSet
      <4> QED BY <1>1, <2>2, <4>1
    <3>3. ToSet(todo) # {} BY <1>1, <2>2, HeadTaken
    <3> QED BY <3>1, <3>2, <3>3
  <2>5. Asking(Name, harness, down, up, plane, records) BY <1>1, <2>4 DEF ArmHolds
  <2>6. granted => IsArmed(plane, harness.at, Head(todo)) BY <1>2, <1>3, <1>6, <2>5 DEF Asking, Acked
  <2>7. Granting(x) => Prepared(Name, harness, plane) /\ IsArmed(plane, harness.at, Head(todo)) BY <2>3, <2>5, <2>6 DEF Asking
  <2>8. ToSet(todo) = {Head(todo)} \union ToSet(Tail(todo)) /\ Tail(todo) \in Seq(BothLayers)
    <3>1. todo \in Seq(BothLayers) BY <1>1
    <3> HIDE DEF todo
    <3>2. /\ Tail(todo) \in Seq(BothLayers) /\ ToSet(Tail(todo)) \subseteq ToSet(todo) /\ Head(todo) \in ToSet(todo)
          /\ Head(todo) = todo[1]
      BY <2>2, <3>1, HeadTaken
    <3>3. ASSUME NEW l \in ToSet(todo), l # Head(todo) PROVE l \in ToSet(Tail(todo))
      <4>1. PICK k \in DOMAIN todo : l = todo[k] BY DEF ToSet
      <4>2. DOMAIN todo = 1..Len(todo) /\ Len(todo) \in Nat BY <3>1
      <4>3. k > 1 /\ k - 1 \in 1..(Len(todo) - 1) BY <3>2, <3>3, <4>1, <4>2
      <4>4. DOMAIN Tail(todo) = 1..(Len(todo) - 1) /\ Tail(todo)[k - 1] = todo[k] BY <2>2, <3>1, <4>2, <4>3
      <4> QED BY <4>1, <4>3, <4>4 DEF ToSet
    <3> QED BY <3>2, <3>3
  <2>9. CASE ~granted
    <3>1. harness' = Advance(harness) /\ UNCHANGED <<down, seen>> BY <2>1, <2>9
    <3>2. harness.at # FinalStep(Name)
      <4>1. harness.at \in Nat BY <1>1 DEF HarnessType
      <4>2. FinalStep(Name) \in Nat BY <1>1, BodyFacts DEF FinalStep
      <4> QED BY <1>1, <2>2, <2>4, <4>1, <4>2, SendsEarly
    <3>3. ~Granting(x) BY <2>3, <2>9
    <3> HIDE DEF x
    <3>4. ArmHolds(Name, Advance(harness), down, Tail(up), plane, seen, x, quiet)
      BY ONLY <1>1, <2>3, <3>2, <3>3, AdvanceHolds
    <3>5. ArmHolds(Name, harness', down', up', plane', seen', records', quiet') BY <1>2, <2>1, <3>1, <3>4
    <3> QED BY <1>1, <1>2, <3>5, HoldsAgain
  <2>10. CASE granted /\ Len(todo) > 1
    <3> DEFINE g == [harness EXCEPT !.pc = "arming", !.todo = Tail(todo), !.since = clock]
    <3>1. /\ harness' = g /\ seen' = seen
          /\ down' = Append(down, [type |-> "arm", step |-> harness.at, layer |-> Head(Tail(todo))])
      BY <2>1, <2>10 DEF AskFor
    <3>2. Tail(todo) # <<>> /\ ToSet(Tail(todo)) \subseteq LayersAt(Name, harness.at)
      <4>1. Len(Tail(todo)) = Len(todo) - 1 /\ Len(todo) \in Nat BY <1>1, <2>2
      <4>2. Len(Tail(todo)) # 0
        <5> DEFINE n == Len(todo)
                   k == Len(Tail(todo))
        <5>1. n \in Nat /\ k = n - 1 /\ n > 1 BY <2>10, <4>1
        <5> HIDE DEF n, k
        <5>2. k # 0 BY <5>1
        <5> QED BY <5>2 DEF k
      <4>3. Tail(todo) # <<>>
        <5>1. Len(<<>>) = 0 OBVIOUS
        <5> DEFINE z == Tail(todo)
        <5>2. Len(z) # 0 BY <4>2
        <5> HIDE DEF z
        <5>3. z # <<>> BY <5>1, <5>2
        <5> QED BY <5>3 DEF z
      <4> QED BY <2>2, <2>8, <4>3
    <3>3. g \in HarnessType /\ g.at = harness.at /\ g.pc = "arming" /\ g.todo = Tail(todo) BY <1>1, <2>8 DEF HarnessType
    <3>4. g = [harness EXCEPT !.pc = "arming", !.todo = Tail(todo), !.since = clock] OBVIOUS
    <3> HIDE DEF g, x
    <3>5. Granting(x) => Prepared(Name, g, plane) BY <1>1, <1>6, <2>7, <2>8, <3>3, ReadyAsksNext
    <3>6. ArmHolds(Name, g, Append(down, [type |-> "arm", step |-> harness.at, layer |-> Head(Tail(todo))]),
                   Tail(up), plane, seen, x, quiet)
      <4>1. harness.pc # "awaiting" BY <1>6
      <4> QED BY ONLY <1>1, <2>2, <2>3, <2>4, <2>8, <3>2, <3>4, <3>5, <4>1, AskHolds
    <3>7. ArmHolds(Name, harness', down', up', plane', seen', records', quiet') BY <1>2, <2>1, <3>1, <3>6
    <3> QED BY <1>1, <1>2, <3>7, HoldsAgain
  <2>11. CASE granted /\ ~(Len(todo) > 1)
    <3> DEFINE k == [harness EXCEPT !.todo = <<>>]
               g == [harness EXCEPT !.todo = <<>>, !.pc = "awaiting", !.sent = clock]
    <3>1. Transmit(k) /\ down' = down BY <2>1, <2>11
    <3>2. harness' = g /\ seen' = [seen EXCEPT ![harness.at].pc = "l1"]
      <4>1. k.at = harness.at /\ [k EXCEPT !.pc = "awaiting", !.sent = clock] = g BY <1>1 DEF HarnessType
      <4>2. /\ harness' = [k EXCEPT !.pc = "awaiting", !.sent = clock]
            /\ seen' = [seen EXCEPT ![k.at].pc = "l1"]
        BY <3>1 DEF Transmit
      <4> HIDE DEF k, g
      <4> QED BY <4>1, <4>2
    <3>3. g \in HarnessType /\ g.at = harness.at /\ g.pc = "awaiting" BY <1>1, LayerSequences DEF HarnessType
    <3>4. g = [harness EXCEPT !.todo = <<>>, !.pc = "awaiting", !.sent = clock] OBVIOUS
    <3> HIDE DEF g, x
    <3>5. ToSet(Tail(todo)) = {}
      <4>1. Len(todo) \in Nat /\ Len(Tail(todo)) = Len(todo) - 1 /\ DOMAIN Tail(todo) = 1..(Len(todo) - 1) BY <1>1, <2>2
      <4>2. DOMAIN Tail(todo) = {} BY <2>11, <4>1
      <4> QED BY <4>2 DEF ToSet
    <3>6. Granting(x) => Prepared(Name, g, plane) BY <1>1, <1>6, <2>7, <2>8, <3>3, <3>5, ReadyTransmits
    <3>7. ArmHolds(Name, g, down, Tail(up), plane, [seen EXCEPT ![harness.at].pc = "l1"], x, quiet)
      <4>1. harness.pc # "awaiting" /\ <<>> \in Seq(BothLayers) BY <1>6, LayerSequences
      <4> QED BY ONLY <1>1, <2>2, <2>3, <3>4, <3>6, <4>1, SentHolds
    <3>8. ArmHolds(Name, harness', down', up', plane', seen', records', quiet') BY <1>2, <2>1, <3>1, <3>2, <3>7
    <3> QED BY <1>1, <1>2, <3>8, HoldsAgain
  <2> QED BY <2>9, <2>10, <2>11
<1> QED BY <1>5, <1>6

\* CollapseOverride.arm(): one more arm, or one more refusal.
LEMMA GrantedPlane ==
  ASSUME plane \in PlaneType, IsFiniteSet(plane.arms), clock \in Nat, NEW m, m.step \in Nat, m.layer \in BothLayers
  PROVE  LET w == Granted(m) IN
         /\ w \in PlaneType /\ IsFiniteSet(w.arms) /\ w.fault = plane.fault /\ w.abandoned = plane.abandoned
         /\ \A a \in plane.arms : a \in w.arms
         /\ \A a \in w.arms : a \in plane.arms \/ (a.step = m.step /\ a.layer = m.layer /\ ~a.consumed)
         /\ Grants => IsArmed(w, m.step, m.layer)
<1> DEFINE new == [step |-> m.step, layer |-> m.layer, expires |-> clock + ArmTtl, consumed |-> FALSE]
           arms == plane.arms \union {new}
           w == Granted(m)
<1>1. ArmTtl \in Nat BY CollapseAssumption
<1>2. new \in ArmType /\ new.step = m.step /\ new.layer = m.layer /\ ~new.consumed BY <1>1 DEF ArmType
<1>3. plane.arms \in SUBSET ArmType /\ plane.refused \in Nat BY DEF PlaneType
<1> HIDE DEF new
<1>4. arms \in SUBSET ArmType /\ IsFiniteSet(arms) /\ new \in arms
      /\ (\A a \in plane.arms : a \in arms) /\ (\A a \in arms : a \in plane.arms \/ a = new)
  BY <1>2, <1>3, FS_AddElement
<1> HIDE DEF arms
<1>5. CASE Grants
  <2>1. w = [plane EXCEPT !.arms = arms] BY <1>5 DEF Granted, arms, new
  <2>2. w \in PlaneType /\ w.arms = arms /\ w.fault = plane.fault /\ w.abandoned = plane.abandoned
    BY <1>4, <2>1 DEF PlaneType
  <2>3. IsArmed(w, m.step, m.layer) BY <1>2, <1>4, <2>2 DEF IsArmed
  <2> HIDE DEF w
  <2>4. \A a \in w.arms : a \in plane.arms \/ (a.step = m.step /\ a.layer = m.layer /\ ~a.consumed)
    BY <1>2, <1>4, <2>2
  <2> QED BY <1>4, <2>2, <2>3, <2>4 DEF w
<1>6. CASE ~Grants
  <2>1. w = [plane EXCEPT !.refused = plane.refused + 1] BY <1>6 DEF Granted
  <2>2. w \in PlaneType /\ w.arms = plane.arms /\ w.fault = plane.fault /\ w.abandoned = plane.abandoned
    BY <1>3, <2>1 DEF PlaneType
  <2> HIDE DEF w
  <2> QED BY <1>6, <2>2 DEF w
<1> QED BY <1>5, <1>6

\* What a probe tells: numbers, and that nothing stays armed when as many arms were used as there are.
LEMMA StatsTell ==
  ASSUME plane \in PlaneType, IsFiniteSet(plane.arms), arm \in 1..5
  PROVE  stats \in StatsType /\ (stats.armed = stats.consumed => AllConsumed(plane))
<1> DEFINE A == plane.arms
           C == {a \in A : a.consumed}
           X == {a \in A : ~a.consumed /\ a.expires < clock}
           L == {a \in A : Live(a)}
           F == {i \in Steps : seen[i].pc \in {"l1", "l2", "egress"}}
<1>1. /\ IsFiniteSet(A) /\ IsFiniteSet(C) /\ IsFiniteSet(X) /\ IsFiniteSet(L)
      /\ Cardinality(A) = Cardinality(C) => A = C
  BY FS_Subset
<1>2. IsFiniteSet(F)
  <2>1. 1 \in Int /\ Len(Body(Name)) \in Int BY ArmKnown, BodyFacts
  <2>2. IsFiniteSet(1..Len(Body(Name))) BY ONLY <2>1, FS_Interval
  <2>3. IsFiniteSet(Steps) BY ONLY <2>2 DEF Steps
  <2>4. F \in SUBSET Steps OBVIOUS
  <2> HIDE DEF F
  <2> QED BY ONLY <2>3, <2>4, FS_Subset
<1>3. /\ Cardinality(A) \in Nat /\ Cardinality(C) \in Nat /\ Cardinality(X) \in Nat /\ Cardinality(L) \in Nat
      /\ Cardinality(F) \in Nat /\ plane.refused \in Nat /\ plane.abandoned \in Nat
  BY <1>1, <1>2, FS_CardinalityType DEF PlaneType
<1>4. A = C => AllConsumed(plane) BY DEF AllConsumed
<1>5. stats = [armed |-> Cardinality(A), consumed |-> Cardinality(C), refused |-> plane.refused, expired |-> Cardinality(X),
               outstanding |-> Cardinality(L), l2Occupancy |-> plane.abandoned, inFlight |-> Cardinality(F)]
  BY DEF stats
<1> HIDE DEF A, C, X, L, F
<1>6. stats \in StatsType /\ stats.armed = Cardinality(A) /\ stats.consumed = Cardinality(C) BY <1>3, <1>5 DEF StatsType
<1> QED BY <1>1, <1>4, <1>6

LEMMA ControlHolds == ASSUME CollapseInv, Control PROVE CollapseInv'
<1>0. InArm BY DEF Control
<1>1. /\ arm \in 1..5 /\ clock \in Nat /\ Name \in Names /\ ArmHolds(Name, harness, down, up, plane, seen, records, quiet)
      /\ harness \in HarnessType /\ harness.at \in At(Name) /\ down \in Seq(DownType) /\ up \in Seq(UpType)
      /\ plane \in PlaneType /\ IsFiniteSet(plane.arms) /\ harness.at \in Nat
      /\ InOrder(Name, harness, seen) /\ seen \in [At(Name) -> TraceType] /\ records \in Seq(BOOLEAN)
  BY <1>0, Standing
<1> DEFINE m == Head(down)
           e == Tail(down)
<1>2. down # <<>> /\ down' = e /\ Handles(m) /\ UNCHANGED <<arm, harness, seen, records, quiet, clock>> BY DEF Control
<1>3. e \in Seq(DownType) /\ ToSet(e) \subseteq ToSet(down) /\ m \in ToSet(down) /\ m \in DownType BY <1>1, <1>2, HeadTaken
<1>4. AsForked(Name, plane, down) BY <1>1 DEF ArmHolds
<1>5. ~(harness.at > FinalStep(Name))
  <2>1. FinalStep(Name) \in Nat BY <1>1, BodyFacts DEF FinalStep
  <2> QED BY <1>1, <2>1 DEF FinalStep, At
<1> HIDE DEF m, e
<1>6. CASE Name \in {"C0r", "C0"}
  <2>1. plane' = plane /\ up' = up BY <1>2, <1>6 DEF Handles, CanCollapse
  <2>2. ArmTypes(Name, harness, e, up, plane, seen, records) BY <1>1, <1>3 DEF ArmTypes
  <2>3. AsForked(Name, plane, e) BY <1>3, <1>4 DEF AsForked
  <2>4. ArmHolds(Name, harness, e, up, plane, seen, records, quiet) BY <1>1, <1>6, <2>2, <2>3 DEF ArmHolds
  <2>5. ArmHolds(Name, harness', down', up', plane', seen', records', quiet') BY <1>2, <2>1, <2>4
  <2> QED BY <1>1, <1>2, <2>5, HoldsAgain
<1>7. CASE Name \in {"C1", "C2", "C2p"}
  <2>1. Handled(m) BY <1>2, <1>7 DEF Handles, CanCollapse
  <2>2. m.type \in {"arm", "fault", "probe"} BY <1>3 DEF DownType
  <2>3. CASE m.type = "arm"
    <3> DEFINE w == Granted(m)
               a == [type |-> "ack", step |-> m.step, layer |-> m.layer, granted |-> Grants]
               v == Append(up, a)
    <3>1. plane' = w /\ up' = v BY <2>1, <2>3 DEF Handled
    <3>2. m.step \in Nat /\ m.layer \in BothLayers BY <1>3, <2>3 DEF DownType
    <3>3. Grants \in BOOLEAN BY DEF Grants
    <3>4. a \in UpType /\ a.type = "ack" /\ a.step = m.step /\ a.layer = m.layer /\ a.granted = Grants
      BY <3>2, <3>3 DEF UpType
    <3>5. /\ w \in PlaneType /\ IsFiniteSet(w.arms) /\ w.fault = plane.fault /\ w.abandoned = plane.abandoned
          /\ \A b \in plane.arms : b \in w.arms
          /\ \A b \in w.arms : b \in plane.arms \/ (b.step = m.step /\ b.layer = m.layer /\ ~b.consumed)
          /\ Grants => IsArmed(w, m.step, m.layer)
      BY <1>1, <3>2, GrantedPlane
    <3> HIDE DEF a, w
    <3>6. v \in Seq(UpType) /\ ToSet(v) = ToSet(up) \union {a} BY <1>1, <3>4, Appended
    <3> HIDE DEF v
    <3>7. ArmTypes(Name, harness, e, v, w, seen, records) BY <1>1, <1>3, <3>5, <3>6 DEF ArmTypes
    <3>8. AsForked(Name, w, e) BY <1>3, <1>4, <1>7, <3>5 DEF AsForked
    <3>9. ASSUME Name \in {"C1", "C2"}
          PROVE  Taking(Name, w, seen) /\ Asking(Name, harness, e, v, w, records) /\ Telling(Name, harness, e, v, w, quiet)
      <4>1. /\ Taking(Name, plane, seen) /\ Asking(Name, harness, down, up, plane, records)
            /\ Telling(Name, harness, down, up, plane, quiet)
        BY <1>1, <3>9 DEF ArmHolds
      <4>2. m.step \in At(Name) /\ m.layer \in LayersAt(Name, m.step) BY <1>3, <2>3, <4>1 DEF Asking, Asked
      <4>3. \A i, l : IsArmed(plane, i, l) => IsArmed(w, i, l) BY <3>5 DEF IsArmed
      <4>4. Taking(Name, w, seen)
        <5>1. \A b \in w.arms : b.step \in At(Name) /\ b.layer \in LayersAt(Name, b.step) BY <3>5, <4>1, <4>2 DEF Taking
        <5>2. \A b \in w.arms : b.consumed => b.layer \in seen[b.step].simulated BY <3>5, <4>1 DEF Taking
        <5>3. \A i \in At(Name) : \A l \in seen[i].simulated : IsArmed(w, i, l) BY <4>1, <4>3 DEF Taking
        <5> QED BY <5>1, <5>2, <5>3 DEF Taking
      <4>5. Asking(Name, harness, e, v, w, records)
        <5>1. \A k \in ToSet(e) : Asked(Name, k) BY <1>3, <4>1 DEF Asking
        <5>2. ASSUME NEW k \in ToSet(v) PROVE Acked(w, k)
          <6>1. CASE k \in ToSet(up) BY <4>1, <4>3, <6>1 DEF Asking, Acked
          <6>2. CASE k = a BY <3>4, <3>5, <6>2 DEF Acked
          <6> QED BY <3>6, <6>1, <6>2
        <5>3. Prepared(Name, harness, plane) => Prepared(Name, harness, w) BY <4>3 DEF Prepared
        <5> QED BY <4>1, <5>1, <5>2, <5>3 DEF Asking
      <4>6. Telling(Name, harness, e, v, w, quiet)
        <5>1. Head(down).type = "arm" BY <2>3 DEF m
        <5> QED BY <1>1, <1>2, <1>5, <3>4, <4>1, <5>1, TellingTakes DEF e, v
      <4> QED BY <4>4, <4>5, <4>6
    <3>10. ArmHolds(Name, harness, e, v, w, seen, records, quiet) BY <1>1, <3>7, <3>8, <3>9 DEF ArmHolds
    <3>11. ArmHolds(Name, harness', down', up', plane', seen', records', quiet') BY <1>2, <3>1, <3>10
    <3> QED BY <1>1, <1>2, <3>11, HoldsAgain
  <2>4. CASE m.type = "fault"
    <3> DEFINE f == [kind |-> m.kind, remaining |-> m.remaining]
               w == [plane EXCEPT !.fault[m.layer] = f]
    <3>1. plane' = w /\ up' = up BY <2>1, <2>4 DEF Handled
    <3>2. Name = "C2p" BY <1>3, <1>4, <1>7, <2>4 DEF AsForked
    <3>3. m.layer \in BothLayers /\ f \in FaultType BY <1>3, <2>4 DEF DownType, FaultType
    <3> HIDE DEF f
    <3>4. w \in PlaneType /\ w.arms = plane.arms BY <1>1, <3>3 DEF PlaneType
    <3> HIDE DEF w
    <3>5. ArmTypes(Name, harness, e, up, w, seen, records) BY <1>1, <1>3, <3>4 DEF ArmTypes
    <3>6. AsForked(Name, w, e) BY <3>2 DEF AsForked
    <3>7. ArmHolds(Name, harness, e, up, w, seen, records, quiet) BY <1>1, <3>2, <3>5, <3>6 DEF ArmHolds
    <3>8. ArmHolds(Name, harness', down', up', plane', seen', records', quiet') BY <1>2, <3>1, <3>7
    <3> QED BY <1>1, <1>2, <3>8, HoldsAgain
  <2>5. CASE m.type = "probe"
    <3> DEFINE a == [type |-> "probe", step |-> m.step, stats |-> stats]
               v == Append(up, a)
    <3>1. plane' = plane /\ up' = v BY <2>1, <2>5 DEF Handled
    <3>2. stats \in StatsType /\ (stats.armed = stats.consumed => AllConsumed(plane)) BY <1>1, StatsTell
    <3>3. m.step \in Nat BY <1>3, <2>5 DEF DownType
    <3>4. a \in UpType /\ a.type = "probe" /\ a.step = m.step /\ a.stats = stats BY <3>2, <3>3 DEF UpType
    <3> HIDE DEF a
    <3>5. v \in Seq(UpType) /\ ToSet(v) = ToSet(up) \union {a} BY <1>1, <3>4, Appended
    <3>6. ArmTypes(Name, harness, e, v, plane, seen, records) BY <1>1, <1>3, <3>5 DEF ArmTypes
    <3>7. AsForked(Name, plane, e) BY <1>3, <1>4 DEF AsForked
    <3>8. ASSUME Name \in {"C1", "C2"}
          PROVE  Taking(Name, plane, seen) /\ Asking(Name, harness, e, v, plane, records)
                 /\ Telling(Name, harness, e, v, plane, quiet)
      <4>1. /\ Taking(Name, plane, seen) /\ Asking(Name, harness, down, up, plane, records)
            /\ Telling(Name, harness, down, up, plane, quiet)
        BY <1>1, <3>8 DEF ArmHolds
      <4>2. Asking(Name, harness, e, v, plane, records) BY <1>3, <3>4, <3>5, <4>1 DEF Asking, Acked
      <4>3. Telling(Name, harness, e, v, plane, quiet)
        <5>1. Head(down).type = "probe" /\ a.step = Head(down).step BY <2>5, <3>4 DEF m
        <5>2. a.stats.armed = a.stats.consumed => AllConsumed(plane) BY <3>2, <3>4
        <5> QED BY <1>1, <1>2, <1>5, <3>4, <4>1, <5>1, <5>2, TellingTakes DEF e
      <4> QED BY <4>1, <4>2, <4>3
    <3> HIDE DEF v
    <3>9. ArmHolds(Name, harness, e, v, plane, seen, records, quiet) BY <1>1, <3>6, <3>7, <3>8 DEF ArmHolds
    <3>10. ArmHolds(Name, harness', down', up', plane', seen', records', quiet') BY <1>2, <3>1, <3>9
    <3> QED BY <1>1, <1>2, <3>10, HoldsAgain
  <2> QED BY <2>2, <2>3, <2>4, <2>5
<1> QED BY <1>1, <1>6, <1>7 DEF Names

\* A request is at a later point of its handler, with the arms of the plane as they were or one of them used.
LEMMA HandlerHolds ==
  ASSUME NEW name \in Names, NEW h, NEW d, NEW u, NEW pl, NEW q, NEW r, NEW t, ArmHolds(name, h, d, u, pl, q, r, t),
         NEW i \in At(name), NEW z \in TraceType, Traced(name, Body(name)[i], z), z.pc # "none", q[i].pc # "none",
         NEW w \in PlaneType, IsFiniteSet(w.arms), AsForked(name, w, d), NEW layer,
         \/ z.simulated = q[i].simulated /\ w.arms = pl.arms
         \/ z.simulated = q[i].simulated \union {layer} /\ IsArmed(pl, i, layer) /\ Used(pl, w, i, layer)
  PROVE  ArmHolds(name, h, d, u, w, [q EXCEPT ![i] = z], r, t)
<1> DEFINE x == [q EXCEPT ![i] = z]
<1>1. q \in [At(name) -> TraceType] /\ InOrder(name, h, q) BY DEF ArmHolds, ArmTypes
<1>2. ~(i > h.at \/ (i = h.at /\ h.pc # "awaiting")) BY <1>1 DEF InOrder
<1>3. x \in [At(name) -> TraceType] /\ InOrder(name, h, x) BY <1>1, <1>2, OneRequest
<1>4. ASSUME name \in {"C1", "C2"} PROVE Taking(name, w, x) /\ Asking(name, h, d, u, w, r) /\ Telling(name, h, d, u, w, t)
  <2>1. Taking(name, pl, q) /\ Asking(name, h, d, u, pl, r) /\ Telling(name, h, d, u, pl, t) BY <1>4 DEF ArmHolds
  <2>2. Taking(name, w, x) BY ONLY <1>1, <2>1, TakingServes, i \in At(name),
         \/ z.simulated = q[i].simulated /\ w.arms = pl.arms
         \/ z.simulated = q[i].simulated \union {layer} /\ IsArmed(pl, i, layer) /\ Used(pl, w, i, layer)
  <2>3. Serves(pl, w) BY UsedServes
  <2> QED BY <2>1, <2>2, <2>3, AskingServes, TellingServes
<1> HIDE DEF x
<1>5. ArmTypes(name, h, d, u, w, x, r) BY <1>3 DEF ArmHolds, ArmTypes
<1> QED BY <1>3, <1>4, <1>5 DEF ArmHolds, x

\* Without C2p no layer fails and no place is occupied.
LEMMA Unbroken ==
  ASSUME plane \in PlaneType, NEW d, AsForked(Name, plane, d), Name # "C2p", NEW layer \in BothLayers
  PROVE  ~Faulty(layer) /\ Spent(plane, layer) = plane /\ ~(plane.abandoned >= Places)
<1>1. plane.fault = [l \in BothLayers |-> NoFault] /\ plane.abandoned = 0 BY DEF AsForked, FreshPlane
<1>2. plane.fault[layer].remaining = 0 BY <1>1 DEF NoFault
<1>3. Places = 64 BY DEF Places
<1> QED BY <1>1, <1>2, <1>3 DEF Faulty, Spent

LEMMA SpentPlane ==
  ASSUME plane \in PlaneType, NEW layer \in BothLayers
  PROVE  /\ Spent(plane, layer) \in PlaneType /\ Spent(plane, layer).arms = plane.arms
         /\ Spent(plane, layer).abandoned = plane.abandoned /\ Spent(plane, layer).abandoned \in Nat
<1>1. plane.fault \in [BothLayers -> FaultType] /\ plane.abandoned \in Nat BY DEF PlaneType
<1>2. CASE ~Faulty(layer) BY <1>1, <1>2 DEF Spent
<1>3. CASE Faulty(layer)
  <2> DEFINE n == plane.fault[layer].remaining - 1
             f == [plane.fault EXCEPT ![layer].remaining = n]
  <2>1. plane.fault[layer] \in FaultType BY <1>1
  <2>2. n \in Nat BY <1>3, <2>1 DEF Faulty, FaultType
  <2>3. Spent(plane, layer) = [plane EXCEPT !.fault[layer].remaining = n] BY <1>3 DEF Spent
  <2> HIDE DEF n
  <2>4. [plane.fault[layer] EXCEPT !.remaining = n] \in FaultType BY <2>1, <2>2 DEF FaultType
  <2>5. f \in [BothLayers -> FaultType] BY <1>1, <2>4
  <2>6. Spent(plane, layer) = [plane EXCEPT !.fault = f] BY <2>3
  <2> HIDE DEF f
  <2> QED BY <1>1, <2>5, <2>6 DEF PlaneType
<1> QED BY <1>2, <1>3

\* take() finds an arm only where one was granted, and never in an ordinary plane.
LEMMA MatchingArmed ==
  ASSUME NEW i, NEW layer, Matching(i, layer) # {}, NEW d, AsForked(Name, plane, d)
  PROVE  IsArmed(plane, i, layer) /\ Name \notin {"C0r", "C0"}
<1>1. \E a \in plane.arms : a.step = i /\ a.layer = layer BY DEF Matching
<1>2. plane # FreshPlane BY <1>1 DEF FreshPlane
<1> QED BY <1>1, <1>2 DEF IsArmed, AsForked

LEMMA ServedRequest ==
  ASSUME CollapseInv, InArm, NEW i \in Steps, seen[i].pc # "none"
  PROVE  /\ i \in At(Name) /\ seen[i] \in TraceType /\ Traced(Name, Body(Name)[i], seen[i]) /\ SendStep(Body(Name)[i])
         /\ AsForked(Name, plane, down)
<1>1. /\ ArmHolds(Name, harness, down, up, plane, seen, records, quiet) /\ InOrder(Name, harness, seen)
      /\ seen \in [At(Name) -> TraceType]
  BY Standing
<1>2. i \in At(Name) BY DEF Steps, At
<1>3. Traced(Name, Body(Name)[i], seen[i]) BY <1>1, <1>2 DEF InOrder
<1>4. SendStep(Body(Name)[i]) BY <1>3 DEF Traced
<1> QED BY <1>1, <1>2, <1>3, <1>4 DEF ArmHolds

LEMMA EvaluateL1Holds == ASSUME CollapseInv, InArm, NEW i \in Steps, EvaluateL1(i) PROVE CollapseInv'
<1>1. /\ arm \in 1..5 /\ clock \in Nat /\ Name \in Names /\ ArmHolds(Name, harness, down, up, plane, seen, records, quiet)
      /\ plane \in PlaneType /\ IsFiniteSet(plane.arms)
  BY Standing
<1>2. seen[i].pc = "l1" /\ UNCHANGED <<arm, harness, down, up, records, quiet, clock>> BY DEF EvaluateL1
<1> DEFINE b == Body(Name)[i]
           y == seen[i]
           real == IF Faulty("l1") THEN "error" ELSE b.what.l1
           forced == real = "reject" /\ Matching(i, "l1") # {}
           z == AfterL1(Name, y, real, forced)
           s == Spent(plane, "l1")
           w == IF forced THEN Taken(s, i, "l1") ELSE s
<1>3. seen' = [seen EXCEPT ![i] = z] /\ plane' = w BY DEF EvaluateL1, AfterL1
<1>4. i \in At(Name) /\ y \in TraceType /\ Traced(Name, b, y) /\ SendStep(b) /\ AsForked(Name, plane, down)
  BY <1>2, ServedRequest
<1>5. "l1" \in BothLayers BY DEF BothLayers
<1>6. Name # "C2p" => ~Faulty("l1") /\ s = plane BY <1>1, <1>4, <1>5, Unbroken
<1>7. b.what.l1 \in {"pass", "reject"}
  BY <1>4 DEF SendStep, Fixtures, FormFixture, SemFixture, Fabricated, FormPage
<1>8. /\ real = "error" \/ (real = b.what.l1 /\ real \in {"pass", "reject"})
      /\ Name # "C2p" => real # "error"
      /\ forced \in BOOLEAN /\ (forced => real = "reject")
  BY <1>6, <1>7
<1>9. forced => IsArmed(plane, i, "l1") /\ Name \notin {"C0r", "C0"} BY <1>4, MatchingArmed
<1>10. s \in PlaneType /\ s.arms = plane.arms /\ s.abandoned = plane.abandoned BY <1>1, <1>5, SpentPlane
<1> HIDE DEF real, forced, s
<1>11. z \in TraceType /\ Traced(Name, b, z) /\ z.pc # "none"
       /\ z.simulated = IF forced THEN y.simulated \union {"l1"} ELSE y.simulated
  <2>1. y.pc = "l1" BY <1>2
  <2> HIDE DEF b, y
  <2> QED BY <1>1, <2>1, <1>4, <1>8, TraceL1
<1>12. /\ w \in PlaneType /\ IsFiniteSet(w.arms) /\ w.abandoned = s.abandoned /\ w.fault = s.fault
       /\ (~forced /\ w = s) \/ (forced /\ Used(plane, w, i, "l1"))
  <2>1. CASE forced
    <3>1. LET t == Taken(s, i, "l1") IN
          t \in PlaneType /\ IsFiniteSet(t.arms) /\ t.fault = s.fault /\ t.abandoned = s.abandoned /\ Used(s, t, i, "l1")
      BY <1>1, <1>10, TakenUses
    <3>2. w = Taken(s, i, "l1") BY <2>1
    <3> HIDE DEF w
    <3>3. w \in PlaneType /\ IsFiniteSet(w.arms) /\ w.fault = s.fault /\ w.abandoned = s.abandoned /\ Used(s, w, i, "l1")
      BY <3>1, <3>2
    <3>4. Used(plane, w, i, "l1") BY <1>10, <3>3 DEF Used
    <3> QED BY <2>1, <3>3, <3>4
  <2>2. CASE ~forced BY <1>1, <1>10, <2>2
  <2> QED BY <2>1, <2>2
<1> HIDE DEF z, w
<1>13. AsForked(Name, w, down) BY <1>4, <1>6, <1>9, <1>12 DEF AsForked
<1>14. \/ z.simulated = seen[i].simulated /\ w.arms = plane.arms
       \/ z.simulated = seen[i].simulated \union {"l1"} /\ IsArmed(plane, i, "l1") /\ Used(plane, w, i, "l1")
  BY <1>9, <1>10, <1>11, <1>12
<1>15. ArmHolds(Name, harness, down, up, w, [seen EXCEPT ![i] = z], records, quiet)
  <2>1. y.pc # "none" BY <1>2
  <2> QED BY ONLY <1>1, <1>4, <1>11, <1>12, <1>13, <1>14, <2>1, HandlerHolds
<1>16. ArmHolds(Name, harness', down', up', plane', seen', records', quiet') BY <1>2, <1>3, <1>15
<1> QED BY <1>1, <1>2, <1>16, HoldsAgain

LEMMA EgressHolds == ASSUME CollapseInv, InArm, NEW i \in Steps, Egress(i) PROVE CollapseInv'
<1>1. /\ arm \in 1..5 /\ clock \in Nat /\ Name \in Names /\ ArmHolds(Name, harness, down, up, plane, seen, records, quiet)
      /\ plane \in PlaneType /\ IsFiniteSet(plane.arms) /\ seen \in [At(Name) -> TraceType]
  BY Standing
<1>2. seen[i].pc = "egress" /\ UNCHANGED <<arm, harness, down, up, records, quiet, clock>> BY DEF Egress
<1> DEFINE b == Body(Name)[i]
           y == seen[i]
<1>3. PICK end \in {b.what.ends, "egress_failed"} :
        /\ seen' = [seen EXCEPT ![i].pc = "done", ![i].end = end]
        /\ plane' = [plane EXCEPT !.enrolled = @ \/ (/\ b.what = FormPage /\ end # "egress_failed"
                                                     /\ y.l2 = "admitted" /\ y.simulated = {})]
  BY DEF Egress
<1>4. i \in At(Name) /\ y \in TraceType /\ Traced(Name, b, y) /\ SendStep(b) /\ AsForked(Name, plane, down)
  BY <1>2, ServedRequest
<1> DEFINE earns == /\ b.what = FormPage /\ end # "egress_failed"
                    /\ y.l2 = "admitted" /\ y.simulated = {}
           w == [plane EXCEPT !.enrolled = plane.enrolled \/ earns]
           z == AfterEgress(y, end)
<1>5. plane' = w BY <1>3
<1>6. seen' = [seen EXCEPT ![i] = z] BY <1>1, <1>3, <1>4 DEF AfterEgress
<1>7. z \in TraceType /\ Traced(Name, b, z) /\ z.pc # "none" /\ z.simulated = y.simulated
  <2>1. y.pc = "egress" BY <1>2
  <2> HIDE DEF b, y
  <2> QED BY <1>1, <2>1, <1>4, TraceEgress
<1>8. earns \in BOOLEAN /\ plane.enrolled \in BOOLEAN BY <1>1 DEF PlaneType
<1>9. Name \in {"C0r", "C0"} => ~earns BY <1>1, <1>4, StepKinds
<1> HIDE DEF earns
<1>10. w \in PlaneType /\ w.arms = plane.arms /\ w.fault = plane.fault /\ w.abandoned = plane.abandoned
  BY <1>1, <1>8 DEF PlaneType
<1>11. ~earns => w = plane
  <2>1. ~earns => (plane.enrolled \/ earns) = plane.enrolled BY <1>8, Zenon
  <2> QED BY <1>1, <2>1 DEF PlaneType
<1> HIDE DEF w, z
<1>12. AsForked(Name, w, down) BY <1>4, <1>9, <1>10, <1>11 DEF AsForked
<1>13. ArmHolds(Name, harness, down, up, w, [seen EXCEPT ![i] = z], records, quiet)
  <2>1. y.pc # "none" BY <1>2
  <2>2. IsFiniteSet(w.arms) BY <1>1, <1>10
  <2> QED BY ONLY <1>1, <1>4, <1>7, <1>10, <1>12, <2>1, <2>2, HandlerHolds
<1>14. ArmHolds(Name, harness', down', up', plane', seen', records', quiet') BY <1>2, <1>5, <1>6, <1>13
<1> QED BY <1>1, <1>2, <1>14, HoldsAgain

LEMMA DecideHolds == ASSUME CollapseInv, InArm, NEW i \in Steps, Decide(i) PROVE CollapseInv'
<1>1. /\ arm \in 1..5 /\ clock \in Nat /\ Name \in Names /\ ArmHolds(Name, harness, down, up, plane, seen, records, quiet)
      /\ plane \in PlaneType /\ IsFiniteSet(plane.arms)
  BY Standing
<1>2. seen[i].pc = "l2" /\ UNCHANGED <<arm, harness, down, up, records, quiet, clock>> BY DEF Decide
<1> DEFINE b == Body(Name)[i]
           y == seen[i]
           saturated == plane.abandoned >= Places
           faulty == Faulty("l2") /\ ~saturated
           hangs == faulty /\ plane.fault["l2"].kind = "hang"
           s == IF faulty THEN [Spent(plane, "l2") EXCEPT !.abandoned = @ + (IF hangs THEN 1 ELSE 0)] ELSE plane
           fails == saturated \/ faulty
           decided == IF saturated THEN {FailsWith(i, "evaluator_saturation")}
                      ELSE IF hangs THEN {FailsWith(i, "timeout")}
                      ELSE IF faulty THEN {FailsWith(i, "throw")} ELSE DecisionsFor(i)
           forcedBy(d) == d.l2 \in {"shed", "admitted"} /\ Matching(i, "l2") # {}
<1>3. PICK d \in decided :
        /\ seen' = [seen EXCEPT ![i] = Decided(y, d, forcedBy(d), fails)]
        /\ plane' = IF forcedBy(d) THEN Taken(s, i, "l2") ELSE s
  BY DEF Decide
<1> DEFINE forced == forcedBy(d)
           z == Decided(y, d, forced, fails)
           w == IF forced THEN Taken(s, i, "l2") ELSE s
<1>4. i \in At(Name) /\ y \in TraceType /\ Traced(Name, b, y) /\ SendStep(b) /\ AsForked(Name, plane, down)
  BY <1>2, ServedRequest
<1>5. "l2" \in BothLayers BY DEF BothLayers
<1>6. saturated \in BOOLEAN /\ faulty \in BOOLEAN /\ fails \in BOOLEAN /\ y.failed \in BOOLEAN
  <2>1. y.failed \in BOOLEAN BY <1>4 DEF TraceType
  <2>2. saturated \in BOOLEAN /\ faulty \in BOOLEAN OBVIOUS
  <2> QED BY <2>1, <2>2
<1>7. Name # "C2p" => ~fails /\ ~faulty /\ ~saturated BY <1>1, <1>4, <1>5, Unbroken
<1>8. IF fails THEN Failing(d) ELSE d \in Working
  <2>1. CASE saturated BY <1>3, <2>1 DEF FailsWith, Failing
  <2>2. CASE ~saturated /\ faulty BY <1>3, <2>2 DEF FailsWith, Failing
  <2>3. CASE ~saturated /\ ~faulty
    <3>1. d \in DecisionsFor(i) BY <1>3, <2>3
    <3>2. d \in Working BY <3>1 DEF DecisionsFor, Working
    <3> QED BY <2>3, <3>2
  <2> QED BY <2>1, <2>2, <2>3
<1>9. forced \in BOOLEAN /\ (forced => IsArmed(plane, i, "l2") /\ Name \notin {"C0r", "C0"}) BY <1>4, MatchingArmed
<1>10. s \in PlaneType /\ s.arms = plane.arms /\ (~faulty => s = plane)
  <2>1. CASE ~faulty BY <1>1, <2>1
  <2>2. CASE faulty
    <3> DEFINE k == Spent(plane, "l2")
               n == k.abandoned + (IF hangs THEN 1 ELSE 0)
    <3>1. k \in PlaneType /\ k.arms = plane.arms /\ k.abandoned \in Nat BY <1>1, <1>5, SpentPlane
    <3>2. n \in Nat BY <3>1
    <3>3. s = [k EXCEPT !.abandoned = n] BY <2>2
    <3> HIDE DEF k, n, s, hangs, faulty
    <3>4. s \in PlaneType /\ s.arms = k.arms BY <3>1, <3>2, <3>3 DEF PlaneType
    <3> QED BY <2>2, <3>1, <3>4
  <2> QED BY <2>1, <2>2
<1>11. seen' = [seen EXCEPT ![i] = z] /\ plane' = w BY <1>3
<1> HIDE DEF fails, saturated, faulty, hangs, s, decided, forced, forcedBy
<1>12. z \in TraceType /\ Traced(Name, b, z) /\ z.pc # "none"
       /\ z.simulated = IF forced THEN y.simulated \union {"l2"} ELSE y.simulated
  <2>1. y.pc = "l2" BY <1>2
  <2>2. Name # "C2p" => ~fails BY <1>7
  <2> HIDE DEF b, y
  <2> QED BY <1>1, <1>4, <1>6, <1>8, <1>9, <2>1, <2>2, TraceL2
<1>13. /\ w \in PlaneType /\ IsFiniteSet(w.arms) /\ w.abandoned = s.abandoned /\ w.fault = s.fault
       /\ (~forced /\ w = s) \/ (forced /\ Used(plane, w, i, "l2"))
  <2>1. CASE forced
    <3>1. LET t == Taken(s, i, "l2") IN
          t \in PlaneType /\ IsFiniteSet(t.arms) /\ t.fault = s.fault /\ t.abandoned = s.abandoned /\ Used(s, t, i, "l2")
      BY <1>1, <1>10, TakenUses
    <3>2. w = Taken(s, i, "l2") BY <2>1
    <3> HIDE DEF w
    <3>3. w \in PlaneType /\ IsFiniteSet(w.arms) /\ w.fault = s.fault /\ w.abandoned = s.abandoned /\ Used(s, w, i, "l2")
      BY <3>1, <3>2
    <3>4. Used(plane, w, i, "l2") BY <1>10, <3>3 DEF Used
    <3> QED BY <2>1, <3>3, <3>4
  <2>2. CASE ~forced BY <1>1, <1>10, <2>2
  <2> QED BY <2>1, <2>2
<1> HIDE DEF z, w
<1>14. AsForked(Name, w, down) BY <1>4, <1>7, <1>9, <1>10, <1>13 DEF AsForked
<1>15. \/ z.simulated = seen[i].simulated /\ w.arms = plane.arms
       \/ z.simulated = seen[i].simulated \union {"l2"} /\ IsArmed(plane, i, "l2") /\ Used(plane, w, i, "l2")
  BY <1>9, <1>10, <1>12, <1>13
<1>16. ArmHolds(Name, harness, down, up, w, [seen EXCEPT ![i] = z], records, quiet)
  <2>1. y.pc # "none" BY <1>2
  <2> QED BY ONLY <1>1, <1>4, <1>12, <1>13, <1>14, <1>15, <2>1, HandlerHolds
<1>17. ArmHolds(Name, harness', down', up', plane', seen', records', quiet') BY <1>2, <1>11, <1>16
<1> QED BY <1>1, <1>2, <1>17, HoldsAgain

LEMMA ReclaimHolds == ASSUME CollapseInv, ReclaimPlace PROVE CollapseInv'
<1>0. InArm BY DEF ReclaimPlace
<1>1. /\ arm \in 1..5 /\ clock \in Nat /\ Name \in Names /\ ArmHolds(Name, harness, down, up, plane, seen, records, quiet)
      /\ plane \in PlaneType /\ IsFiniteSet(plane.arms)
  BY <1>0, Standing
<1> DEFINE n == plane.abandoned - 1
           w == [plane EXCEPT !.abandoned = n]
<1>2. plane.abandoned > 0 /\ plane' = w /\ UNCHANGED <<arm, harness, down, up, seen, records, quiet, clock>>
  BY DEF ReclaimPlace
<1>3. Name = "C2p" BY <1>1, <1>2 DEF ArmHolds, AsForked
<1>4. n \in Nat BY <1>1, <1>2 DEF PlaneType
<1> HIDE DEF n
<1>5. w \in PlaneType /\ w.arms = plane.arms BY <1>1, <1>4 DEF PlaneType
<1> HIDE DEF w
<1>6. ArmTypes(Name, harness, down, up, w, seen, records) BY <1>1, <1>5 DEF ArmHolds, ArmTypes
<1>7. ArmHolds(Name, harness, down, up, w, seen, records, quiet) BY <1>1, <1>3, <1>6 DEF ArmHolds, AsForked
<1>8. ArmHolds(Name, harness', down', up', plane', seen', records', quiet') BY <1>2, <1>7
<1> QED BY <1>1, <1>2, <1>8, HoldsAgain

-----------------------------------------------------------------------------
(* A fresh arm, and the invariant                                          *)

LEMMA FreshHolds ==
  ASSUME NEW name \in Names
  PROVE  ArmHolds(name, FreshHarness, <<>>, <<>>, FreshPlane, FreshSeen(name), <<>>, NoProbe)
<1> DEFINE h == FreshHarness
           pl == FreshPlane
           q == FreshSeen(name)
<1>1. Len(Body(name)) \in Nat \ {0} BY BodyFacts
<1>2. h \in HarnessType /\ h.at = 1 /\ h.pc = "next" BY LayerSequences DEF FreshHarness, HarnessType
<1>3. pl \in PlaneType /\ pl.arms = {} /\ pl.abandoned = 0 /\ pl.fault = FreshPlane.fault
  <2>1. NoFault \in FaultType BY DEF NoFault, FaultType
  <2>2. [l \in BothLayers |-> NoFault] \in [BothLayers -> FaultType] BY <2>1
  <2> QED BY <2>2 DEF FreshPlane, PlaneType
<1>4. NoRequest \in TraceType /\ NoRequest.pc = "none" /\ NoRequest.simulated = {} /\ NoRequest.end = "none"
      /\ ~NoRequest.failed
  BY DEF NoRequest, TraceType
<1>5. \A i \in At(name) : q[i] = NoRequest BY DEF FreshSeen, At
<1>6. q \in [At(name) -> TraceType] BY <1>4 DEF FreshSeen, At
<1>7. \A b : Traced(name, b, NoRequest) BY DEF NoRequest, Traced, Untraced
<1>8. ToSet(<<>>) = {} /\ \A k \in DOMAIN <<>> : FALSE BY DEF ToSet
<1> HIDE DEF h, pl, q
<1>9. InOrder(name, h, q) BY <1>1, <1>2, <1>4, <1>5, <1>7 DEF InOrder
<1>10. AsForked(name, pl, <<>>) BY <1>3, <1>8 DEF AsForked, pl
<1>11. ArmTypes(name, h, <<>>, <<>>, pl, q, <<>>) BY <1>2, <1>3, <1>6, FS_EmptySet DEF ArmTypes
<1>12. ASSUME name \in {"C1", "C2"}
       PROVE  Taking(name, pl, q) /\ Asking(name, h, <<>>, <<>>, pl, <<>>) /\ Telling(name, h, <<>>, <<>>, pl, NoProbe)
  <2>1. Taking(name, pl, q) BY <1>3, <1>4, <1>5 DEF Taking
  <2>2. Prepared(name, h, pl)
    <3>1. \A i \in At(name) : ~(i < h.at) BY <1>2 DEF At
    <3> QED BY <1>2, <3>1 DEF Prepared
  <2>3. Asking(name, h, <<>>, <<>>, pl, <<>>) BY <1>8, <2>2 DEF Asking
  <2>4. Telling(name, h, <<>>, <<>>, pl, NoProbe) BY <1>8 DEF Telling
  <2> QED BY <2>1, <2>3, <2>4
<1> QED BY <1>9, <1>10, <1>11, <1>12 DEF ArmHolds, h, pl, q

LEMMA ForkHolds == ASSUME NEW next \in 1..5, Fork(next) PROVE CollapseInv'
<1> DEFINE name == ArmNames[next]
<1>1. name \in Names BY DEF ArmNames, Names
<1>2. /\ arm' = next /\ harness' = FreshHarness /\ plane' = FreshPlane /\ seen' = FreshSeen(name)
      /\ down' = <<>> /\ up' = <<>> /\ records' = <<>> /\ quiet' = NoProbe /\ clock' = 0
  BY DEF Fork
<1>3. Name' = name BY <1>2 DEF Name
<1> HIDE DEF name
<1>4. ArmHolds(name, FreshHarness, <<>>, <<>>, FreshPlane, FreshSeen(name), <<>>, NoProbe) BY <1>1, FreshHolds
<1>5. ArmHolds(Name', harness', down', up', plane', seen', records', quiet') BY <1>2, <1>3, <1>4
<1> QED BY <1>2, <1>5 DEF CollapseInv

LEMMA CollapseBegins == CollapseInit => CollapseInv
<1> SUFFICES ASSUME CollapseInit PROVE CollapseInv OBVIOUS
<1> DEFINE name == ArmNames[1]
<1>1. name \in Names BY DEF ArmNames, Names
<1>2. /\ arm = 1 /\ harness = FreshHarness /\ plane = FreshPlane /\ seen = FreshSeen(name)
      /\ down = <<>> /\ up = <<>> /\ records = <<>> /\ quiet = NoProbe /\ clock = 0
  BY DEF CollapseInit
<1>3. Name = name BY <1>2 DEF Name
<1> HIDE DEF name
<1>4. ArmHolds(name, FreshHarness, <<>>, <<>>, FreshPlane, FreshSeen(name), <<>>, NoProbe) BY <1>1, FreshHolds
<1> QED BY <1>2, <1>3, <1>4 DEF CollapseInv

LEMMA CollapseKept == CollapseInv /\ [CollapseNext]_collapseVars => CollapseInv'
<1> SUFFICES ASSUME CollapseInv, [CollapseNext]_collapseVars PROVE CollapseInv' OBVIOUS
<1>1. arm \in 1..5 /\ clock \in Nat BY DEF CollapseInv
<1>2. CASE FinishArm
  <2>1. CASE arm < Len(ArmNames)
    <3>1. Fork(arm + 1) BY <1>2, <2>1 DEF FinishArm
    <3>2. Len(ArmNames) = 5 BY <1>1, ArmKnown
    <3>3. arm + 1 \in 1..5 BY <1>1, <2>1, <3>2
    <3> QED BY <3>1, <3>3, ForkHolds
  <2>2. CASE ~(arm < Len(ArmNames))
    <3>1. UNCHANGED <<arm, harness, plane, seen, down, up, records, quiet, clock>> BY <1>2, <2>2 DEF FinishArm
    <3>2. ArmHolds(Name, harness', down', up', plane', seen', records', quiet') BY <3>1 DEF CollapseInv
    <3> QED BY <1>1, <3>1, <3>2, HoldsAgain
  <2> QED BY <2>1, <2>2
<1>3. CASE RunFails
  <2>1. Fork(arm) BY <1>3 DEF RunFails
  <2> QED BY <1>1, <2>1, ForkHolds
<1>4. CASE Serve
  <2>1. InArm BY <1>4 DEF Serve
  <2>2. PICK i \in Steps : EvaluateL1(i) \/ Decide(i) \/ Egress(i) BY <1>4 DEF Serve
  <2> QED BY <2>1, <2>2, EvaluateL1Holds, DecideHolds, EgressHolds
<1>5. CASE UNCHANGED collapseVars
  <2>1. UNCHANGED <<arm, harness, plane, seen, down, up, records, quiet, clock>> BY <1>5 DEF collapseVars
  <2>2. ArmHolds(Name, harness', down', up', plane', seen', records', quiet') BY <2>1 DEF CollapseInv
  <2> QED BY <1>1, <2>1, <2>2, HoldsAgain
<1> QED BY <1>2, <1>3, <1>4, <1>5, ConnectHolds, AcknowledgedHolds, WaitingHolds, InjectHolds, AskProbeHolds,
           ProbeHeardHolds, TickHolds, ControlHolds, ReclaimHolds DEF CollapseNext

\* What a plane has recorded of the requests of an arm agrees with the arms that were asked for, granted and used.
THEOREM CollapseInvariance == CollapseSpec => []CollapseInv
BY CollapseBegins, CollapseKept, PTL DEF CollapseSpec

-----------------------------------------------------------------------------
(* What the gates of an arm show                                           *)

LEMMA ArmDone ==
  ASSUME CollapseInv, harness.at > Len(Body(Name)), NEW i \in SentSteps
  PROVE  /\ i \in At(Name) /\ i < harness.at /\ DoAt(Name, i) = "send" /\ seen[i] \in TraceType
         /\ Traced(Name, Body(Name)[i], seen[i])
<1>1. Name \in Names /\ InOrder(Name, harness, seen) /\ harness \in HarnessType /\ seen \in [At(Name) -> TraceType]
  BY DEF CollapseInv, ArmHolds, ArmTypes
<1>2. i \in At(Name) /\ DoAt(Name, i) = "send" BY DEF SentSteps, Steps, Sends, At, DoAt
<1>3. Len(Body(Name)) \in Nat /\ harness.at \in Nat BY <1>1, BodyFacts DEF HarnessType
<1>4. i < harness.at BY <1>2, <1>3 DEF At
<1> QED BY <1>1, <1>2, <1>4 DEF InOrder

LEMMA NormalHappened ==
  ASSUME CollapseInv, harness.at > Len(Body(Name)), ArmGates, Name \in {"C0r", "C0"}
  PROVE  Happened
<1>1. \A i \in SentSteps : NormalExpects(i) BY DEF ArmGates
<1>2. plane = FreshPlane BY DEF CollapseInv, ArmHolds, AsForked
<1>3. ASSUME NEW i \in InPhase({"attempt"}) PROVE penetrationOf(seen[i]) = "l1_rejected"
  <2>1. i \in SentSteps /\ Body(Name)[i].phase = "attempt" BY DEF InPhase
  <2>2. seen[i].l1 = "reject" BY <1>1, <2>1 DEF NormalExpects
  <2> QED BY <2>2 DEF penetrationOf
<1> QED BY <1>2, <1>3 DEF Happened

LEMMA CollapseHappened ==
  ASSUME CollapseInv, harness.at > Len(Body(Name)), ArmGates, Name \in {"C1", "C2"}
  PROVE  Happened
<1>1. Settled /\ evaluateCollapse BY DEF ArmGates
<1>2. everyArmUsed /\ \A i \in SentSteps : CollapseExpects(i) BY <1>1 DEF evaluateCollapse
<1>3. /\ Taking(Name, plane, seen) /\ Asking(Name, harness, down, up, plane, records)
      /\ Telling(Name, harness, down, up, plane, quiet)
  BY DEF CollapseInv, ArmHolds
<1>4. Prepared(Name, harness, plane)
  <2>1. Granting(records) BY <1>2 DEF everyArmUsed, Granting
  <2> QED BY <1>3, <2>1 DEF Asking
<1>5. AllConsumed(plane)
  <2>1. harness.at > FinalStep(Name) BY DEF FinalStep
  <2>2. quiet # NoProbe /\ quiet.armed = quiet.consumed BY <1>2 DEF everyArmUsed
  <2> QED BY <1>3, <2>1, <2>2 DEF Telling
<1>6. ASSUME NEW i \in SentSteps PROVE seen[i].simulated = ToSet(Body(Name)[i].layers)
  <2>1. i \in At(Name) /\ i < harness.at /\ DoAt(Name, i) = "send" BY ArmDone
  <2>2. ASSUME NEW l \in LayersAt(Name, i) PROVE l \in seen[i].simulated
    <3>1. PICK a \in plane.arms : a.step = i /\ a.layer = l BY <1>4, <2>1 DEF Prepared, IsArmed
    <3>2. a.consumed BY <1>5 DEF AllConsumed
    <3> QED BY <1>3, <3>1, <3>2 DEF Taking
  <2>3. ASSUME NEW l \in seen[i].simulated PROVE l \in LayersAt(Name, i)
    <3>1. PICK a \in plane.arms : a.step = i /\ a.layer = l BY <1>3, <2>1 DEF Taking, IsArmed
    <3> QED BY <1>3, <3>1 DEF Taking
  <2> QED BY <2>2, <2>3 DEF LayersAt
<1>7. \A i \in SentSteps : "l1" \in seen[i].simulated => Body(Name)[i].what.l1 = "reject" BY ArmDone DEF Traced
<1>8. ASSUME Name = "C1", NEW i \in Forced PROVE seen[i].l2 \in {"admitted", "shed"}
  <2>1. i \in SentSteps /\ Body(Name)[i].phase \in {"collapse", "collapse_burst"} BY DEF Forced, InPhase
  <2>2. i \in At(Name) /\ DoAt(Name, i) = "send" /\ seen[i] \in TraceType /\ Traced(Name, Body(Name)[i], seen[i])
    BY <2>1, ArmDone
  <2>3. IsFixture(i) BY <1>8, <2>1, <2>2, CollapseBodies DEF IsFixture, DoAt, At
  <2>4. "l1" \in seen[i].simulated BY <1>2, <2>1, <2>3 DEF CollapseExpects
  <2>5. seen[i].pc \in {"none", "done"} BY <1>1, <2>1 DEF Settled
  <2>6. seen[i].pc = "done" BY <2>2, <2>4, <2>5 DEF Traced, Untraced
  <2>7. HasL2(Name) BY <1>8 DEF HasL2
  <2>8. seen[i].l1 = "simulated_pass" BY <2>2, <2>4 DEF Traced
  <2>9. seen[i].l2 # "none" BY <2>2, <2>6, <2>7, <2>8 DEF Traced
  <2>10. seen[i].l2 \notin {"error", "degraded"} BY <1>8, <2>2 DEF Traced
  <2>11. seen[i].l2 \in {"none", "admitted", "shed", "degraded", "error"} BY <2>2 DEF TraceType
  <2> QED BY <2>9, <2>10, <2>11
<1>9. \A a \in plane.arms : a.consumed BY <1>5 DEF AllConsumed
<1> QED BY <1>6, <1>7, <1>8, <1>9 DEF Happened

LEMMA FaultsHappened ==
  ASSUME CollapseInv, harness.at > Len(Body(Name)), ArmGates, Name = "C2p"
  PROVE  Happened
<1>1. evaluateC2p BY DEF ArmGates
<1>2. ~plane.enrolled /\ \A i \in SentSteps : C2pExpects(i) BY <1>1 DEF evaluateC2p
<1> DEFINE n == 9 + L2Places
<1>3. /\ At(Name) = 1..n /\ L2Places \in Nat /\ n \in Nat /\ Len(bodyC2p) = n
      /\ DoAt(Name, 1) = "fault" /\ DoAt(Name, 5) = "fault" /\ DoAt(Name, 7 + L2Places) = "fault"
      /\ Body(Name)[3].what = FormPage
  BY FaultBody DEF At, DoAt
<1>4. ASSUME NEW i \in SentSteps
      PROVE  (seen[i].failed => ~Mutated(i)) /\ (i # n => seen[i].failed)
  <2>1. /\ i \in At(Name) /\ DoAt(Name, i) = "send" /\ seen[i] \in TraceType
        /\ Traced(Name, Body(Name)[i], seen[i]) /\ C2pExpects(i)
    BY <1>2, ArmDone
  <2>2. /\ seen[i].l1 = "error" \/ seen[i].l2 \in {"error", "degraded"}
             \/ seen[i].why \in {"throw", "timeout", "evaluator_saturation"} => seen[i].failed
        /\ seen[i].lane = "unverified" => ~seen[i].failed
        /\ seen[i].end # "none" => seen[i].end \in {Body(Name)[i].what.ends, "egress_failed"}
    BY <2>1 DEF Traced
  <2>3. i \in Nat /\ i >= 1 /\ i <= n /\ i # 1 /\ i # 5 /\ i # 7 + L2Places BY <1>3, <2>1
  <2> HIDE DEF n
  <2>4. \/ i \in {2, 4} \/ i = 3 \/ i \in HangSteps \/ i = 8 + L2Places \/ i = n BY <1>3, <2>3 DEF HangSteps, n
  <2>5. CASE i \in {2, 4}
    <3>1. i # 3 /\ i \notin HangSteps /\ i # 8 + L2Places /\ i # Len(bodyC2p) BY <1>3, <2>5 DEF HangSteps, n
    <3>2. seen[i].l2 = "error" /\ seen[i].end = "none" BY <2>1, <2>5, <3>1 DEF C2pExpects
    <3>3. i # n BY <1>3, <3>1
    <3> QED BY <2>2, <3>2, <3>3 DEF Mutated
  <2>6. CASE i = 3
    <3>3. i \notin {2, 4} /\ i \notin HangSteps /\ i # 8 + L2Places /\ i # Len(bodyC2p) BY <1>3, <2>6 DEF HangSteps, n
    <3>1. seen[i].l2 = "degraded" BY <2>1, <2>6, <3>3 DEF C2pExpects
    <3>2. seen[i].end # "app_mutated" BY <1>3, <2>2, <2>6 DEF FormPage
    <3> QED BY <2>2, <3>1, <3>2 DEF Mutated
  <2>7. CASE i \in HangSteps
    <3>1. i \notin {2, 4} /\ i # 3 /\ i # 8 + L2Places /\ i # Len(bodyC2p) BY <1>3, <2>7 DEF HangSteps, n
    <3>2. seen[i].why \in {"timeout", "evaluator_saturation"} /\ seen[i].end = "none" BY <2>1, <2>7, <3>1 DEF C2pExpects
    <3> QED BY <2>2, <3>2 DEF Mutated
  <2>8. CASE i = 8 + L2Places
    <3>1. i \notin {2, 4} /\ i # 3 /\ i \notin HangSteps /\ i # Len(bodyC2p) BY <1>3, <2>8 DEF HangSteps, n
    <3>2. seen[i].l1 = "error" /\ seen[i].end = "none" BY <2>1, <2>8, <3>1 DEF C2pExpects
    <3> QED BY <2>2, <3>2 DEF Mutated
  <2>9. CASE i = n
    <3>1. i \notin {2, 4} /\ i # 3 /\ i \notin HangSteps /\ i # 8 + L2Places /\ i = Len(bodyC2p)
      BY <1>3, <2>9 DEF HangSteps, n
    <3>2. seen[i].lane = "unverified" BY <2>1, <3>1 DEF C2pExpects
    <3> QED BY <2>2, <2>9, <3>2
  <2> QED BY <2>4, <2>5, <2>6, <2>7, <2>8, <2>9
<1> QED BY <1>2, <1>3, <1>4 DEF Happened

LEMMA PassedStep ==
  ASSUME CollapseInv, CollapseNext, gatesOk', arm' # arm \/ conclusion' = "LAYER-DIVERSITY-VALID"
  PROVE  Happened
<1>1. CASE FinishArm
  <2>1. ArmGates /\ harness.at > Len(Body(Name)) BY <1>1 DEF FinishArm
  <2>2. Name \in Names BY DEF CollapseInv, ArmHolds, ArmTypes
  <2> QED BY <2>1, <2>2, NormalHappened, CollapseHappened, FaultsHappened DEF Names
<1>2. CASE RunFails BY <1>2 DEF RunFails, Fork
<1>3. CASE Serve
  <2>1. InArm /\ UNCHANGED <<arm, conclusion>> BY <1>3 DEF Serve, EvaluateL1, Decide, Egress
  <2> QED BY <2>1 DEF InArm
<1>4. CASE Connect \/ Acknowledged \/ ArmTimesOut \/ ClientDone \/ InjectFault
  <2>1. InArm /\ UNCHANGED <<arm, conclusion>> BY <1>4 DEF Connect, Acknowledged, ArmTimesOut, ClientDone, InjectFault
  <2> QED BY <2>1 DEF InArm
<1>5. CASE AskProbe \/ ProbeAnswered \/ ProbeTimesOut \/ ArmTick \/ Control \/ ReclaimPlace
  <2>1. InArm /\ UNCHANGED <<arm, conclusion>>
    BY <1>5 DEF AskProbe, ProbeAnswered, ProbeTimesOut, ArmTick, Control, ReclaimPlace
  <2> QED BY <2>1 DEF InArm
<1> QED BY <1>1, <1>2, <1>3, <1>4, <1>5 DEF CollapseNext

\* An arm that passes its gates is an arm in which the experiment took place (ba0-collapse-run.ts:496-606): exactly the
\* armed layers of exactly the armed requests were overridden and nothing stays armed; an ordinary plane cannot be armed;
\* in C2p every request but the last met its fault, and none of these came through.
THEOREM PassedArmsHappened == CollapseSpec => PassedArmHappened
<1>1. CollapseInv /\ [CollapseNext]_collapseVars =>
        [gatesOk' /\ (arm' # arm \/ conclusion' = "LAYER-DIVERSITY-VALID") => Happened]_collapseVars
  BY PassedStep
<1> QED BY <1>1, CollapseInvariance, PTL DEF CollapseSpec, PassedArmHappened

=============================================================================
