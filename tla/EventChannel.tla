---------------------------- MODULE EventChannel ----------------------------
(***************************************************************************)
(* How a laboratory run gets its evidence: child processes (the plane, the *)
(* boundary, the app) emit events into a bounded channel with flow control *)
(* (defense/core/ledger.ts, BoundedEventChannel), an IPC pipe carries the  *)
(* frames one way and acknowledgements the other (plane-process.ts,        *)
(* origin-processes.ts, plane/runtime.ts), the collector keeps the ledger  *)
(* (collector.ts) and the runner starts the children, ends the run and     *)
(* judges it (ba0-run.ts, ba0-origin-run.ts).                              *)
(*                                                                         *)
(* An event is its sequence number.  What the events of one request must   *)
(* look like is the business of DefensePlane and HopChain; here a run is   *)
(* judged by the integrity of its streams alone.                           *)
(***************************************************************************)
EXTENDS Integers, Sequences, FiniteSets, SequencesExt

CONSTANTS
    Children,      \* the children in the order they are finished, a sequence
    QueueCap,      \* per child: events that may wait
    WindowCap,     \* per child: events sent and not acknowledged
    MaxFrame,      \* per child: events of one frame
    MaxEvents      \* per child: bound on the events it emits

Names == Range(Children)

ASSUME ChannelAssumption ==
    \A c \in Names : /\ QueueCap[c] \in Nat \ {0} /\ WindowCap[c] \in Nat \ {0}
                     /\ MaxFrame[c] \in Nat \ {0} /\ MaxEvents[c] \in Nat

VARIABLES
    ch,      \* per child: its process and its channel
    up,      \* per child: messages on the pipe to the harness
    down,    \* per child: control messages on the pipe to the child
    handle,  \* per child: the harness's handle on the process
    stream,  \* per child: the collector's view of its events
    run      \* the runner

channelVars == <<ch, up, down, handle, stream, run>>

-----------------------------------------------------------------------------
(* BoundedEventChannel; k is the channel of one child                      *)

Room(c, k) == WindowCap[c] - (k.sent - k.acked)

\* What flush() sends now: frames of at most MaxFrame events while the window has room.
FlushCount(c, k) == IF Len(k.queue) <= Room(c, k) THEN Len(k.queue) ELSE Room(c, k)

Frames(c, events, dropped) ==
    LET last(i) == IF i * MaxFrame[c] <= Len(events) THEN i * MaxFrame[c] ELSE Len(events) IN
    [i \in 1..((Len(events) + MaxFrame[c] - 1) \div MaxFrame[c]) |->
       [type |-> "events", dropped |-> dropped,
        events |-> SubSeq(events, (i - 1) * MaxFrame[c] + 1, last(i))]]

\* flush(): the timer is cleared, and set again when events are left.
flush(c, k) ==
    LET n == FlushCount(c, k) IN
    [channel |-> [k EXCEPT !.queue = SubSeq(@, n + 1, Len(@)), !.sent = @ + n,
                           !.timer = Len(k.queue) > n],
     frames |-> Frames(c, SubSeq(k.queue, 1, n), k.dropped)]

\* emit(): an event that does not fit is dropped, counted, and keeps its sequence number.
emit(c, k) ==
    IF Len(k.queue) >= QueueCap[c]
    THEN [channel |-> [k EXCEPT !.emitted = @ + 1, !.next = @ + 1, !.dropped = @ + 1], frames |-> <<>>]
    ELSE LET queued == [k EXCEPT !.emitted = @ + 1, !.next = @ + 1, !.queue = Append(@, k.next)] IN
         IF Len(queued.queue) >= MaxFrame[c] THEN flush(c, queued)
         ELSE [channel |-> [queued EXCEPT !.timer = TRUE], frames |-> <<>>]

\* acknowledge(): only a count that is new and was sent; then the window may have room.
acknowledge(c, k, n) ==
    flush(c, IF n > k.acked /\ n <= k.sent THEN [k EXCEPT !.acked = n] ELSE k)

IsDrained(k) == k.queue = <<>> /\ k.sent = k.acked

stats(k) == [emitted |-> k.emitted, dropped |-> k.dropped, lastSeq |-> k.next - 1]

FinResult(k, drained) == [type |-> "fin_result", drained |-> drained, channel |-> stats(k)]

-----------------------------------------------------------------------------
(* The child process                                                       *)

\* What the child does to its channel, with the frames that leave meanwhile.
Does(c, result, more) ==
    /\ ch' = [ch EXCEPT ![c] = result.channel]
    /\ up' = [up EXCEPT ![c] = @ \o result.frames \o more]

Emit(c) ==
    /\ ch[c].alive /\ ch[c].emitted < MaxEvents[c]
    /\ Does(c, emit(c, ch[c]), <<>>)
    /\ UNCHANGED <<down, handle, stream, run>>

FlushTimer(c) ==
    /\ ch[c].alive /\ ch[c].timer
    /\ Does(c, flush(c, ch[c]), <<>>)
    /\ UNCHANGED <<down, handle, stream, run>>

\* ack: settle() wakes the drain that waits for the last acknowledgement.
ReceiveAck(c) ==
    /\ ch[c].alive /\ down[c] # <<>> /\ Head(down[c]).type = "ack"
    /\ LET acked == acknowledge(c, ch[c], Head(down[c]).received)
           woken == ch[c].draining /\ IsDrained(acked.channel)
       IN Does(c, [acked EXCEPT !.channel.draining = @ /\ ~woken],
               IF woken THEN <<FinResult(acked.channel, TRUE)>> ELSE <<>>)
    /\ down' = [down EXCEPT ![c] = Tail(@)]
    /\ UNCHANGED <<handle, stream, run>>

\* fin: drain() answers at once or waits.
ReceiveFin(c) ==
    /\ ch[c].alive /\ down[c] # <<>> /\ Head(down[c]).type = "fin"
    /\ LET flushed == flush(c, ch[c]) IN
       IF IsDrained(flushed.channel) THEN Does(c, flushed, <<FinResult(flushed.channel, TRUE)>>)
       ELSE Does(c, [flushed EXCEPT !.channel.draining = TRUE], <<>>)
    /\ down' = [down EXCEPT ![c] = Tail(@)]
    /\ UNCHANGED <<handle, stream, run>>

DrainTimeout(c) ==
    /\ ch[c].alive /\ ch[c].draining
    /\ Does(c, [channel |-> [ch[c] EXCEPT !.draining = FALSE], frames |-> <<>>], <<FinResult(ch[c], FALSE)>>)
    /\ UNCHANGED <<down, handle, stream, run>>

\* stop: the process closes and exits, with what its queue still holds.
ReceiveStop(c) ==
    /\ ch[c].alive /\ down[c] # <<>> /\ Head(down[c]).type = "stop"
    /\ ch' = [ch EXCEPT ![c].alive = FALSE]
    /\ down' = [down EXCEPT ![c] = <<>>]
    /\ UNCHANGED <<up, handle, stream, run>>

\* It dies: what it had written may or may not be read from the pipe.
Crash(c) ==
    /\ ch[c].alive /\ handle[c].ready
    /\ ch' = [ch EXCEPT ![c].alive = FALSE]
    /\ down' = [down EXCEPT ![c] = <<>>]
    /\ \E n \in 0..Len(up[c]) : up' = [up EXCEPT ![c] = SubSeq(@, 1, n)]
    /\ UNCHANGED <<handle, stream, run>>

-----------------------------------------------------------------------------
(* The collector and the handle on a child                                 *)

\* ingestFrame(): anything but the next numbers is an anomaly, and so is anything after the freeze.
Ingested(s, frame) ==
    LET numbers == frame.events IN
    [s EXCEPT !.received = @ \o numbers,
              !.lastSeq = Max({@} \union Range(numbers)),
              !.dropped = IF frame.dropped > @ THEN frame.dropped ELSE @,
              !.anomalies = @ \/ \E i \in DOMAIN numbers : numbers[i] # s.lastSeq + i \/ run.frozen]

SendDown(c, message) == IF handle[c].exited \/ ~ch[c].alive THEN down[c] ELSE Append(down[c], message)

\* onMessage(), events: into the ledger, and the cumulative count goes back.
HarnessReceivesFrame(c) ==
    /\ up[c] # <<>> /\ Head(up[c]).type = "events"
    /\ stream' = [stream EXCEPT ![c] = Ingested(@, Head(up[c]))]
    /\ up' = [up EXCEPT ![c] = Tail(@)]
    /\ down' = [down EXCEPT ![c] = SendDown(c, [type |-> "ack", received |-> Len(stream'[c].received)])]
    /\ UNCHANGED <<ch, handle, run>>

\* onMessage(), fin_result: planeFinished(), even when nobody waits any more.
HarnessReceivesFin(c) ==
    /\ up[c] # <<>> /\ Head(up[c]).type = "fin_result"
    /\ stream' = [stream EXCEPT ![c].fin = Head(up[c])]
    /\ up' = [up EXCEPT ![c] = Tail(@)]
    /\ handle' = [handle EXCEPT ![c].waiting = FALSE]
    /\ UNCHANGED <<ch, down, run>>

\* "exit": a crash unless the harness is stopping it; planeExited() ignores it after a FIN.
ObserveExit(c) ==
    /\ ~ch[c].alive /\ ~handle[c].exited /\ handle[c].ready
    /\ handle' = [handle EXCEPT ![c].exited = TRUE, ![c].waiting = FALSE]
    /\ stream' = [stream EXCEPT ![c].crashed = @ \/ (~handle[c].stopping /\ stream[c].fin = <<>>)]
    /\ UNCHANGED <<ch, up, down, run>>

-----------------------------------------------------------------------------
(* The runner                                                              *)

\* start(): the children come up one after the other, the last in the chain first.
ChildReady(c) ==
    /\ run.pc = "starting" /\ ~handle[c].ready
    /\ \E i \in DOMAIN Children : Children[i] = c /\ \A j \in i + 1..Len(Children) : handle[Children[j]].ready
    /\ handle' = [handle EXCEPT ![c].ready = TRUE]
    /\ ch' = [ch EXCEPT ![c].alive = TRUE]
    /\ run' = [run EXCEPT !.pc = IF \A d \in Names \ {c} : handle[d].ready THEN "phases" ELSE @]
    /\ UNCHANGED <<up, down, stream>>

\* A child that does not become ready, or anything that throws: an ERROR run, and the finally block stops all.
RunThrows ==
    /\ run.pc \in {"starting", "phases"}
    /\ run' = [run EXCEPT !.pc = "stop", !.verdict = "ERROR"]
    /\ UNCHANGED <<ch, up, down, handle, stream>>

PhasesEnd ==
    /\ run.pc = "phases"
    /\ run' = [run EXCEPT !.pc = "finish", !.at = 1]
    /\ UNCHANGED <<ch, up, down, handle, stream>>

\* finish(): not asked of a child that exited.
AskFin ==
    LET c == Children[run.at] IN
    /\ run.pc = "finish"
    /\ run' = [run EXCEPT !.pc = "waitfin"]
    /\ handle' = [handle EXCEPT ![c].waiting = ~handle[c].exited]
    /\ down' = [down EXCEPT ![c] = SendDown(c, [type |-> "fin"])]
    /\ UNCHANGED <<ch, up, stream>>

FinTimeout ==
    LET c == Children[run.at] IN
    /\ run.pc = "waitfin" /\ handle[c].waiting
    /\ handle' = [handle EXCEPT ![c].waiting = FALSE]
    /\ UNCHANGED <<ch, up, down, stream, run>>

\* The next child, or freeze().
FinReturns ==
    /\ run.pc = "waitfin" /\ ~handle[Children[run.at]].waiting
    /\ run' = IF run.at < Len(Children) THEN [run EXCEPT !.pc = "finish", !.at = @ + 1]
              ELSE [run EXCEPT !.pc = "stop", !.frozen = TRUE]
    /\ UNCHANGED <<ch, up, down, handle, stream>>

\* stop() of every child, after the settle time.
StopAll ==
    /\ run.pc = "stop"
    /\ run' = [run EXCEPT !.pc = "stopping"]
    /\ handle' = [c \in Names |-> [handle[c] EXCEPT !.stopping = handle[c].ready]]
    /\ down' = [c \in Names |-> SendDown(c, [type |-> "stop"])]
    /\ UNCHANGED <<ch, up, stream>>

\* Mutant: a stop that waits for the exit only.
KillNever(c) == run.pc = "stopping" /\ ch[c].alive /\ UNCHANGED channelVars

\* The stop timer: SIGKILL.
KillTimer(c) ==
    /\ run.pc = "stopping" /\ ch[c].alive
    /\ ch' = [ch EXCEPT ![c].alive = FALSE]
    /\ down' = [down EXCEPT ![c] = <<>>]
    /\ UNCHANGED <<up, handle, stream, run>>

\* Mutant: a finalization that trusts the FIN.
StreamTrusted(s) == ~s.crashed /\ s.fin # <<>> /\ s.fin.drained /\ s.fin.channel.dropped = 0

\* finalize(), per stream: no crash, a FIN, drained, nothing dropped, nothing missing, no anomaly on the way.
StreamIsClean(s) ==
    /\ ~s.anomalies /\ ~s.crashed
    /\ s.fin # <<>>
    /\ s.fin.drained
    /\ s.fin.channel.dropped = 0 /\ s.dropped = 0
    /\ s.fin.channel.lastSeq = s.lastSeq
    /\ s.fin.channel.emitted = Len(s.received) + s.fin.channel.dropped

Judge ==
    /\ run.pc = "stopping"
    /\ \A c \in Names : handle[c].ready => handle[c].exited
    /\ run' = [run EXCEPT !.pc = "judged",
                 !.verdict = IF @ = "ERROR" THEN @
                             ELSE IF \A c \in Names : StreamIsClean(stream[c]) THEN "VALID" ELSE "INVALID"]
    /\ UNCHANGED <<ch, up, down, handle, stream>>

-----------------------------------------------------------------------------

ChannelInit ==
    /\ ch = [c \in Names |-> [alive |-> FALSE, queue |-> <<>>, next |-> 1, emitted |-> 0, dropped |-> 0,
                              sent |-> 0, acked |-> 0, timer |-> FALSE, draining |-> FALSE]]
    /\ up = [c \in Names |-> <<>>]
    /\ down = [c \in Names |-> <<>>]
    /\ handle = [c \in Names |-> [ready |-> FALSE, exited |-> FALSE, stopping |-> FALSE, waiting |-> FALSE]]
    /\ stream = [c \in Names |-> [received |-> <<>>, lastSeq |-> 0, dropped |-> 0, anomalies |-> FALSE,
                                  fin |-> <<>>, crashed |-> FALSE]]
    /\ run = [pc |-> "starting", at |-> 0, frozen |-> FALSE, verdict |-> "none"]

ChildStep(c) == Emit(c) \/ FlushTimer(c) \/ ReceiveAck(c) \/ ReceiveFin(c) \/ DrainTimeout(c) \/ ReceiveStop(c) \/ Crash(c)
HarnessStep(c) == HarnessReceivesFrame(c) \/ HarnessReceivesFin(c) \/ ObserveExit(c)
RunStep == RunThrows \/ PhasesEnd \/ AskFin \/ FinTimeout \/ FinReturns \/ StopAll \/ Judge

ChannelNext ==
    \/ run.pc # "judged" /\ \/ \E c \in Names : ChildStep(c) \/ HarnessStep(c) \/ ChildReady(c) \/ KillTimer(c)
                            \/ RunStep
    \/ run.pc = "judged" /\ UNCHANGED channelVars

ChannelSpec == ChannelInit /\ [][ChannelNext]_channelVars

\* Timers fire, pipes deliver, exits are observed, and the runner goes on; nothing makes a child emit or crash.
Fairness ==
    /\ \A c \in Names :
          /\ WF_channelVars(FlushTimer(c)) /\ WF_channelVars(ReceiveAck(c)) /\ WF_channelVars(ReceiveFin(c)) /\ WF_channelVars(DrainTimeout(c))
          /\ WF_channelVars(HarnessStep(c)) /\ WF_channelVars(ChildReady(c)) /\ WF_channelVars(KillTimer(c))
    /\ WF_channelVars(PhasesEnd) /\ WF_channelVars(AskFin) /\ WF_channelVars(FinTimeout) /\ WF_channelVars(FinReturns)
    /\ WF_channelVars(StopAll) /\ WF_channelVars(Judge)

FairChannel == ChannelSpec /\ Fairness

-----------------------------------------------------------------------------
(* Properties                                                              *)

\* collector.ts: "loss is explicit and makes the run INVALID, it never becomes silence".  A run is
\* valid only when the ledger holds, once each and in order, every event a child emitted up to the
\* statistics of its FIN, however frames, acknowledgements, drops, timeouts and crashes fell.
ValidIsComplete ==
    run.verdict = "VALID" =>
       \A c \in Names : /\ stream[c].fin # <<>>
                        /\ stream[c].received = [i \in 1..stream[c].fin.channel.emitted |-> i]

\* The events of the frames in a pipe, each by the place of its frame and its own in that.
Positions(pipe) == UNION {{i} \X DOMAIN pipe[i].events : i \in {i \in DOMAIN pipe : pipe[i].type = "events"}}

OnTheWay(c) == Cardinality(Positions(up[c]))

\* ledger.ts, BoundedEventChannel: while a child lives every event it numbered is dropped and
\* counted, waiting, on the pipe or in the ledger; its memory stays within the two caps; and it
\* never believes the collector to have more than it has.
EventsAreConserved ==
    \A c \in Names : ch[c].alive =>
       /\ ch[c].emitted = ch[c].next - 1
       /\ ch[c].emitted = ch[c].dropped + Len(ch[c].queue) + ch[c].sent
       /\ ch[c].sent = OnTheWay(c) + Len(stream[c].received)
       /\ Len(ch[c].queue) <= QueueCap[c] /\ ch[c].sent - ch[c].acked <= WindowCap[c]
       /\ ch[c].acked <= Len(stream[c].received)

\* plane-process.ts, ba0-origin-run.ts: every run ends with a verdict, whatever the children do.
EveryRunIsJudged == <>(run.pc = "judged")

\* Nothing a child emitted is lost without being counted, and a run that misses
\* anything is not valid.
StreamsAreWhole == ValidIsComplete /\ EventsAreConserved
=============================================================================
