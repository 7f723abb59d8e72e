-------------------------- MODULE LifecycleDispatch --------------------------
(***************************************************************************)
(* How a signed lifecycle command reaches the authority: scheduled mailbox *)
(* runs hand the command to the dispatch guard (a Durable Object), whose   *)
(* ledger decides who may call the executor, and publish what it answers.  *)
(*                                                                         *)
(* The code between two awaits is one step; runs interleave at the awaits. *)
(* The guard's ledger is written in memory and reaches the disk with       *)
(* sync() or when the platform flushes it: a crash falls back to durable.  *)
(* A call that was sent may execute after its caller has died.             *)
(***************************************************************************)
EXTENDS Integers, FiniteSets, Sequences

CONSTANTS
    Commands, Window, Overlap, Retention, Capacity, MaxTime,
    NoCommand,      \* no command
    GuardCapacity,  \* GUARD_CAPACITY
    Runs,           \* concurrent scheduled events of the mailbox
    MaxFaults       \* bound: lost answers, failed writes and crashes

ASSUME NoCommandAssumption == NoCommand \notin Commands
ASSUME GuardAssumption == GuardCapacity \in Nat /\ MaxFaults \in Nat

VARIABLES
    clock, lastNow, releases, receipts, mutations,   \* the authority
    ledger,      \* the guard's tables: [note, latch, settled]
    durable,     \* what of them survives a crash
    pc,          \* where each run is
    command,     \* the command it works on
    outcome,     \* the answer it holds
    orphans,     \* commands whose call is under way without a caller
    results,     \* the object in the result bucket, per command
    reported,    \* commands whose settlement was answered with settled: true
    dispatches,  \* history: executor calls per command
    faults       \* consumption of MaxFaults

authority == <<clock, lastNow, releases, receipts, mutations>>
guard     == <<ledger, durable>>
mailbox   == <<pc, command, outcome>>
vars      == <<authority, guard, mailbox, orphans, results, reported, dispatches, faults>>

A == INSTANCE AuthorityLifecycle

AppliedCommands == {c \in Commands : A!HasReceipt(c)}
Applied(c)      == c \in AppliedCommands

Notes    == {"none", "CLAIMED", "SUCCESS", "ALREADY_APPLIED", "REFUSED", "UNCONFIRMED"}
Outcomes == {"none", "ATTESTED", "APPLIED", "ALREADY_APPLIED", "REFUSED",
             "UNAVAILABLE", "AMBIGUOUS", "UNCONFIRMED", "consumed"}
\* Places inside the guard, and those where the mailbox worker publishes.
GuardPlaces   == {"verifying", "probing", "absent", "claimed", "synced", "calling",
                  "answered", "recorded", "inspecting", "releasing", "released"}
MailboxPlaces == {"idle", "returned", "putting"}

\* A row of claims exists; it is never deleted.
Claimed(l, c) == l.note[c] # "none"
ClaimCount(l) == Cardinality({c \in Commands : Claimed(l, c)})

Init ==
    /\ A!Init
    /\ ledger = [note    |-> [c \in Commands |-> "none"],
                 latch   |-> NoCommand,
                 settled |-> {}]
    /\ durable = ledger
    /\ pc = [r \in Runs |-> "idle"]
    /\ command = [r \in Runs |-> NoCommand]
    /\ outcome = [r \in Runs |-> "none"]
    /\ orphans = {}
    /\ results = [c \in Commands |-> "none"]
    /\ reported = {}
    /\ dispatches = [c \in Commands |-> 0]
    /\ faults = 0

Fault == faults < MaxFaults /\ faults' = faults + 1

\* Run r goes on at place p with answer o.
Goto(r, p, o) ==
    /\ pc' = [pc EXCEPT ![r] = p]
    /\ outcome' = [outcome EXCEPT ![r] = o]
    /\ UNCHANGED command

\* Run r is over: its locals are gone.
End(r) ==
    /\ pc' = [pc EXCEPT ![r] = "idle"]
    /\ command' = [command EXCEPT ![r] = NoCommand]
    /\ outcome' = [outcome EXCEPT ![r] = "none"]

-----------------------------------------------------------------------------
(* LifecycleDispatchGuard.#process                                         *)

\* processSlot has read the command's slot and called the guard, which parses
\* it.  A stale or invalid artifact has no digest and ends the run.
Begin(r, c) ==
    /\ pc[r] = "idle" /\ A!Eligible(c)
    /\ pc' = [pc EXCEPT ![r] = "verifying"]
    /\ command' = [command EXCEPT ![r] = c]
    /\ UNCHANGED <<authority, guard, outcome, orphans, results, reported, dispatches, faults>>

\* Signature and digest are computed: parse again, then ask the authority.
Verified(r) ==
    /\ pc[r] = "verifying"
    /\ IF A!Eligible(command[r]) THEN Goto(r, "probing", "none")
                                 ELSE Goto(r, "returned", "REFUSED")
    /\ UNCHANGED <<authority, guard, orphans, results, reported, dispatches, faults>>

\* attestAppliedLifecycle() answers from the receipts.
ProbeAnswers(r) ==
    /\ pc[r] = "probing"
    /\ IF Applied(command[r]) THEN Goto(r, "returned", "ATTESTED")
                              ELSE Goto(r, "absent", "none")
    /\ UNCHANGED <<authority, guard, orphans, results, reported, dispatches, faults>>

\* The signer is not ready, the history unreadable or the answer lost.
ProbeFails(r) ==
    /\ pc[r] = "probing" /\ Fault
    /\ Goto(r, "returned", "UNAVAILABLE")
    /\ UNCHANGED <<authority, guard, orphans, results, reported, dispatches>>

\* The claim transaction.
Claim(r) ==
    LET c == command[r] IN
    /\ pc[r] = "absent"
    /\ \/ /\ Claimed(ledger, c)
          /\ Goto(r, "returned", "consumed") /\ UNCHANGED ledger
       \/ /\ ~Claimed(ledger, c)
          /\ ledger.latch # NoCommand \/ ClaimCount(ledger) >= GuardCapacity
          /\ Goto(r, "returned", "UNAVAILABLE") /\ UNCHANGED ledger
       \/ /\ ~Claimed(ledger, c)
          /\ ledger.latch = NoCommand /\ ClaimCount(ledger) < GuardCapacity
          /\ ledger' = [note    |-> [ledger.note EXCEPT ![c] = "CLAIMED"],
                         latch   |-> c,
                         settled |-> ledger.settled]
          /\ Goto(r, "claimed", "none")
    /\ UNCHANGED <<authority, durable, orphans, results, reported, dispatches, faults>>

\* Mutant: nobody waits for the claim to reach the disk.
ClaimNotSynced(r) ==
    /\ pc[r] = "claimed"
    /\ Goto(r, "synced", "none")
    /\ UNCHANGED <<authority, guard, orphans, results, reported, dispatches, faults>>

\* sync() after the claim.
ClaimSynced(r) ==
    /\ pc[r] = "claimed"
    /\ durable' = ledger
    /\ Goto(r, "synced", "none")
    /\ UNCHANGED <<authority, ledger, orphans, results, reported, dispatches, faults>>

\* The claim transaction throws and rolls back, or sync() rejects: then the
\* claim may or may not survive.
ClaimFails(r) ==
    /\ pc[r] \in {"absent", "claimed"} /\ Fault
    /\ Goto(r, "returned", "UNCONFIRMED")
    /\ UNCHANGED <<authority, guard, orphans, results, reported, dispatches>>

\* Parse once more and send the one executor call.
Dispatch(r) ==
    LET c == command[r] IN
    /\ pc[r] = "synced"
    /\ IF A!Eligible(c)
         THEN /\ dispatches' = [dispatches EXCEPT ![c] = @ + 1]
              /\ Goto(r, "calling", "none")
         ELSE /\ UNCHANGED dispatches
              /\ Goto(r, "returned", "UNCONFIRMED")
    /\ UNCHANGED <<authority, guard, orphans, results, reported, faults>>

-----------------------------------------------------------------------------
(* OperatorLifecycleExecutor and the authority's lifecycleMutation         *)

\* What a command that the transaction does not apply is answered with.  A
\* key_id conflict is an SQL error, which the executor cannot tell from a lost
\* answer.
Verdict(c) ==
    IF ~A!Eligible(c) THEN "REFUSED"
    ELSE IF Applied(c) THEN "ALREADY_APPLIED"
    ELSE IF \E cur \in releases : A!RotateAccepted(c, cur) THEN "UNCONFIRMED"
    ELSE "REFUSED"

\* The transaction commits and its receipt is signed.
ExecutionApplies(r) ==
    /\ pc[r] = "calling"
    /\ A!Execute(command[r])
    /\ Goto(r, "answered", "APPLIED")
    /\ UNCHANGED <<guard, orphans, results, reported, dispatches, faults>>

\* The transaction commits and signing its receipt fails.
ExecutionAmbiguous(r) ==
    /\ pc[r] = "calling" /\ Fault
    /\ A!Execute(command[r])
    /\ Goto(r, "answered", "AMBIGUOUS")
    /\ UNCHANGED <<guard, orphans, results, reported, dispatches>>

ExecutionRefuses(r) ==
    LET c == command[r] IN
    /\ pc[r] = "calling"
    /\ ~(A!Eligible(c) /\ A!Accepted(c))
    /\ Goto(r, "answered", Verdict(c))
    /\ UNCHANGED <<authority, guard, orphans, results, reported, dispatches, faults>>

\* The executor finds the command stale before it calls the authority.
ExecutorThrows(r) ==
    /\ pc[r] = "calling" /\ ~A!Eligible(command[r])
    /\ Goto(r, "returned", "UNCONFIRMED")
    /\ UNCHANGED <<authority, guard, orphans, results, reported, dispatches, faults>>

\* The signer is not ready: nothing is written.
ExecutionUnavailable(r) ==
    /\ pc[r] = "calling" /\ Fault
    /\ Goto(r, "answered", "UNAVAILABLE")
    /\ UNCHANGED <<authority, guard, orphans, results, reported, dispatches>>

\* The call throws at the guard, or the executor answers UNCONFIRMED, while the
\* authority may still execute the command.
CallLost(r) ==
    /\ pc[r] = "calling" /\ Fault
    /\ orphans' = orphans \union {command[r]}
    /\ \E p \in {"returned", "answered"} : Goto(r, p, "UNCONFIRMED")
    /\ UNCHANGED <<authority, guard, results, reported, dispatches>>

OrphanExecutes(c) ==
    /\ c \in orphans
    /\ orphans' = orphans \ {c}
    /\ A!Execute(c)
    /\ UNCHANGED <<guard, mailbox, results, reported, dispatches, faults>>

OrphanEnds(c) ==
    /\ c \in orphans
    /\ orphans' = orphans \ {c}
    /\ UNCHANGED <<authority, guard, mailbox, results, reported, dispatches, faults>>

-----------------------------------------------------------------------------
(* The result: ledger note, sync, publication                              *)

NoteFor(o) ==
    CASE o = "APPLIED" -> "SUCCESS"
      [] o = "ALREADY_APPLIED" -> "ALREADY_APPLIED"
      [] o = "REFUSED" -> "REFUSED"
      [] OTHER -> "UNCONFIRMED"

\* Mutant: everything that is not a refusal counts as evidence.
OutcomeForPositive(o) == IF o = "REFUSED" THEN "REFUSED" ELSE "ATTESTED"

OutcomeFor(o) ==
    IF o \in {"APPLIED", "ALREADY_APPLIED"} THEN "ATTESTED"
    ELSE IF o = "REFUSED" THEN "REFUSED" ELSE "UNCONFIRMED"

Record(r) ==
    /\ pc[r] = "answered"
    /\ ledger' = [note    |-> [ledger.note EXCEPT ![command[r]] = NoteFor(outcome[r])],
                  latch   |-> ledger.latch,
                  settled |-> ledger.settled]
    /\ Goto(r, "recorded", outcome[r])
    /\ UNCHANGED <<authority, durable, orphans, results, reported, dispatches, faults>>

RecordSynced(r) ==
    /\ pc[r] = "recorded"
    /\ durable' = ledger
    /\ Goto(r, "returned", OutcomeFor(outcome[r]))
    /\ UNCHANGED <<authority, ledger, orphans, results, reported, dispatches, faults>>

\* The note cannot be written, or sync() rejects.
RecordFails(r) ==
    /\ pc[r] \in {"answered", "recorded"} /\ Fault
    /\ Goto(r, "returned", "UNCONFIRMED")
    /\ UNCHANGED <<authority, guard, orphans, results, reported, dispatches>>

\* Mutant: any object that is already there is kept.
KeptAny(c, o) == results[c] # "none"

\* The object of this run may not replace the one that is there.
Kept(c, o) == results[c] = "envelope" \/ (o # "ATTESTED" /\ results[c] # "none")

\* publishSignedEnvelope() and publish() look at the bucket first; an
\* UNAVAILABLE or consumed answer is not published.
HeadResult(r) ==
    /\ pc[r] = "returned"
    /\ IF outcome[r] \in {"UNAVAILABLE", "consumed"} \/ Kept(command[r], outcome[r])
         THEN End(r)
         ELSE Goto(r, "putting", outcome[r])
    /\ UNCHANGED <<authority, guard, orphans, results, reported, dispatches, faults>>

PutResult(r) ==
    /\ pc[r] = "putting"
    /\ results' = [results EXCEPT ![command[r]] =
                     IF outcome[r] = "ATTESTED" THEN "envelope" ELSE "diagnostic"]
    /\ End(r)
    /\ UNCHANGED <<authority, guard, orphans, reported, dispatches, faults>>

PutResultFails(r) ==
    /\ pc[r] = "putting" /\ Fault
    /\ End(r)
    /\ UNCHANGED <<authority, guard, orphans, results, reported, dispatches>>

-----------------------------------------------------------------------------
(* LifecycleDispatchGuard.settle                                           *)

\* The control request names a claimed command.  A settled one is confirmed
\* after a sync, one that holds the latch is inspected, any other is refused.
SettleBegin(r, c) ==
    /\ pc[r] = "idle" /\ Claimed(ledger, c)
    /\ \/ c \in ledger.settled
       \/ ledger.latch = c
    /\ pc' = [pc EXCEPT ![r] = IF c \in ledger.settled THEN "released" ELSE "inspecting"]
    /\ command' = [command EXCEPT ![r] = c]
    /\ UNCHANGED <<authority, guard, outcome, orphans, results, reported, dispatches, faults>>

\* inspectLifecycle() answers EXACT_RECEIPT, or something else.
SettleInspect(r) ==
    /\ pc[r] = "inspecting"
    /\ IF Applied(command[r]) THEN Goto(r, "releasing", "none") ELSE End(r)
    /\ UNCHANGED <<authority, guard, orphans, results, reported, dispatches, faults>>

\* Mutant: settling a command forgets its claim.
SettleReleaseClaim(r) ==
    LET c == command[r] IN
    /\ pc[r] = "releasing"
    /\ ledger' = [ledger EXCEPT !.settled = @ \union {c}, !.latch = NoCommand,
                                !.note[c] = "none"]
    /\ Goto(r, "released", "none")
    /\ UNCHANGED <<authority, durable, orphans, results, reported, dispatches, faults>>

\* The settlement transaction; beyond the capacity it throws.
SettleRelease(r) ==
    LET c == command[r] IN
    /\ pc[r] = "releasing"
    /\ IF c \in ledger.settled \/ ledger.latch # c
         THEN Goto(r, "released", "none") /\ UNCHANGED ledger
       ELSE IF Cardinality(ledger.settled) >= GuardCapacity
         THEN End(r) /\ UNCHANGED ledger
       ELSE /\ ledger' = [note    |-> ledger.note,
                          latch   |-> NoCommand,
                          settled |-> ledger.settled \union {c}]
            /\ Goto(r, "released", "none")
    /\ UNCHANGED <<authority, durable, orphans, results, reported, dispatches, faults>>

SettleSynced(r) ==
    /\ pc[r] = "released"
    /\ durable' = ledger
    /\ reported' = IF command[r] \in ledger.settled
                     THEN reported \union {command[r]} ELSE reported
    /\ End(r)
    /\ UNCHANGED <<authority, ledger, orphans, results, dispatches, faults>>

\* The read, the transaction or sync() fails: settled is false.
SettleFails(r) ==
    /\ pc[r] \in {"inspecting", "releasing", "released"} /\ Fault
    /\ End(r)
    /\ UNCHANGED <<authority, guard, orphans, results, reported, dispatches>>

-----------------------------------------------------------------------------
\* The platform persists what the guard has written.
Flush ==
    /\ durable' = ledger
    /\ UNCHANGED <<authority, ledger, mailbox, orphans, results, reported, dispatches, faults>>

\* The guard dies.  Its callers see an exception; sent calls are still out.
GuardCrash ==
    /\ Fault
    /\ ledger' = durable
    /\ orphans' = orphans \union {command[r] : r \in {q \in Runs : pc[q] = "calling"}}
    /\ pc' = [r \in Runs |-> IF pc[r] \in GuardPlaces THEN "idle" ELSE pc[r]]
    /\ command' = [r \in Runs |-> IF pc[r] \in GuardPlaces THEN NoCommand ELSE command[r]]
    /\ outcome' = [r \in Runs |-> IF pc[r] \in GuardPlaces THEN "none" ELSE outcome[r]]
    /\ UNCHANGED <<authority, durable, results, reported, dispatches>>

\* Time passes, and admissions move the authority's time.
AuthorityTime ==
    /\ A!Tick \/ A!Admit
    /\ UNCHANGED <<guard, mailbox, orphans, results, reported, dispatches, faults>>

ProcessStep(r) ==
    \/ Verified(r) \/ ProbeAnswers(r) \/ ProbeFails(r)
    \/ Claim(r) \/ ClaimSynced(r) \/ ClaimFails(r) \/ Dispatch(r)
    \/ ExecutionApplies(r) \/ ExecutionAmbiguous(r) \/ ExecutionRefuses(r)
    \/ ExecutorThrows(r) \/ ExecutionUnavailable(r) \/ CallLost(r)
    \/ Record(r) \/ RecordSynced(r) \/ RecordFails(r)
    \/ HeadResult(r) \/ PutResult(r) \/ PutResultFails(r)

SettleStep(r) ==
    SettleInspect(r) \/ SettleRelease(r) \/ SettleSynced(r) \/ SettleFails(r)

Next ==
    \/ \E r \in Runs, c \in Commands : Begin(r, c) \/ SettleBegin(r, c)
    \/ \E r \in Runs : ProcessStep(r) \/ SettleStep(r)
    \/ \E c \in Commands : OrphanExecutes(c) \/ OrphanEnds(c)
    \/ Flush
    \/ GuardCrash
    \/ AuthorityTime

Spec == Init /\ [][Next]_vars

\* Every run goes on, and the schedule comes back to every slot.
FairSpec ==
    /\ Spec
    /\ \A r \in Runs : WF_vars(ProcessStep(r)) /\ WF_vars(SettleStep(r))
    /\ \A r \in Runs, c \in Commands : SF_vars(Begin(r, c))

-----------------------------------------------------------------------------
(* Properties.                                                             *)

Ledger == [note : [Commands -> Notes], latch : Commands \union {NoCommand},
           settled : SUBSET Commands]

\* Ledger and disk are tables of known commands; a run has a command exactly
\* while it is not idle.
TypeOK ==
    /\ ledger \in Ledger /\ durable \in Ledger
    /\ pc \in [Runs -> GuardPlaces \union MailboxPlaces]
    /\ command \in [Runs -> Commands \union {NoCommand}]
    /\ \A r \in Runs : pc[r] # "idle" <=> command[r] \in Commands
    /\ outcome \in [Runs -> Outcomes]
    /\ orphans \subseteq Commands
    /\ results \in [Commands -> {"none", "diagnostic", "envelope"}]
    /\ reported \subseteq Commands
    /\ dispatches \in [Commands -> Nat]
    /\ faults \in 0 .. MaxFaults

\* "Exactly one awaited call ... No retry on any error": whatever runs overlap,
\* fail or crash, a command is sent to the executor at most once (#process).
DispatchedOnce == \A c \in Commands : dispatches[c] <= 1

\* "A lifecycle call implies its digest's claim was durably consumed first":
\* the claim of a command that was sent can no longer be lost (#process).
DispatchIsDurable == \A c \in Commands : dispatches[c] > 0 => Claimed(durable, c)

\* A second command is only sent once the settlement of the first is durable:
\* at most one sent command is unsettled (latch, settle).
OneUnsettledCommand ==
    \A c, d \in Commands :
        dispatches[c] > 0 /\ dispatches[d] > 0 /\ c # d
            => c \in durable.settled \/ d \in durable.settled

\* A settlement, and above all one that was confirmed, stands for a command the
\* authority has applied; a confirmed settlement survives a crash (settle).
SettledWasApplied ==
    /\ \A c \in ledger.settled \union durable.settled : Applied(c)
    /\ reported \subseteq durable.settled

\* A command the guard has noted as refused has not been applied and never
\* will be; one noted as applied has its receipt (#process, lifecycleMutation).
NotesAreTrue ==
    \A c \in Commands :
        /\ ledger.note[c] = "REFUSED" => ~Applied(c)
        /\ ledger.note[c] \in {"SUCCESS", "ALREADY_APPLIED"} => Applied(c)

\* Published signed evidence is only there for applied commands.
EvidenceIsTrue == \A c \in Commands : results[c] = "envelope" => Applied(c)

\* "Consumed digests are permanent": no step, not even a crash, takes back a
\* claim that was durable (claims has no DELETE).
ClaimsArePermanent ==
    [][\A c \in Commands : Claimed(durable, c) => Claimed(durable', c) /\ Claimed(ledger', c)]_vars

\* As long as the command is fresh, the schedule ends with the signed evidence
\* of an applied command in the bucket, whatever was published before
\* (processSlot, attestAppliedLifecycle, publishSignedEnvelope).
EvidenceIsPublished ==
    \A c \in Commands : Applied(c) ~> [](results[c] = "envelope")

\* A command is sent at most once, only behind a durable claim, and a second
\* command only behind the settlement of the first (#process, claim, settle).
CommandsRunOnce == DispatchedOnce /\ DispatchIsDurable /\ OneUnsettledCommand

\* Settlements, the guard's notes and the published evidence say of a command
\* what the authority did with it (settle, #process, attestAppliedLifecycle).
ReportsAreTrue == SettledWasApplied /\ NotesAreTrue /\ EvidenceIsTrue

-----------------------------------------------------------------------------
(* The inductive invariant behind the safety properties.                   *)

\* The latch names the one claim that is not settled.
LedgerInv(l) ==
    /\ \A c \in Commands : l.latch = c <=> Claimed(l, c) /\ c \notin l.settled
    /\ \A c \in l.settled : Claimed(l, c)

\* The disk is behind the ledger, never ahead of it.
DurableIsBehind ==
    /\ \A c \in Commands : Claimed(durable, c) => Claimed(ledger, c)
    /\ durable.settled \subseteq ledger.settled

\* The insert winner of a command is alone from its claim to its answer.
Unsent == {"claimed", "synced"}
Sent   == {"calling", "answered", "recorded"}

WinnerInv ==
    /\ \A r \in Runs :
          /\ pc[r] \in Unsent => /\ Claimed(ledger, command[r])
                                 /\ dispatches[command[r]] = 0
          /\ pc[r] = "synced" => Claimed(durable, command[r])
          /\ pc[r] \in Sent => dispatches[command[r]] = 1
    /\ \A r, q \in Runs :
          /\ pc[r] \in Unsent \union Sent /\ pc[q] \in Unsent \union Sent
          /\ command[r] = command[q]
          => r = q

\* A call that is under way has not been executed, and nothing else is.
UnderWay(c) == c \in orphans \/ \E r \in Runs : pc[r] = "calling" /\ command[r] = c

FlightInv ==
    /\ \A c \in Commands : Applied(c) \/ c \in orphans => dispatches[c] = 1
    /\ \A c \in Commands : UnderWay(c) => ~Applied(c)
    /\ \A r \in Runs : pc[r] = "calling" => command[r] \notin orphans

\* A refused command is over: it was sent, not applied, and is not under way.
Dead(c) == dispatches[c] = 1 /\ ~Applied(c) /\ ~UnderWay(c)

AnswerInv ==
    \A r \in Runs :
        /\ pc[r] = "idle" => outcome[r] = "none"
        /\ outcome[r] \in {"ATTESTED", "APPLIED", "ALREADY_APPLIED"} => Applied(command[r])
        /\ pc[r] \in {"answered", "recorded"} /\ outcome[r] = "REFUSED" => Dead(command[r])
        /\ pc[r] = "releasing" => Applied(command[r])

NoteInv(l) ==
    \A c \in Commands :
        /\ l.note[c] = "REFUSED" => Dead(c)
        /\ l.note[c] \in {"SUCCESS", "ALREADY_APPLIED"} => Applied(c)

IInv ==
    /\ TypeOK
    /\ LedgerInv(ledger) /\ LedgerInv(durable)
    /\ DurableIsBehind
    /\ DispatchedOnce
    /\ DispatchIsDurable
    /\ WinnerInv
    /\ FlightInv
    /\ AnswerInv
    /\ NoteInv(ledger) /\ NoteInv(durable)
    /\ SettledWasApplied
    /\ EvidenceIsTrue
==============================================================================
