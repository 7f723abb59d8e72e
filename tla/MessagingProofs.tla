--------------------------- MODULE MessagingProofs ---------------------------
(***************************************************************************)
(* Proofs about what one process believes of what another one sent it:     *)
(* the lifecycle commands and their receipts (LifecycleDispatch), the      *)
(* events of the children of a laboratory run (EventChannel) and the       *)
(* ledger of the requests that a run is judged by (RunLedger), for any     *)
(* commands, children, caps, frame sizes and requests.                     *)
(***************************************************************************)
EXTENDS LifecycleDispatch, EventChannel, RunLedger,
        FiniteSetTheorems, FunctionTheorems, SequenceTheorems, WellFoundedInduction, TLAPS

-----------------------------------------------------------------------------
(* The lifecycle dispatch                                                  *)

Places == GuardPlaces \union MailboxPlaces

\* An execution adds the receipt of its command and of nothing else.
LEMMA ExecuteApplies ==
  ASSUME NEW c \in Commands, A!Execute(c)
  PROVE  c \notin AppliedCommands /\ AppliedCommands' = AppliedCommands \union {c}
<1>1. ~A!HasReceipt(c) /\ A!InsertReceipt(c)
  BY DEF A!Execute, A!Initialize, A!Rotate, A!InitializeAccepted, A!RotateAccepted
<1>2. \A d \in Commands : (A!HasReceipt(d))' <=> (A!HasReceipt(d) \/ d = c)
  <2> DEFINE x == [digest |-> c, sequence |-> A!LastSequence + 1, applied |-> clock]
  <2>1. receipts' = receipts \union {x}
    BY <1>1 DEF A!InsertReceipt
  <2>2. x.digest = c
    OBVIOUS
  <2> HIDE DEF x
  <2> QED
    BY <2>1, <2>2 DEF A!HasReceipt
<1>3. \A d \in Commands : d \in AppliedCommands' <=> d \in AppliedCommands \union {c}
  BY <1>2 DEF AppliedCommands
<1>4. AppliedCommands \subseteq Commands /\ AppliedCommands' \subseteq Commands
  BY DEF AppliedCommands
<1> QED
  BY <1>1, <1>3, <1>4 DEF AppliedCommands

\* What has been applied is read from the receipts alone.
LEMMA SameReceipts ==
  ASSUME UNCHANGED receipts
  PROVE  AppliedCommands' = AppliedCommands
BY DEF AppliedCommands, A!HasReceipt

\* A step that changes the locals of one run only.  The run does not become a
\* winner and does not send; it may take the answer of its own call.
LEMMA LocalStep ==
  ASSUME IInv, NEW r \in Runs, NEW p \in Places, NEW o \in Outcomes,
         NEW c \in Commands \union {NoCommand},
         UNCHANGED <<receipts, guard, orphans, results, reported, dispatches>>,
         faults' \in 0 .. MaxFaults,
         pc' = [pc EXCEPT ![r] = p],
         command' = [command EXCEPT ![r] = c],
         outcome' = [outcome EXCEPT ![r] = o],
         p # "idle" <=> c \in Commands,
         p = "idle" => o = "none",
         p \in Unsent \union Sent =>
            p \in {"answered", "recorded"} /\ pc[r] = "calling" /\ c = command[r],
         o \in {"ATTESTED", "APPLIED", "ALREADY_APPLIED"} => Applied(c),
         p = "releasing" => Applied(c)
  PROVE  IInv'
<1> USE DEF guard, Applied
<1>a. AppliedCommands' = AppliedCommands
  BY SameReceipts
<1>t. /\ pc \in [Runs -> Places] /\ command \in [Runs -> Commands \union {NoCommand}]
      /\ outcome \in [Runs -> Outcomes]
      /\ \A q \in Runs : pc[q] # "idle" <=> command[q] \in Commands
  BY DEF IInv, TypeOK, Places
<1>q. \A q \in Runs : q # r => pc'[q] = pc[q] /\ command'[q] = command[q] /\ outcome'[q] = outcome[q]
  BY <1>t
<1>r. pc'[r] = p /\ command'[r] = c /\ outcome'[r] = o
  BY <1>t
<1>u. \A d \in Commands : UnderWay(d)' => UnderWay(d)
  BY <1>q, <1>r DEF UnderWay, Unsent, Sent
<1>d. \A d \in Commands : Dead(d) => Dead(d)'
  BY <1>a, <1>u DEF Dead
<1>1. TypeOK'
  BY <1>t, <1>q, <1>r DEF IInv, TypeOK, Places
<1>2. /\ LedgerInv(ledger)' /\ LedgerInv(durable)' /\ DurableIsBehind'
      /\ DispatchedOnce' /\ DispatchIsDurable' /\ SettledWasApplied' /\ EvidenceIsTrue'
  BY <1>a DEF IInv, LedgerInv, Claimed, DurableIsBehind, DispatchedOnce,
              DispatchIsDurable, SettledWasApplied, EvidenceIsTrue
<1>3. WinnerInv'
  BY <1>q, <1>r DEF IInv, WinnerInv, Claimed, Unsent, Sent
<1>4. FlightInv'
  BY <1>a, <1>u, <1>q, <1>r DEF IInv, FlightInv, Unsent, Sent
<1>5. AnswerInv'
  <2> SUFFICES ASSUME NEW q \in Runs
      PROVE /\ pc'[q] = "idle" => outcome'[q] = "none"
            /\ outcome'[q] \in {"ATTESTED", "APPLIED", "ALREADY_APPLIED"} => Applied(command[q])'
            /\ pc'[q] \in {"answered", "recorded"} /\ outcome'[q] = "REFUSED" => Dead(command[q])'
            /\ pc'[q] = "releasing" => Applied(command[q])'
    BY DEF AnswerInv
  <2>1. CASE q # r
    BY <2>1, <1>a, <1>d, <1>q, <1>t DEF IInv, AnswerInv
  <2>2. CASE q = r
    <3>1. ASSUME p \in {"answered", "recorded"} PROVE Dead(c)'
      <4>1. pc[r] = "calling" /\ c = command[r] /\ c \in Commands
        BY <3>1, <1>t DEF Unsent, Sent
      <4>2. dispatches[c] = 1 /\ c \notin AppliedCommands /\ c \notin orphans
        BY <4>1 DEF IInv, WinnerInv, FlightInv, UnderWay, Sent
      <4>3. \A z \in Runs : pc'[z] = "calling" => command'[z] # c
        BY <3>1, <4>1, <1>q, <1>r DEF IInv, WinnerInv, Sent
      <4> QED
        BY <4>2, <4>3, <1>a DEF Dead, UnderWay
    <3> QED
      BY <2>2, <3>1, <1>a, <1>r
  <2> QED
    BY <2>1, <2>2
<1>6. NoteInv(ledger)' /\ NoteInv(durable)'
  BY <1>a, <1>d DEF IInv, NoteInv
<1> QED
  BY <1>1, <1>2, <1>3, <1>4, <1>5, <1>6 DEF IInv

\* The two shapes of a local step: the run goes on with its command, or ends.
LEMMA GotoStep ==
  ASSUME IInv, NEW r \in Runs, NEW p \in Places, NEW o \in Outcomes,
         pc[r] # "idle", p # "idle", Goto(r, p, o),
         UNCHANGED <<receipts, guard, orphans, results, reported, dispatches>>,
         faults' \in 0 .. MaxFaults,
         p \in Unsent \union Sent => p \in {"answered", "recorded"} /\ pc[r] = "calling",
         o \in {"ATTESTED", "APPLIED", "ALREADY_APPLIED"} => Applied(command[r]),
         p = "releasing" => Applied(command[r])
  PROVE  IInv'
<1>1. command \in [Runs -> Commands \union {NoCommand}] /\ command[r] \in Commands
  BY DEF IInv, TypeOK
<1>2. command' = [command EXCEPT ![r] = command[r]]
  BY <1>1 DEF Goto
<1>3. pc' = [pc EXCEPT ![r] = p] /\ outcome' = [outcome EXCEPT ![r] = o]
  BY DEF Goto
<1> QED
  BY <1>1, <1>2, <1>3, LocalStep

\* A run that ends, published or not, disturbs nothing.
LEMMA EndStep ==
  ASSUME IInv, NEW r \in Runs, End(r),
         UNCHANGED <<receipts, guard, orphans, results, reported, dispatches>>,
         faults' \in 0 .. MaxFaults
  PROVE  IInv'
<1>1. "idle" \in Places /\ "none" \in Outcomes /\ "idle" \notin Unsent \union Sent
  BY DEF Places, MailboxPlaces, Outcomes, Unsent, Sent
<1>2. /\ pc' = [pc EXCEPT ![r] = "idle"] /\ outcome' = [outcome EXCEPT ![r] = "none"]
      /\ command' = [command EXCEPT ![r] = NoCommand]
  BY DEF End
<1> QED
  BY <1>1, <1>2, LocalStep, NoCommandAssumption

\* A fault consumes one of the bounded number of faults.
LEMMA FaultStep ==
  ASSUME IInv, Fault
  PROVE  faults' \in 0 .. MaxFaults
BY GuardAssumption DEF IInv, TypeOK, Fault

\* A scheduled event or a settlement request starts a run.
LEMMA LocalBegins ==
  ASSUME IInv, NEW r \in Runs, NEW c \in Commands, Begin(r, c) \/ SettleBegin(r, c)
  PROVE  IInv'
<1>1. PICK p \in {"verifying", "released", "inspecting"} :
        pc' = [pc EXCEPT ![r] = p] /\ command' = [command EXCEPT ![r] = c]
  BY DEF Begin, SettleBegin
<1>2. /\ UNCHANGED <<receipts, guard, orphans, results, reported, dispatches, outcome, faults>>
      /\ pc[r] = "idle"
  BY DEF Begin, SettleBegin, authority
<1>3. outcome \in [Runs -> Outcomes] /\ faults \in 0 .. MaxFaults /\ outcome[r] = "none"
  BY <1>2 DEF IInv, TypeOK, AnswerInv
<1>4. outcome' = [outcome EXCEPT ![r] = "none"] /\ "none" \in Outcomes
  BY <1>2, <1>3 DEF Outcomes
<1>5. p \in Places /\ p \notin Unsent \union Sent /\ p # "releasing"
  BY DEF Places, GuardPlaces, Unsent, Sent
<1> QED
  BY <1>1, <1>2, <1>3, <1>4, <1>5, LocalStep

\* The guard's steps before the claim, and the refusals of the claim.
LEMMA LocalBeforeClaim ==
  ASSUME IInv, NEW r \in Runs,
         \/ Verified(r) \/ ProbeAnswers(r) \/ ProbeFails(r) \/ ClaimFails(r)
         \/ Claim(r) /\ UNCHANGED ledger
  PROVE  IInv'
<1>1. /\ UNCHANGED <<receipts, guard, orphans, results, reported, dispatches>>
      /\ pc[r] # "idle"
  BY DEF Verified, ProbeAnswers, ProbeFails, ClaimFails, Claim, authority, guard
<1>2. faults' \in 0 .. MaxFaults
  BY FaultStep DEF IInv, TypeOK, Verified, ProbeAnswers, ProbeFails, ClaimFails, Claim
<1>3. command \in [Runs -> Commands \union {NoCommand}] /\ command[r] \in Commands
  BY <1>1 DEF IInv, TypeOK
<1>4. ledger.note \in [Commands -> Notes]
  BY DEF IInv, TypeOK, Ledger
<1>5. PICK p \in {"returned", "probing", "absent"},
           o \in {"none", "REFUSED", "ATTESTED", "UNAVAILABLE", "consumed", "UNCONFIRMED"} :
        Goto(r, p, o) /\ (o = "ATTESTED" => Applied(command[r]))
  <2>1. CASE Verified(r) \/ ProbeAnswers(r) \/ ProbeFails(r) \/ ClaimFails(r)
    BY <2>1 DEF Verified, ProbeAnswers, ProbeFails, ClaimFails
  <2>2. CASE Claim(r) /\ UNCHANGED ledger
    <3>1. ledger.note[command[r]] = "none"
              => ledger # [note    |-> [ledger.note EXCEPT ![command[r]] = "CLAIMED"],
                           latch   |-> command[r],
                           settled |-> ledger.settled]
      BY <1>3, <1>4
    <3> QED
      BY <2>2, <3>1 DEF Claim, Claimed
  <2> QED
    BY <2>1, <2>2
<1>6. p \in Places /\ o \in Outcomes /\ p # "idle" /\ p # "releasing" /\ p \notin Unsent \union Sent
  BY DEF Places, GuardPlaces, MailboxPlaces, Outcomes, Unsent, Sent
<1> QED
  BY <1>1, <1>2, <1>5, <1>6, GotoStep

\* The answers that leave the authority as it is.
LEMMA LocalAnswers ==
  ASSUME IInv, NEW r \in Runs,
         \/ ExecutionRefuses(r) \/ ExecutorThrows(r) \/ ExecutionUnavailable(r)
         \/ RecordFails(r)
  PROVE  IInv'
<1>1. /\ UNCHANGED <<receipts, guard, orphans, results, reported, dispatches>>
      /\ pc[r] # "idle"
  BY DEF ExecutionRefuses, ExecutorThrows, ExecutionUnavailable, RecordFails, authority
<1>2. faults' \in 0 .. MaxFaults
  BY FaultStep DEF IInv, TypeOK, ExecutionRefuses, ExecutorThrows, ExecutionUnavailable,
                   RecordFails
<1>3. PICK p \in {"returned", "answered"},
           o \in {"REFUSED", "ALREADY_APPLIED", "UNAVAILABLE", "UNCONFIRMED"} :
        /\ Goto(r, p, o)
        /\ p = "answered" => pc[r] = "calling"
        /\ o = "ALREADY_APPLIED" => Applied(command[r])
  <2>1. CASE ExecutionRefuses(r)
    BY <2>1 DEF ExecutionRefuses, Verdict
  <2>2. CASE ExecutorThrows(r) \/ ExecutionUnavailable(r) \/ RecordFails(r)
    BY <2>2 DEF ExecutorThrows, ExecutionUnavailable, RecordFails
  <2> QED
    BY <2>1, <2>2
<1>4. /\ p \in Places /\ o \in Outcomes /\ p # "idle" /\ p # "releasing"
      /\ p \in Unsent \union Sent => p = "answered"
  BY DEF Places, GuardPlaces, MailboxPlaces, Outcomes, Unsent, Sent
<1> QED
  BY <1>1, <1>2, <1>3, <1>4, GotoStep

\* Publication up to the write, and the settlement's reads and failures.
LEMMA LocalEnds ==
  ASSUME IInv, NEW r \in Runs,
         \/ HeadResult(r) \/ PutResultFails(r) \/ SettleInspect(r) \/ SettleFails(r)
         \/ SettleRelease(r) /\ UNCHANGED ledger
  PROVE  IInv'
<1>1. /\ UNCHANGED <<receipts, guard, orphans, results, reported, dispatches>>
      /\ pc[r] # "idle"
  BY DEF HeadResult, PutResultFails, SettleInspect, SettleFails, SettleRelease, authority, guard
<1>2. faults' \in 0 .. MaxFaults
  BY FaultStep DEF IInv, TypeOK, HeadResult, PutResultFails, SettleInspect, SettleFails,
                   SettleRelease
<1>3. /\ "putting" \in Places /\ "releasing" \in Places /\ "released" \in Places
      /\ "none" \in Outcomes
      /\ {"putting", "releasing", "released"} \intersect (Unsent \union Sent) = {}
  BY DEF Places, GuardPlaces, MailboxPlaces, Outcomes, Unsent, Sent
<1>4. CASE End(r)
  BY <1>1, <1>2, <1>4, EndStep
<1>5. CASE HeadResult(r) /\ ~End(r)
  <2>1. Goto(r, "putting", outcome[r])
    BY <1>5 DEF HeadResult
  <2>2. outcome[r] \in Outcomes
    BY DEF IInv, TypeOK
  <2>3. outcome[r] \in {"ATTESTED", "APPLIED", "ALREADY_APPLIED"} => Applied(command[r])
    BY DEF IInv, AnswerInv
  <2> QED
    BY <1>1, <1>2, <1>3, <2>1, <2>2, <2>3, GotoStep
<1>6. CASE SettleInspect(r) /\ ~End(r)
  <2>1. Goto(r, "releasing", "none") /\ Applied(command[r])
    BY <1>6 DEF SettleInspect
  <2> QED
    BY <1>1, <1>2, <1>3, <2>1, GotoStep
<1>7. CASE SettleRelease(r) /\ UNCHANGED ledger /\ ~End(r)
  <2>1. Goto(r, "released", "none")
    BY <1>7 DEF SettleRelease
  <2> QED
    BY <1>1, <1>2, <1>3, <2>1, GotoStep
<1> QED
  BY <1>4, <1>5, <1>6, <1>7 DEF PutResultFails, SettleFails

\* A step of one run that neither sends nor executes: whatever it writes, the
\* calls that are under way, the dead commands and the answers stay true.
LEMMA QuietStep ==
  ASSUME IInv, NEW r \in Runs, NEW p \in Places, NEW o \in Outcomes,
         NEW c \in Commands \union {NoCommand},
         UNCHANGED <<receipts, orphans, dispatches>>,
         pc' = [pc EXCEPT ![r] = p],
         command' = [command EXCEPT ![r] = c],
         outcome' = [outcome EXCEPT ![r] = o],
         p # "calling",
         p = "idle" => o = "none",
         o \in {"ATTESTED", "APPLIED", "ALREADY_APPLIED"} => Applied(c),
         p = "releasing" => Applied(c),
         p \in {"answered", "recorded"} => /\ pc[r] = "answered"
                                           /\ c = command[r] /\ o = outcome[r]
  PROVE  /\ AppliedCommands' = AppliedCommands
         /\ \A d \in Commands : Dead(d) => Dead(d)'
         /\ DispatchedOnce' /\ FlightInv' /\ AnswerInv'
<1> USE DEF Applied
<1>a. AppliedCommands' = AppliedCommands
  BY SameReceipts
<1>t. /\ pc \in [Runs -> Places] /\ command \in [Runs -> Commands \union {NoCommand}]
      /\ outcome \in [Runs -> Outcomes]
      /\ \A q \in Runs : pc[q] # "idle" <=> command[q] \in Commands
  BY DEF IInv, TypeOK, Places
<1>q. \A q \in Runs : q # r => pc'[q] = pc[q] /\ command'[q] = command[q] /\ outcome'[q] = outcome[q]
  BY <1>t
<1>r. pc'[r] = p /\ command'[r] = c /\ outcome'[r] = o
  BY <1>t
<1>u. \A d \in Commands : UnderWay(d)' => UnderWay(d)
  BY <1>q, <1>r DEF UnderWay
<1>d. \A d \in Commands : Dead(d) => Dead(d)'
  BY <1>a, <1>u DEF Dead
<1>4. FlightInv'
  BY <1>a, <1>u, <1>q, <1>r DEF IInv, FlightInv
<1>5. AnswerInv'
  <2> SUFFICES ASSUME NEW q \in Runs
      PROVE /\ pc'[q] = "idle" => outcome'[q] = "none"
            /\ outcome'[q] \in {"ATTESTED", "APPLIED", "ALREADY_APPLIED"} => Applied(command[q])'
            /\ pc'[q] \in {"answered", "recorded"} /\ outcome'[q] = "REFUSED" => Dead(command[q])'
            /\ pc'[q] = "releasing" => Applied(command[q])'
    BY DEF AnswerInv
  <2>1. CASE q # r
    BY <2>1, <1>a, <1>d, <1>q, <1>t DEF IInv, AnswerInv
  <2>2. CASE q = r
    BY <2>2, <1>a, <1>d, <1>r, <1>t DEF IInv, AnswerInv
  <2> QED
    BY <2>1, <2>2
<1> QED
  BY <1>a, <1>d, <1>4, <1>5 DEF IInv, DispatchedOnce

\* The insert winner: its command had no claim, and the latch was free.
LEMMA ClaimWins ==
  ASSUME IInv, NEW r \in Runs, Claim(r), ledger' # ledger
  PROVE  IInv'
<1> DEFINE c == command[r]
<1> USE DEF Applied
<1>t. /\ pc \in [Runs -> Places] /\ command \in [Runs -> Commands \union {NoCommand}]
      /\ outcome \in [Runs -> Outcomes]
      /\ \A q \in Runs : pc[q] # "idle" <=> command[q] \in Commands
      /\ ledger \in Ledger /\ durable \in Ledger /\ dispatches \in [Commands -> Nat]
  BY DEF IInv, TypeOK, Places
<1>1. /\ pc[r] = "absent" /\ ~Claimed(ledger, c) /\ ledger.latch = NoCommand
      /\ ledger' = [note    |-> [ledger.note EXCEPT ![c] = "CLAIMED"],
                    latch   |-> c,
                    settled |-> ledger.settled]
      /\ Goto(r, "claimed", "none")
      /\ UNCHANGED <<receipts, durable, orphans, results, reported, dispatches, faults>>
  BY DEF Claim, authority
<1>2. c \in Commands /\ command' = [command EXCEPT ![r] = c]
  BY <1>1, <1>t DEF Goto
<1>3. /\ pc' = [pc EXCEPT ![r] = "claimed"] /\ outcome' = [outcome EXCEPT ![r] = "none"]
      /\ "claimed" \in Places /\ "none" \in Outcomes
  BY <1>1 DEF Goto, Places, GuardPlaces, Outcomes
<1>4. /\ AppliedCommands' = AppliedCommands
      /\ \A d \in Commands : Dead(d) => Dead(d)'
      /\ DispatchedOnce' /\ FlightInv' /\ AnswerInv'
  BY <1>1, <1>2, <1>3, QuietStep
<1>5. /\ ledger.note \in [Commands -> Notes] /\ ledger.settled \subseteq Commands
      /\ ledger'.note = [ledger.note EXCEPT ![c] = "CLAIMED"]
      /\ ledger'.latch = c /\ ledger'.settled = ledger.settled
  BY <1>1, <1>t DEF Ledger
<1>6. \A d \in Commands : Claimed(ledger', d) <=> Claimed(ledger, d) \/ d = c
  BY <1>5, <1>2 DEF Claimed
<1>7. TypeOK'
  <2>1. [note    |-> [ledger.note EXCEPT ![c] = "CLAIMED"], latch |-> c,
         settled |-> ledger.settled] \in Ledger
    BY <1>5, <1>2 DEF Ledger, Notes
  <2> QED
    BY <2>1, <1>1, <1>2, <1>3, <1>t DEF IInv, TypeOK, Places
<1>8. LedgerInv(ledger)' /\ LedgerInv(durable)'
  <2>1. LedgerInv(ledger) /\ LedgerInv(durable) /\ c \notin ledger.settled
    BY <1>1, <1>2 DEF IInv, LedgerInv
  <2>2. \A d \in Commands : Claimed(ledger, d) => d \in ledger.settled
    BY <2>1, <1>1, NoCommandAssumption DEF LedgerInv
  <2>3. \A d \in Commands : ledger'.latch = d <=> Claimed(ledger', d) /\ d \notin ledger'.settled
    BY <2>1, <2>2, <1>5, <1>6
  <2>4. \A d \in ledger'.settled : Claimed(ledger', d)
    BY <2>1, <1>5, <1>6 DEF LedgerInv
  <2> QED
    BY <2>1, <2>3, <2>4, <1>1 DEF LedgerInv, Claimed
<1>9. DurableIsBehind' /\ DispatchIsDurable' /\ SettledWasApplied' /\ EvidenceIsTrue'
  BY <1>1, <1>4, <1>5, <1>6 DEF IInv, DurableIsBehind, DispatchIsDurable,
     SettledWasApplied, EvidenceIsTrue, Claimed
<1>10. WinnerInv'
  <2>1. dispatches[c] = 0
    BY <1>1, <1>2, <1>t DEF IInv, DispatchIsDurable, DurableIsBehind
  <2>2. \A q \in Runs : pc[q] \in Unsent \union Sent => command[q] \in Commands /\ Claimed(ledger, command[q])
    BY <1>t DEF IInv, WinnerInv, DispatchIsDurable, DurableIsBehind, Unsent, Sent
  <2>3. \A q \in Runs : q # r => pc'[q] = pc[q] /\ command'[q] = command[q]
    BY <1>2, <1>3, <1>t
  <2>4. pc'[r] = "claimed" /\ command'[r] = c
    BY <1>2, <1>3, <1>t
  <2>5. \A q \in Runs :
          /\ pc'[q] \in Unsent => Claimed(ledger', command'[q]) /\ dispatches'[command'[q]] = 0
          /\ pc'[q] = "synced" => Claimed(durable', command'[q])
          /\ pc'[q] \in Sent => dispatches'[command'[q]] = 1
    BY <2>1, <2>2, <2>3, <2>4, <1>1, <1>2, <1>6 DEF IInv, WinnerInv, Unsent, Sent
  <2>6. \A q \in Runs : q # r /\ pc'[q] \in Unsent \union Sent => command'[q] # c
    BY <2>2, <2>3, <1>1
  <2> QED
    BY <2>3, <2>4, <2>5, <2>6 DEF IInv, WinnerInv
<1>11. NoteInv(ledger)' /\ NoteInv(durable)'
  BY <1>1, <1>2, <1>4, <1>5 DEF IInv, NoteInv
<1> QED
  BY <1>4, <1>7, <1>8, <1>9, <1>10, <1>11 DEF IInv

\* What sync() writes to the disk is as good as the ledger.
LEMMA SyncStep ==
  ASSUME IInv, durable' = ledger, UNCHANGED <<ledger, dispatches, results>>,
         AppliedCommands' = AppliedCommands,
         \A d \in Commands : Dead(d) => Dead(d)',
         reported' \subseteq reported \union ledger.settled
  PROVE  /\ LedgerInv(ledger)' /\ LedgerInv(durable)' /\ DurableIsBehind'
         /\ DispatchIsDurable' /\ SettledWasApplied' /\ EvidenceIsTrue'
         /\ NoteInv(ledger)' /\ NoteInv(durable)'
<1> USE DEF Applied
<1>1. LedgerInv(ledger)' /\ LedgerInv(durable)' /\ DurableIsBehind' /\ DispatchIsDurable'
  BY DEF IInv, LedgerInv, Claimed, DurableIsBehind, DispatchIsDurable
<1>2. SettledWasApplied' /\ EvidenceIsTrue'
  BY DEF IInv, SettledWasApplied, EvidenceIsTrue, DurableIsBehind
<1>3. NoteInv(ledger)' /\ NoteInv(durable)'
  BY DEF IInv, NoteInv
<1> QED
  BY <1>1, <1>2, <1>3

\* Types of the locals, stated once for the steps below.
LEMMA LocalTypes ==
  ASSUME IInv
  PROVE  /\ pc \in [Runs -> Places] /\ command \in [Runs -> Commands \union {NoCommand}]
         /\ outcome \in [Runs -> Outcomes]
         /\ \A q \in Runs : pc[q] # "idle" <=> command[q] \in Commands
         /\ ledger \in Ledger /\ durable \in Ledger /\ dispatches \in [Commands -> Nat]
         /\ faults \in 0 .. MaxFaults
BY DEF IInv, TypeOK, Places

\* sync() after the claim: from here on the claim survives a crash.
LEMMA ClaimSyncedKeeps ==
  ASSUME IInv, NEW r \in Runs, ClaimSynced(r)
  PROVE  IInv'
<1>t. /\ pc \in [Runs -> Places] /\ command \in [Runs -> Commands \union {NoCommand}]
      /\ outcome \in [Runs -> Outcomes]
      /\ \A q \in Runs : pc[q] # "idle" <=> command[q] \in Commands
  BY LocalTypes
<1>1. /\ pc[r] = "claimed" /\ durable' = ledger /\ Goto(r, "synced", "none")
      /\ UNCHANGED <<receipts, ledger, orphans, results, reported, dispatches, faults>>
  BY DEF ClaimSynced, authority
<1>2. /\ command[r] \in Commands /\ command' = [command EXCEPT ![r] = command[r]]
      /\ pc' = [pc EXCEPT ![r] = "synced"] /\ outcome' = [outcome EXCEPT ![r] = "none"]
      /\ "synced" \in Places /\ "none" \in Outcomes
  BY <1>1, <1>t DEF Goto, Places, GuardPlaces, Outcomes
<1>3. /\ AppliedCommands' = AppliedCommands
      /\ \A d \in Commands : Dead(d) => Dead(d)'
      /\ DispatchedOnce' /\ FlightInv' /\ AnswerInv'
  BY <1>1, <1>2, QuietStep
<1>4. /\ LedgerInv(ledger)' /\ LedgerInv(durable)' /\ DurableIsBehind'
      /\ DispatchIsDurable' /\ SettledWasApplied' /\ EvidenceIsTrue'
      /\ NoteInv(ledger)' /\ NoteInv(durable)'
  BY <1>1, <1>3, SyncStep
<1>5. TypeOK'
  BY <1>1, <1>2, <1>t DEF IInv, TypeOK, Places
<1>6. WinnerInv'
  <2>1. \A q \in Runs : pc'[q] = IF q = r THEN "synced" ELSE pc[q]
    BY <1>2, <1>t
  <2>2. command' = command
    BY <1>1 DEF Goto
  <2> QED
    BY <2>1, <2>2, <1>1, <1>t DEF IInv, WinnerInv, DurableIsBehind, Unsent, Sent
<1> QED
  BY <1>3, <1>4, <1>5, <1>6 DEF IInv

\* sync() after the note: the answer goes back to the mailbox worker.
LEMMA RecordSyncedKeeps ==
  ASSUME IInv, NEW r \in Runs, RecordSynced(r)
  PROVE  IInv'
<1> DEFINE o == OutcomeFor(outcome[r])
<1>t. /\ pc \in [Runs -> Places] /\ command \in [Runs -> Commands \union {NoCommand}]
      /\ outcome \in [Runs -> Outcomes]
      /\ \A q \in Runs : pc[q] # "idle" <=> command[q] \in Commands
  BY LocalTypes
<1>1. /\ pc[r] = "recorded" /\ durable' = ledger /\ Goto(r, "returned", o)
      /\ UNCHANGED <<receipts, ledger, orphans, results, reported, dispatches, faults>>
  BY DEF RecordSynced, authority
<1>2. o \in Outcomes /\ (o \in {"ATTESTED", "APPLIED", "ALREADY_APPLIED"} => Applied(command[r]))
  BY DEF OutcomeFor, Outcomes, IInv, AnswerInv
<1> HIDE DEF o
<1>3. /\ command[r] \in Commands /\ command' = [command EXCEPT ![r] = command[r]]
      /\ pc' = [pc EXCEPT ![r] = "returned"] /\ outcome' = [outcome EXCEPT ![r] = o]
      /\ "returned" \in Places
  BY <1>1, <1>t DEF Goto, Places, MailboxPlaces
<1>4. /\ AppliedCommands' = AppliedCommands
      /\ \A d \in Commands : Dead(d) => Dead(d)'
      /\ DispatchedOnce' /\ FlightInv' /\ AnswerInv'
  BY <1>1, <1>2, <1>3, QuietStep
<1>5. /\ LedgerInv(ledger)' /\ LedgerInv(durable)' /\ DurableIsBehind'
      /\ DispatchIsDurable' /\ SettledWasApplied' /\ EvidenceIsTrue'
      /\ NoteInv(ledger)' /\ NoteInv(durable)'
  BY <1>1, <1>4, SyncStep
<1>6. TypeOK'
  BY <1>1, <1>2, <1>3, <1>t DEF IInv, TypeOK, Places
<1>7. WinnerInv'
  <2>1. \A q \in Runs : pc'[q] = IF q = r THEN "returned" ELSE pc[q]
    BY <1>3, <1>t
  <2>2. command' = command
    BY <1>1 DEF Goto
  <2> QED
    BY <2>1, <2>2, <1>1, <1>t DEF IInv, WinnerInv, DurableIsBehind, Unsent, Sent
<1> QED
  BY <1>4, <1>5, <1>6, <1>7 DEF IInv

\* sync() after the settlement: what is confirmed is on the disk.
LEMMA SettleSyncedKeeps ==
  ASSUME IInv, NEW r \in Runs, SettleSynced(r)
  PROVE  IInv'
<1>t. /\ pc \in [Runs -> Places] /\ command \in [Runs -> Commands \union {NoCommand}]
      /\ outcome \in [Runs -> Outcomes]
      /\ \A q \in Runs : pc[q] # "idle" <=> command[q] \in Commands
  BY LocalTypes
<1>1. /\ pc[r] = "released" /\ durable' = ledger
      /\ UNCHANGED <<receipts, ledger, orphans, results, dispatches, faults>>
      /\ reported' \subseteq reported \union ledger.settled
  BY DEF SettleSynced, authority
<1>2. /\ command' = [command EXCEPT ![r] = NoCommand]
      /\ pc' = [pc EXCEPT ![r] = "idle"] /\ outcome' = [outcome EXCEPT ![r] = "none"]
      /\ "idle" \in Places /\ "none" \in Outcomes
  BY DEF SettleSynced, End, Places, MailboxPlaces, Outcomes
<1>3. /\ AppliedCommands' = AppliedCommands
      /\ \A d \in Commands : Dead(d) => Dead(d)'
      /\ DispatchedOnce' /\ FlightInv' /\ AnswerInv'
  BY <1>1, <1>2, QuietStep
<1>4. /\ LedgerInv(ledger)' /\ LedgerInv(durable)' /\ DurableIsBehind'
      /\ DispatchIsDurable' /\ SettledWasApplied' /\ EvidenceIsTrue'
      /\ NoteInv(ledger)' /\ NoteInv(durable)'
  BY <1>1, <1>3, SyncStep
<1>5. TypeOK'
  <2>1. reported' \subseteq Commands
    BY <1>1 DEF IInv, TypeOK, Ledger
  <2> QED
    BY <2>1, <1>1, <1>2, <1>t, NoCommandAssumption DEF IInv, TypeOK, Places
<1>6. WinnerInv'
  <2>1. /\ \A q \in Runs : q # r => pc'[q] = pc[q] /\ command'[q] = command[q]
        /\ pc'[r] = "idle"
    BY <1>2, <1>t
  <2> QED
    BY <2>1, <1>1, <1>t DEF IInv, WinnerInv, DurableIsBehind, Unsent, Sent
<1> QED
  BY <1>3, <1>4, <1>5, <1>6 DEF IInv

\* The platform may persist the ledger at any time.
LEMMA FlushKeeps ==
  ASSUME IInv, Flush
  PROVE  IInv'
<1>1. /\ durable' = ledger
      /\ UNCHANGED <<receipts, ledger, mailbox, orphans, results, reported, dispatches, faults>>
  BY DEF Flush, authority
<1>2. AppliedCommands' = AppliedCommands
  BY <1>1, SameReceipts
<1>3. \A d \in Commands : Dead(d) => Dead(d)'
  BY <1>1, <1>2 DEF Dead, UnderWay, Applied, mailbox
<1>4. /\ LedgerInv(ledger)' /\ LedgerInv(durable)' /\ DurableIsBehind'
      /\ DispatchIsDurable' /\ SettledWasApplied' /\ EvidenceIsTrue'
      /\ NoteInv(ledger)' /\ NoteInv(durable)'
  BY <1>1, <1>2, <1>3, SyncStep
<1>5. TypeOK' /\ DispatchedOnce'
  BY <1>1 DEF IInv, TypeOK, DispatchedOnce, mailbox
<1>6. WinnerInv'
  BY <1>1, LocalTypes DEF IInv, WinnerInv, DurableIsBehind, mailbox, Unsent, Sent
<1>7. FlightInv' /\ AnswerInv'
  BY <1>1, <1>2, <1>3, LocalTypes DEF IInv, FlightInv, AnswerInv, UnderWay, Applied, mailbox
<1> QED
  BY <1>4, <1>5, <1>6, <1>7 DEF IInv

\* The note of an answered command is what the answer proves.
LEMMA RecordKeeps ==
  ASSUME IInv, NEW r \in Runs, Record(r)
  PROVE  IInv'
<1> DEFINE c == command[r]
           n == NoteFor(outcome[r])
<1> USE DEF Applied
<1>t. /\ pc \in [Runs -> Places] /\ command \in [Runs -> Commands \union {NoCommand}]
      /\ outcome \in [Runs -> Outcomes]
      /\ \A q \in Runs : pc[q] # "idle" <=> command[q] \in Commands
      /\ ledger \in Ledger /\ durable \in Ledger
  BY LocalTypes
<1>1. /\ pc[r] = "answered" /\ Goto(r, "recorded", outcome[r])
      /\ ledger' = [note |-> [ledger.note EXCEPT ![c] = n], latch |-> ledger.latch,
                    settled |-> ledger.settled]
      /\ UNCHANGED <<receipts, durable, orphans, results, reported, dispatches, faults>>
  BY DEF Record, authority
<1>2. c \in Commands /\ Claimed(ledger, c) /\ outcome[r] \in Outcomes
  BY <1>1, <1>t DEF IInv, WinnerInv, DispatchIsDurable, DurableIsBehind, Sent
<1>3. /\ n \in Notes \ {"none"}
      /\ n = "REFUSED" => Dead(c)
      /\ n \in {"SUCCESS", "ALREADY_APPLIED"} => Applied(c)
  BY <1>1 DEF NoteFor, Notes, IInv, AnswerInv
<1> HIDE DEF n
<1>4. /\ command' = [command EXCEPT ![r] = c]
      /\ pc' = [pc EXCEPT ![r] = "recorded"] /\ outcome' = [outcome EXCEPT ![r] = outcome[r]]
      /\ "recorded" \in Places
  BY <1>1, <1>t DEF Goto, Places, GuardPlaces
<1>5. outcome[r] \in {"ATTESTED", "APPLIED", "ALREADY_APPLIED"} => Applied(c)
  BY DEF IInv, AnswerInv
<1>6. /\ AppliedCommands' = AppliedCommands
      /\ \A d \in Commands : Dead(d) => Dead(d)'
      /\ DispatchedOnce' /\ FlightInv' /\ AnswerInv'
  BY <1>1, <1>2, <1>4, <1>5, QuietStep
<1>7. /\ ledger.note \in [Commands -> Notes] /\ ledger.settled \subseteq Commands
      /\ ledger'.note = [ledger.note EXCEPT ![c] = n]
      /\ ledger'.latch = ledger.latch /\ ledger'.settled = ledger.settled
  BY <1>1, <1>t DEF Ledger
<1>8. \A d \in Commands : Claimed(ledger', d) <=> Claimed(ledger, d)
  BY <1>2, <1>3, <1>7 DEF Claimed
<1>9. TypeOK'
  <2>1. [note |-> [ledger.note EXCEPT ![c] = n], latch |-> ledger.latch,
         settled |-> ledger.settled] \in Ledger
    BY <1>2, <1>3, <1>7, <1>t DEF Ledger
  <2> QED
    BY <2>1, <1>1, <1>2, <1>4, <1>t DEF IInv, TypeOK, Places
<1>10. LedgerInv(ledger)' /\ LedgerInv(durable)' /\ DurableIsBehind'
  <2>1. LedgerInv(ledger)'
    BY <1>7, <1>8 DEF IInv, LedgerInv
  <2>2. LedgerInv(durable)' /\ DurableIsBehind'
    BY <1>1, <1>7, <1>8 DEF IInv, LedgerInv, DurableIsBehind, Claimed
  <2> QED
    BY <2>1, <2>2
<1>11. DispatchIsDurable' /\ SettledWasApplied' /\ EvidenceIsTrue'
  BY <1>1, <1>6, <1>7 DEF IInv, DispatchIsDurable, SettledWasApplied, EvidenceIsTrue, Claimed
<1>12. WinnerInv'
  <2>1. \A q \in Runs : pc'[q] = IF q = r THEN "recorded" ELSE pc[q]
    BY <1>4, <1>t
  <2>2. command' = command
    BY <1>1 DEF Goto
  <2>3. \A q \in Runs : pc[q] \in Unsent \union Sent => command[q] \in Commands
    BY <1>t DEF Unsent, Sent
  <2> QED
    BY <2>1, <2>2, <2>3, <1>1, <1>8 DEF IInv, WinnerInv, Unsent, Sent, Claimed
<1>13. NoteInv(ledger)' /\ NoteInv(durable)'
  BY <1>1, <1>2, <1>3, <1>6, <1>7 DEF IInv, NoteInv
<1> QED
  BY <1>6, <1>9, <1>10, <1>11, <1>12, <1>13 DEF IInv

\* Only an attested answer becomes an envelope.
LEMMA PutResultKeeps ==
  ASSUME IInv, NEW r \in Runs, PutResult(r)
  PROVE  IInv'
<1> DEFINE c == command[r]
           v == IF outcome[r] = "ATTESTED" THEN "envelope" ELSE "diagnostic"
<1> USE DEF Applied
<1>t. /\ pc \in [Runs -> Places] /\ command \in [Runs -> Commands \union {NoCommand}]
      /\ outcome \in [Runs -> Outcomes]
      /\ \A q \in Runs : pc[q] # "idle" <=> command[q] \in Commands
  BY LocalTypes
<1>1. /\ pc[r] = "putting" /\ results' = [results EXCEPT ![c] = v]
      /\ UNCHANGED <<receipts, guard, orphans, reported, dispatches, faults>>
  BY DEF PutResult, authority
<1>2. /\ command' = [command EXCEPT ![r] = NoCommand]
      /\ pc' = [pc EXCEPT ![r] = "idle"] /\ outcome' = [outcome EXCEPT ![r] = "none"]
      /\ "idle" \in Places /\ "none" \in Outcomes
  BY DEF PutResult, End, Places, MailboxPlaces, Outcomes
<1>3. /\ AppliedCommands' = AppliedCommands
      /\ \A d \in Commands : Dead(d) => Dead(d)'
      /\ DispatchedOnce' /\ FlightInv' /\ AnswerInv'
  BY <1>1, <1>2, QuietStep
<1>4. TypeOK'
  BY <1>1, <1>2, <1>t, NoCommandAssumption DEF IInv, TypeOK, Places, guard
<1>5. LedgerInv(ledger)' /\ LedgerInv(durable)' /\ DurableIsBehind' /\ DispatchIsDurable'
  BY <1>1 DEF IInv, LedgerInv, Claimed, DurableIsBehind, DispatchIsDurable, guard
<1>6. SettledWasApplied' /\ NoteInv(ledger)' /\ NoteInv(durable)'
  BY <1>1, <1>3 DEF IInv, SettledWasApplied, NoteInv, guard
<1>7. EvidenceIsTrue'
  <2>1. v = "envelope" => c \in AppliedCommands
    BY DEF IInv, AnswerInv
  <2>2. results \in [Commands -> {"none", "diagnostic", "envelope"}]
    BY DEF IInv, TypeOK
  <2> QED
    BY <2>1, <2>2, <1>1, <1>3 DEF IInv, EvidenceIsTrue
<1>8. WinnerInv'
  <2>1. /\ \A q \in Runs : q # r => pc'[q] = pc[q] /\ command'[q] = command[q]
        /\ pc'[r] = "idle"
    BY <1>2, <1>t
  <2> QED
    BY <2>1, <1>1 DEF IInv, WinnerInv, Claimed, Unsent, Sent, guard
<1> QED
  BY <1>3, <1>4, <1>5, <1>6, <1>7, <1>8 DEF IInv

\* The latch is released for an applied command only.
LEMMA SettleReleaseKeeps ==
  ASSUME IInv, NEW r \in Runs, SettleRelease(r), ledger' # ledger
  PROVE  IInv'
<1> DEFINE c == command[r]
<1> USE DEF Applied
<1>t. /\ pc \in [Runs -> Places] /\ command \in [Runs -> Commands \union {NoCommand}]
      /\ outcome \in [Runs -> Outcomes]
      /\ \A q \in Runs : pc[q] # "idle" <=> command[q] \in Commands
      /\ ledger \in Ledger /\ durable \in Ledger
  BY LocalTypes
<1>1. /\ pc[r] = "releasing" /\ Goto(r, "released", "none") /\ ledger.latch = c
      /\ ledger' = [note |-> ledger.note, latch |-> NoCommand,
                    settled |-> ledger.settled \union {c}]
      /\ UNCHANGED <<receipts, durable, orphans, results, reported, dispatches, faults>>
  BY DEF SettleRelease, authority
<1>2. /\ c \in Commands /\ c \in AppliedCommands
      /\ command' = [command EXCEPT ![r] = c]
      /\ pc' = [pc EXCEPT ![r] = "released"] /\ outcome' = [outcome EXCEPT ![r] = "none"]
      /\ "released" \in Places /\ "none" \in Outcomes
  BY <1>1, <1>t DEF Goto, Places, GuardPlaces, Outcomes, IInv, AnswerInv
<1>3. /\ AppliedCommands' = AppliedCommands
      /\ \A d \in Commands : Dead(d) => Dead(d)'
      /\ DispatchedOnce' /\ FlightInv' /\ AnswerInv'
  BY <1>1, <1>2, QuietStep
<1>4. /\ ledger'.note = ledger.note /\ ledger'.latch = NoCommand
      /\ ledger'.settled = ledger.settled \union {c}
  BY <1>1
<1>5. TypeOK'
  <2>1. [note |-> ledger.note, latch |-> NoCommand,
         settled |-> ledger.settled \union {c}] \in Ledger
    BY <1>2, <1>t DEF Ledger
  <2> QED
    BY <2>1, <1>1, <1>2, <1>t DEF IInv, TypeOK, Places
<1>6. LedgerInv(ledger)' /\ LedgerInv(durable)' /\ DurableIsBehind'
  BY <1>1, <1>2, <1>4, NoCommandAssumption DEF IInv, LedgerInv, DurableIsBehind, Claimed
<1>7. /\ DispatchIsDurable' /\ SettledWasApplied' /\ EvidenceIsTrue'
      /\ NoteInv(ledger)' /\ NoteInv(durable)'
  BY <1>1, <1>2, <1>3, <1>4 DEF IInv, DispatchIsDurable, SettledWasApplied, EvidenceIsTrue,
     NoteInv, Claimed
<1>8. WinnerInv'
  <2>1. \A q \in Runs : pc'[q] = IF q = r THEN "released" ELSE pc[q]
    BY <1>2, <1>t
  <2>2. command' = command
    BY <1>1 DEF Goto
  <2> QED
    BY <2>1, <2>2, <1>1, <1>4 DEF IInv, WinnerInv, Claimed, Unsent, Sent
<1> QED
  BY <1>3, <1>5, <1>6, <1>7, <1>8 DEF IInv

\* The call is sent by the run that alone holds the synced claim.
LEMMA DispatchKeeps ==
  ASSUME IInv, NEW r \in Runs, Dispatch(r)
  PROVE  IInv'
<1> DEFINE c == command[r]
<1> USE DEF Applied
<1>t. /\ pc \in [Runs -> Places] /\ command \in [Runs -> Commands \union {NoCommand}]
      /\ outcome \in [Runs -> Outcomes]
      /\ \A q \in Runs : pc[q] # "idle" <=> command[q] \in Commands
      /\ dispatches \in [Commands -> Nat] /\ faults \in 0 .. MaxFaults
  BY LocalTypes
<1>1. /\ pc[r] = "synced"
      /\ UNCHANGED <<receipts, guard, orphans, results, reported, faults>>
  BY DEF Dispatch, authority
<1>2. CASE ~A!Eligible(c)
  <2>1. Goto(r, "returned", "UNCONFIRMED") /\ UNCHANGED dispatches
    BY <1>2 DEF Dispatch
  <2>2. /\ "returned" \in Places /\ "UNCONFIRMED" \in Outcomes
        /\ "returned" \notin Unsent \union Sent
    BY DEF Places, MailboxPlaces, Outcomes, Unsent, Sent
  <2> QED
    BY <2>1, <2>2, <1>1, <1>t, GotoStep
<1>3. CASE A!Eligible(c)
  <2>1. Goto(r, "calling", "none") /\ dispatches' = [dispatches EXCEPT ![c] = @ + 1]
    BY <1>3 DEF Dispatch
  <2>2. c \in Commands /\ dispatches[c] = 0 /\ Claimed(durable, c)
    BY <1>1, <1>t DEF IInv, WinnerInv, Unsent
  <2>3. \A d \in Commands : dispatches'[d] = IF d = c THEN 1 ELSE dispatches[d]
    BY <2>1, <2>2, <1>t
  <2>4. /\ command' = command
        /\ \A q \in Runs : pc'[q] = IF q = r THEN "calling" ELSE pc[q]
        /\ \A q \in Runs : outcome'[q] = IF q = r THEN "none" ELSE outcome[q]
    BY <2>1, <1>t DEF Goto
  <2>5. AppliedCommands' = AppliedCommands
    BY <1>1, SameReceipts
  <2>6. \A d \in Commands : UnderWay(d)' => UnderWay(d) \/ d = c
    BY <2>4, <1>1 DEF UnderWay
  <2>7. \A d \in Commands : Dead(d) => Dead(d)'
    BY <2>2, <2>3, <2>5, <2>6 DEF Dead
  <2>8. TypeOK'
    BY <2>1, <2>2, <2>4, <1>1, <1>t
       DEF IInv, TypeOK, Places, GuardPlaces, Outcomes, guard, Goto
  <2>9. /\ LedgerInv(ledger)' /\ LedgerInv(durable)' /\ DurableIsBehind'
        /\ SettledWasApplied' /\ EvidenceIsTrue'
    BY <1>1, <2>5 DEF IInv, LedgerInv, Claimed, DurableIsBehind, SettledWasApplied,
                      EvidenceIsTrue, guard
  <2>10. DispatchedOnce' /\ DispatchIsDurable'
    BY <1>1, <2>2, <2>3 DEF IInv, DispatchedOnce, DispatchIsDurable, Claimed, guard
  <2>11. WinnerInv'
    <3>1. \A q \in Runs : pc[q] \in Unsent \union Sent =>
             command[q] \in Commands /\ (command[q] = c => q = r)
      BY <1>1, <1>t DEF IInv, WinnerInv, Unsent, Sent
    <3>2. \A q \in Runs :
          /\ pc'[q] \in Unsent => Claimed(ledger', command'[q]) /\ dispatches'[command'[q]] = 0
          /\ pc'[q] = "synced" => Claimed(durable', command'[q])
          /\ pc'[q] \in Sent => dispatches'[command'[q]] = 1
      BY <3>1, <2>2, <2>3, <2>4, <1>1 DEF IInv, WinnerInv, Unsent, Sent, Claimed, guard
    <3> QED
      BY <3>1, <3>2, <2>4, <1>1 DEF IInv, WinnerInv, Unsent, Sent
  <2>12. FlightInv'
    <3>1. c \notin AppliedCommands /\ c \notin orphans
      BY <2>2 DEF IInv, FlightInv
    <3> QED
      BY <3>1, <2>3, <2>4, <2>5, <2>6, <1>1 DEF IInv, FlightInv
  <2>13. AnswerInv'
    BY <2>4, <2>5, <2>7, <1>t DEF IInv, AnswerInv
  <2>14. NoteInv(ledger)' /\ NoteInv(durable)'
    BY <1>1, <2>5, <2>7 DEF IInv, NoteInv, guard
  <2> QED
    BY <2>8, <2>9, <2>10, <2>11, <2>12, <2>13, <2>14 DEF IInv
<1> QED
  BY <1>2, <1>3

\* The authority executes the one call that is under way for the command.
LEMMA ExecutionKeeps ==
  ASSUME IInv, NEW r \in Runs, ExecutionApplies(r) \/ ExecutionAmbiguous(r)
  PROVE  IInv'
<1> DEFINE c == command[r]
<1> USE DEF Applied
<1>t. /\ pc \in [Runs -> Places] /\ command \in [Runs -> Commands \union {NoCommand}]
      /\ outcome \in [Runs -> Outcomes]
      /\ \A q \in Runs : pc[q] # "idle" <=> command[q] \in Commands
      /\ dispatches \in [Commands -> Nat] /\ faults \in 0 .. MaxFaults
  BY LocalTypes
<1>1. /\ pc[r] = "calling" /\ A!Execute(c)
      /\ UNCHANGED <<guard, orphans, results, reported, dispatches>>
  BY DEF ExecutionApplies, ExecutionAmbiguous
<1>f. faults' \in 0 .. MaxFaults
  BY FaultStep, <1>t DEF ExecutionApplies, ExecutionAmbiguous
<1>2. PICK o \in {"APPLIED", "AMBIGUOUS"} : Goto(r, "answered", o)
  BY DEF ExecutionApplies, ExecutionAmbiguous
<1>3. c \in Commands /\ c \notin AppliedCommands /\ AppliedCommands' = AppliedCommands \union {c}
  BY <1>1, <1>t, ExecuteApplies
<1>4. /\ command' = command
      /\ \A q \in Runs : pc'[q] = IF q = r THEN "answered" ELSE pc[q]
      /\ \A q \in Runs : outcome'[q] = IF q = r THEN o ELSE outcome[q]
  BY <1>2, <1>t DEF Goto
<1>5. dispatches[c] = 1 /\ c \notin orphans
  BY <1>1, <1>3 DEF IInv, WinnerInv, FlightInv, Sent
<1>6. \A q \in Runs : pc'[q] = "calling" => command[q] # c /\ pc[q] = "calling"
  BY <1>1, <1>4 DEF IInv, WinnerInv, Sent
<1>7. \A d \in Commands : UnderWay(d)' => UnderWay(d) /\ d # c
  BY <1>1, <1>4, <1>5, <1>6 DEF UnderWay
<1>8. \A d \in Commands : Dead(d) => d # c /\ Dead(d)'
  BY <1>1, <1>3, <1>7 DEF Dead, UnderWay
<1>9. TypeOK'
  BY <1>1, <1>2, <1>3, <1>4, <1>t, <1>f
     DEF IInv, TypeOK, Places, GuardPlaces, Outcomes, guard, Goto
<1>10. /\ LedgerInv(ledger)' /\ LedgerInv(durable)' /\ DurableIsBehind'
       /\ DispatchedOnce' /\ DispatchIsDurable'
  BY <1>1 DEF IInv, LedgerInv, Claimed, DurableIsBehind, DispatchedOnce, DispatchIsDurable, guard
<1>11. SettledWasApplied' /\ EvidenceIsTrue'
  BY <1>1, <1>3 DEF IInv, SettledWasApplied, EvidenceIsTrue, guard
<1>12. WinnerInv'
  BY <1>1, <1>4 DEF IInv, WinnerInv, Unsent, Sent, Claimed, guard
<1>13. FlightInv'
  BY <1>1, <1>3, <1>4, <1>5, <1>6, <1>7 DEF IInv, FlightInv
<1>14. AnswerInv'
  BY <1>2, <1>3, <1>4, <1>8, <1>t DEF IInv, AnswerInv
<1>15. NoteInv(ledger)' /\ NoteInv(durable)'
  BY <1>1, <1>3, <1>8 DEF IInv, NoteInv, guard
<1> QED
  BY <1>9, <1>10, <1>11, <1>12, <1>13, <1>14, <1>15 DEF IInv

\* A lost call stays under way without its run.
LEMMA CallLostKeeps ==
  ASSUME IInv, NEW r \in Runs, CallLost(r)
  PROVE  IInv'
<1> DEFINE c == command[r]
<1> USE DEF Applied
<1>t. /\ pc \in [Runs -> Places] /\ command \in [Runs -> Commands \union {NoCommand}]
      /\ outcome \in [Runs -> Outcomes]
      /\ \A q \in Runs : pc[q] # "idle" <=> command[q] \in Commands
      /\ dispatches \in [Commands -> Nat]
  BY LocalTypes
<1>1. /\ pc[r] = "calling" /\ orphans' = orphans \union {c}
      /\ UNCHANGED <<receipts, guard, results, reported, dispatches>>
  BY DEF CallLost, authority
<1>f. faults' \in 0 .. MaxFaults
  BY FaultStep DEF CallLost
<1>2. PICK p \in {"returned", "answered"} : Goto(r, p, "UNCONFIRMED")
  BY DEF CallLost
<1>3. AppliedCommands' = AppliedCommands
  BY <1>1, SameReceipts
<1>4. /\ command' = command
      /\ \A q \in Runs : pc'[q] = IF q = r THEN p ELSE pc[q]
      /\ \A q \in Runs : outcome'[q] = IF q = r THEN "UNCONFIRMED" ELSE outcome[q]
  BY <1>2, <1>t DEF Goto
<1>5. c \in Commands /\ dispatches[c] = 1 /\ UnderWay(c)
  BY <1>1, <1>t DEF IInv, WinnerInv, UnderWay, Sent
<1>6. \A q \in Runs : pc'[q] = "calling" => command[q] # c /\ pc[q] = "calling"
  BY <1>1, <1>2, <1>4 DEF IInv, WinnerInv, Sent
<1>7. \A d \in Commands : UnderWay(d)' => UnderWay(d)
  BY <1>1, <1>4, <1>5, <1>6 DEF UnderWay
<1>8. \A d \in Commands : Dead(d) => Dead(d)'
  BY <1>1, <1>3, <1>7 DEF Dead
<1>9. TypeOK'
  BY <1>1, <1>2, <1>5, <1>4, <1>t, <1>f
     DEF IInv, TypeOK, Places, GuardPlaces, MailboxPlaces, Outcomes, guard, Goto
<1>10. /\ LedgerInv(ledger)' /\ LedgerInv(durable)' /\ DurableIsBehind'
       /\ DispatchedOnce' /\ DispatchIsDurable' /\ SettledWasApplied' /\ EvidenceIsTrue'
  BY <1>1, <1>3 DEF IInv, LedgerInv, Claimed, DurableIsBehind, DispatchedOnce,
     DispatchIsDurable, SettledWasApplied, EvidenceIsTrue, guard
<1>11. WinnerInv'
  BY <1>1, <1>2, <1>4 DEF IInv, WinnerInv, Unsent, Sent, Claimed, guard
<1>12. FlightInv'
  BY <1>1, <1>3, <1>4, <1>5, <1>6, <1>7 DEF IInv, FlightInv
<1>13. AnswerInv'
  BY <1>2, <1>3, <1>4, <1>8, <1>t DEF IInv, AnswerInv
<1>14. NoteInv(ledger)' /\ NoteInv(durable)'
  BY <1>1, <1>3, <1>8 DEF IInv, NoteInv, guard
<1> QED
  BY <1>9, <1>10, <1>11, <1>12, <1>13, <1>14 DEF IInv

\* A call without a caller is executed once or not at all.
LEMMA OrphanKeeps ==
  ASSUME IInv, NEW c \in Commands, OrphanExecutes(c) \/ OrphanEnds(c)
  PROVE  IInv'
<1> USE DEF Applied, mailbox
<1>t. /\ pc \in [Runs -> Places] /\ command \in [Runs -> Commands \union {NoCommand}]
      /\ \A q \in Runs : pc[q] # "idle" <=> command[q] \in Commands
  BY LocalTypes
<1>1. /\ c \in orphans /\ orphans' = orphans \ {c}
      /\ UNCHANGED <<guard, mailbox, results, reported, dispatches, faults>>
  BY DEF OrphanExecutes, OrphanEnds
<1>2. \/ c \notin AppliedCommands /\ AppliedCommands' = AppliedCommands \union {c}
      \/ AppliedCommands' = AppliedCommands
  <2>1. CASE OrphanExecutes(c)
    BY <2>1, ExecuteApplies DEF OrphanExecutes
  <2>2. CASE OrphanEnds(c)
    BY <2>2, SameReceipts DEF OrphanEnds, authority
  <2> QED
    BY <2>1, <2>2
<1>3. dispatches[c] = 1 /\ UnderWay(c) /\ \A q \in Runs : pc[q] = "calling" => command[q] # c
  BY <1>1 DEF IInv, FlightInv, UnderWay
<1>4. \A d \in Commands : UnderWay(d)' => UnderWay(d) /\ d # c
  BY <1>1, <1>3 DEF UnderWay
<1>5. \A d \in Commands : Dead(d) => d # c /\ Dead(d)'
  BY <1>1, <1>2, <1>3, <1>4 DEF Dead
<1>6. TypeOK'
  BY <1>1 DEF IInv, TypeOK, guard
<1>7. /\ LedgerInv(ledger)' /\ LedgerInv(durable)' /\ DurableIsBehind'
      /\ DispatchedOnce' /\ DispatchIsDurable' /\ WinnerInv'
  BY <1>1 DEF IInv, LedgerInv, Claimed, DurableIsBehind, DispatchedOnce, DispatchIsDurable,
              WinnerInv, guard
<1>8. SettledWasApplied' /\ EvidenceIsTrue'
  BY <1>1, <1>2 DEF IInv, SettledWasApplied, EvidenceIsTrue, guard
<1>9. FlightInv'
  BY <1>1, <1>2, <1>3, <1>4 DEF IInv, FlightInv
<1>10. AnswerInv'
  BY <1>1, <1>2, <1>5, <1>t DEF IInv, AnswerInv
<1>11. NoteInv(ledger)' /\ NoteInv(durable)'
  BY <1>1, <1>2, <1>5 DEF IInv, NoteInv, guard
<1> QED
  BY <1>6, <1>7, <1>8, <1>9, <1>10, <1>11 DEF IInv

\* A crash leaves no winner: what was sent is without a caller, what was not
\* sent is never sent if its claim was durable.
LEMMA CrashKeeps ==
  ASSUME IInv, GuardCrash
  PROVE  IInv'
<1> USE DEF Applied
<1>t. /\ pc \in [Runs -> Places] /\ command \in [Runs -> Commands \union {NoCommand}]
      /\ outcome \in [Runs -> Outcomes]
      /\ \A q \in Runs : pc[q] # "idle" <=> command[q] \in Commands
  BY LocalTypes
<1>1. /\ ledger' = durable
      /\ orphans' = orphans \union {command[r] : r \in {q \in Runs : pc[q] = "calling"}}
      /\ UNCHANGED <<receipts, durable, results, reported, dispatches>>
  BY DEF GuardCrash, authority
<1>f. faults' \in 0 .. MaxFaults
  BY FaultStep DEF GuardCrash
<1>2. \A q \in Runs :
        \/ pc'[q] = "idle" /\ command'[q] = NoCommand /\ outcome'[q] = "none"
        \/ /\ pc[q] \notin GuardPlaces
           /\ pc'[q] = pc[q] /\ command'[q] = command[q] /\ outcome'[q] = outcome[q]
  BY DEF GuardCrash
<1>3. \A q \in Runs : pc'[q] \notin GuardPlaces
  BY <1>2 DEF GuardPlaces
<1>4. AppliedCommands' = AppliedCommands
  BY <1>1, SameReceipts
<1>5. \A d \in Commands : d \in orphans' <=> UnderWay(d)
  BY <1>1 DEF UnderWay
<1>6. \A d \in Commands : UnderWay(d)' => UnderWay(d)
  BY <1>3, <1>5 DEF UnderWay, GuardPlaces
<1>7. \A d \in Commands : Dead(d) => Dead(d)'
  BY <1>1, <1>4, <1>6 DEF Dead
<1>8. TypeOK'
  <2>1. orphans' \subseteq Commands
    BY <1>1, <1>t DEF IInv, TypeOK
  <2>2. /\ pc' \in [Runs -> GuardPlaces \union MailboxPlaces]
        /\ command' \in [Runs -> Commands \union {NoCommand}] /\ outcome' \in [Runs -> Outcomes]
    BY <1>t DEF GuardCrash, Places, MailboxPlaces, Outcomes
  <2>3. \A q \in Runs : pc'[q] # "idle" <=> command'[q] \in Commands
    BY <1>2, <1>t, NoCommandAssumption
  <2> QED
    BY <2>1, <2>2, <2>3, <1>1, <1>f DEF IInv, TypeOK
<1>9. /\ LedgerInv(ledger)' /\ LedgerInv(durable)' /\ DurableIsBehind'
      /\ DispatchedOnce' /\ DispatchIsDurable' /\ SettledWasApplied' /\ EvidenceIsTrue'
  BY <1>1, <1>4 DEF IInv, LedgerInv, Claimed, DurableIsBehind, DispatchedOnce,
     DispatchIsDurable, SettledWasApplied, EvidenceIsTrue
<1>10. WinnerInv'
  BY <1>3 DEF WinnerInv, GuardPlaces, Unsent, Sent
<1>11. FlightInv'
  <2>1. \A d \in Commands : UnderWay(d) => dispatches[d] = 1
    BY DEF IInv, FlightInv, WinnerInv, UnderWay, Sent
  <2> QED
    BY <2>1, <1>1, <1>3, <1>4, <1>5, <1>6 DEF IInv, FlightInv, GuardPlaces
<1>12. AnswerInv'
  <2> SUFFICES ASSUME NEW q \in Runs
      PROVE /\ pc'[q] = "idle" => outcome'[q] = "none"
            /\ outcome'[q] \in {"ATTESTED", "APPLIED", "ALREADY_APPLIED"} => Applied(command[q])'
            /\ pc'[q] \in {"answered", "recorded"} /\ outcome'[q] = "REFUSED" => Dead(command[q])'
            /\ pc'[q] = "releasing" => Applied(command[q])'
    BY DEF AnswerInv
  <2> QED
    BY <1>2, <1>3, <1>4 DEF IInv, AnswerInv, GuardPlaces
<1>13. NoteInv(ledger)' /\ NoteInv(durable)'
  BY <1>1, <1>4, <1>7 DEF IInv, NoteInv
<1> QED
  BY <1>8, <1>9, <1>10, <1>11, <1>12, <1>13 DEF IInv

\* Nothing the invariant mentions changes.
LEMMA IdleKeeps ==
  ASSUME IInv,
         UNCHANGED <<receipts, guard, mailbox, orphans, results, reported, dispatches, faults>>
  PROVE  IInv'
<1>1. AppliedCommands' = AppliedCommands
  BY SameReceipts
<1>2. \A d : (UnderWay(d)' <=> UnderWay(d)) /\ (Dead(d)' <=> Dead(d))
  BY <1>1 DEF UnderWay, Dead, Applied, mailbox
<1>3. /\ TypeOK' /\ LedgerInv(ledger)' /\ LedgerInv(durable)' /\ DurableIsBehind'
      /\ DispatchedOnce' /\ DispatchIsDurable' /\ WinnerInv'
  BY DEF IInv, TypeOK, LedgerInv, Claimed, DurableIsBehind, DispatchedOnce, DispatchIsDurable,
         WinnerInv, guard, mailbox
<1>4. SettledWasApplied' /\ EvidenceIsTrue' /\ NoteInv(ledger)' /\ NoteInv(durable)'
  BY <1>1, <1>2 DEF IInv, SettledWasApplied, EvidenceIsTrue, NoteInv, Applied, guard
<1>5. FlightInv' /\ AnswerInv'
  BY <1>1, <1>2 DEF IInv, FlightInv, AnswerInv, Applied, mailbox
<1> QED
  BY <1>3, <1>4, <1>5 DEF IInv

\* An empty ledger and an authority without receipts satisfy the invariant.
LEMMA InitHolds == Init => IInv
<1> SUFFICES ASSUME Init PROVE IInv
  OBVIOUS
<1>1. AppliedCommands = {}
  BY DEF Init, A!Init, AppliedCommands, A!HasReceipt
<1>2. TypeOK
  BY NoCommandAssumption, GuardAssumption
     DEF Init, TypeOK, Ledger, Notes, Outcomes, GuardPlaces, MailboxPlaces
<1>3. ledger = durable /\ \A c \in Commands : ~Claimed(ledger, c)
  BY DEF Init, Claimed
<1>4. LedgerInv(ledger) /\ LedgerInv(durable) /\ DurableIsBehind
  BY <1>3, NoCommandAssumption DEF Init, LedgerInv, DurableIsBehind
<1>5. DispatchedOnce /\ DispatchIsDurable /\ WinnerInv /\ FlightInv
  BY <1>1 DEF Init, DispatchedOnce, DispatchIsDurable, WinnerInv, FlightInv, UnderWay,
              Applied, Unsent, Sent
<1>6. AnswerInv /\ NoteInv(ledger) /\ NoteInv(durable) /\ SettledWasApplied /\ EvidenceIsTrue
  BY <1>1 DEF Init, AnswerInv, NoteInv, SettledWasApplied, EvidenceIsTrue
<1> QED
  BY <1>2, <1>3, <1>4, <1>5, <1>6 DEF IInv

\* Every step of #process and of the publication keeps the invariant.
LEMMA ProcessStepKeeps ==
  ASSUME IInv, NEW r \in Runs, ProcessStep(r)
  PROVE  IInv'
<1>1. CASE Verified(r) \/ ProbeAnswers(r) \/ ProbeFails(r) \/ ClaimFails(r)
  BY <1>1, LocalBeforeClaim
<1>2. CASE Claim(r)
  BY <1>2, LocalBeforeClaim, ClaimWins
<1>3. CASE ClaimSynced(r) \/ RecordSynced(r) \/ Record(r) \/ PutResult(r)
  BY <1>3, ClaimSyncedKeeps, RecordSyncedKeeps, RecordKeeps, PutResultKeeps
<1>4. CASE Dispatch(r) \/ ExecutionApplies(r) \/ ExecutionAmbiguous(r) \/ CallLost(r)
  BY <1>4, DispatchKeeps, ExecutionKeeps, CallLostKeeps
<1>5. CASE ExecutionRefuses(r) \/ ExecutorThrows(r) \/ ExecutionUnavailable(r) \/ RecordFails(r)
  BY <1>5, LocalAnswers
<1>6. CASE HeadResult(r) \/ PutResultFails(r)
  BY <1>6, LocalEnds
<1> QED
  BY <1>1, <1>2, <1>3, <1>4, <1>5, <1>6 DEF ProcessStep

\* Every step of a settlement keeps the invariant.
LEMMA SettleStepKeeps ==
  ASSUME IInv, NEW r \in Runs, SettleStep(r)
  PROVE  IInv'
<1>1. CASE SettleInspect(r) \/ SettleFails(r)
  BY <1>1, LocalEnds
<1>2. CASE SettleRelease(r)
  BY <1>2, LocalEnds, SettleReleaseKeeps
<1>3. CASE SettleSynced(r)
  BY <1>3, SettleSyncedKeeps
<1> QED
  BY <1>1, <1>2, <1>3 DEF SettleStep

\* The invariant is inductive: one case per kind of step.
THEOREM Invariance == Spec => []IInv
<1>1. Init => IInv
  BY InitHolds
<1>2. IInv /\ [Next]_vars => IInv'
  <2> SUFFICES ASSUME IInv, [Next]_vars PROVE IInv'
    OBVIOUS
  <2>1. CASE \E r \in Runs, c \in Commands : Begin(r, c) \/ SettleBegin(r, c)
    BY <2>1, LocalBegins
  <2>2. CASE \E r \in Runs : ProcessStep(r) \/ SettleStep(r)
    BY <2>2, ProcessStepKeeps, SettleStepKeeps
  <2>3. CASE \E c \in Commands : OrphanExecutes(c) \/ OrphanEnds(c)
    BY <2>3, OrphanKeeps
  <2>4. CASE Flush
    BY <2>4, FlushKeeps
  <2>5. CASE GuardCrash
    BY <2>5, CrashKeeps
  <2>6. CASE AuthorityTime
    BY <2>6, IdleKeeps DEF AuthorityTime, A!Tick, A!Admit
  <2>7. CASE UNCHANGED vars
    BY <2>7, IdleKeeps DEF vars, authority
  <2> QED
    BY <2>1, <2>2, <2>3, <2>4, <2>5, <2>6, <2>7 DEF Next
<1> QED
  BY <1>1, <1>2, PTL DEF Spec

\* Ledger, disk, locals, bucket and counters keep their types in every behaviour.
THEOREM TypeCorrect == Spec => []TypeOK
<1>1. IInv => TypeOK
  BY DEF IInv
<1> QED
  BY <1>1, Invariance, PTL

\* A command is sent to the executor at most once (#process).
THEOREM CommandsAreDispatchedOnce == Spec => []DispatchedOnce
<1>1. IInv => DispatchedOnce
  BY DEF IInv
<1> QED
  BY <1>1, Invariance, PTL

\* The claim of a command that was sent cannot be lost (#process).
THEOREM DispatchedClaimsAreDurable == Spec => []DispatchIsDurable
<1>1. IInv => DispatchIsDurable
  BY DEF IInv
<1> QED
  BY <1>1, Invariance, PTL

\* At most one command that was sent is not durably settled (latch, settle).
THEOREM OneCommandIsUnsettled == Spec => []OneUnsettledCommand
<1>1. IInv => OneUnsettledCommand
  BY DEF IInv, DispatchIsDurable, LedgerInv, OneUnsettledCommand
<1> QED
  BY <1>1, Invariance, PTL

\* A settlement stands for an applied command; a confirmed one is durable.
THEOREM SettlementsAreTrue == Spec => []SettledWasApplied
<1>1. IInv => SettledWasApplied
  BY DEF IInv
<1> QED
  BY <1>1, Invariance, PTL

\* The guard's notes about refused and applied commands are true for good.
THEOREM LedgerNotesAreTrue == Spec => []NotesAreTrue
<1>1. IInv => NotesAreTrue
  BY DEF IInv, NoteInv, NotesAreTrue, Dead
<1> QED
  BY <1>1, Invariance, PTL

\* An envelope is only published for an applied command.
THEOREM PublishedEvidenceIsTrue == Spec => []EvidenceIsTrue
<1>1. IInv => EvidenceIsTrue
  BY DEF IInv
<1> QED
  BY <1>1, Invariance, PTL

\* No step takes back a claim that was durable: the disk is written from the
\* ledger, which is never behind it.
THEOREM DurableClaimsArePermanent == Spec => ClaimsArePermanent
<1> DEFINE P == \A c \in Commands :
                  Claimed(durable, c) => Claimed(durable', c) /\ Claimed(ledger', c)
<1>1. IInv /\ IInv' /\ [Next]_vars => [P]_vars
  <2> SUFFICES ASSUME IInv, IInv', [Next]_vars PROVE P
    OBVIOUS
  <2>1. durable' = ledger \/ durable' = durable
    BY DEF Next, vars, authority, guard, Begin, SettleBegin, ProcessStep, SettleStep, Verified,
       ProbeAnswers, ProbeFails, Claim, ClaimSynced, ClaimFails, Dispatch, ExecutionApplies,
       ExecutionAmbiguous, ExecutionRefuses, ExecutorThrows, ExecutionUnavailable, CallLost,
       Record, RecordSynced, RecordFails, HeadResult, PutResult, PutResultFails,
       SettleInspect, SettleRelease, SettleSynced, SettleFails, OrphanExecutes, OrphanEnds,
       Flush, GuardCrash, AuthorityTime
  <2>2. \A c \in Commands : Claimed(durable, c) => Claimed(durable', c)
    BY <2>1 DEF IInv, DurableIsBehind
  <2>3. \A c \in Commands : Claimed(durable', c) => Claimed(ledger', c)
    BY DEF IInv, DurableIsBehind
  <2> QED
    BY <2>2, <2>3
<1> QED
  BY <1>1, Invariance, PTL DEF Spec, ClaimsArePermanent

\* A command is sent at most once, only behind a durable claim, and the next one
\* only behind the settlement of the first, whatever crashes in between.
THEOREM CommandsAlwaysRunOnce == Spec => []CommandsRunOnce
  BY CommandsAreDispatchedOnce, DispatchedClaimsAreDurable, OneCommandIsUnsettled, PTL DEF CommandsRunOnce

\* Settlements, notes and published evidence say what the authority did.
THEOREM ReportsStayTrue == Spec => []ReportsAreTrue
  BY SettlementsAreTrue, LedgerNotesAreTrue, PublishedEvidenceIsTrue, PTL DEF ReportsAreTrue

-----------------------------------------------------------------------------
(* Numbers and sequences                                                   *)

\* A set of numbers has a least one.
LEMMA LeastNat ==
  ASSUME NEW T \in SUBSET Nat, T # {}
  PROVE  \E m \in T : \A n \in T : m <= n
<1> DEFINE R == OpToRel(<, Nat)
<1>1. IsWellFoundedOn(R, Nat) BY NatLessThanWellFounded
<1>3. \A y, x \in Nat : <<y, x>> \in R <=> y < x BY DEF OpToRel
<1> HIDE DEF R
<1>2. PICK m \in T : \A n \in T : ~ (<<n, m>> \in R) BY <1>1, WFMin
<1>4. \A n \in T : ~(n < m) BY <1>2, <1>3
<1>5. \A n \in T : n \in Nat OBVIOUS
<1>6. \A n \in T : m <= n BY <1>4, <1>5
<1> QED BY <1>6

\* The highest of a number and those of a sequence.
LEMMA MaxOfSeq ==
  ASSUME NEW a \in Nat, NEW e \in Seq(Nat)
  PROVE  Max({a} \union Range(e)) \in Nat /\ Max({a} \union Range(e)) \in {a} \union Range(e) /\ \A x \in {a} \union Range(e) : x <= Max({a} \union Range(e))
<1> DEFINE upto(n) == {a} \union {e[j] : j \in 1..n}
           top(n) == \E m \in upto(n) : \A x \in upto(n) : m >= x
           T == {n \in 0..Len(e) : ~top(n)}
<1>1. Len(e) \in Nat /\ DOMAIN e = 1..Len(e) /\ \A j \in 1..Len(e) : e[j] \in Nat OBVIOUS
<1>2. T = {}
  <2> SUFFICES ASSUME T # {} PROVE FALSE OBVIOUS
  <2>1. T \in SUBSET Nat BY <1>1
  <2>2. PICK n \in T : \A m \in T : n <= m BY <2>1, LeastNat
  <2>3. n \in 0..Len(e) /\ ~top(n) OBVIOUS
  <2>4. n # 0
    <3>1. upto(0) = {a} OBVIOUS
    <3>2. top(0) BY <3>1
    <3> QED BY <2>3, <3>2
  <2>5. n - 1 \in 0..Len(e) BY <1>1, <2>3, <2>4
  <2>6. top(n - 1)
    <3> SUFFICES ASSUME ~top(n - 1) PROVE FALSE OBVIOUS
    <3>1. n - 1 \in T BY <2>5
    <3> HIDE DEF T, top
    <3> QED BY <2>2, <2>3, <3>1, <1>1
  <2>7. PICK m \in upto(n - 1) : \A x \in upto(n - 1) : m >= x BY <2>6
  <2>8. upto(n) = upto(n - 1) \union {e[n]} 
    <3>1. 1..n = 1..(n - 1) \union {n} BY <1>1, <2>3, <2>4
    <3> QED BY <3>1
  <2>9. m \in Nat /\ e[n] \in Nat /\ \A x \in upto(n-1) : x \in Nat
    <3>1. \A j \in 1..(n-1) : e[j] \in Nat BY <1>1, <2>3
    <3> QED BY <1>1, <2>3, <2>4, <3>1
  <2> HIDE DEF upto
  <2>10. CASE m >= e[n] BY <2>3, <2>7, <2>8, <2>9, <2>10
  <2>11. CASE ~(m >= e[n])
    <3>1. ASSUME NEW x \in upto(n) PROVE e[n] >= x
      <4>1. CASE x = e[n] BY <2>9, <4>1
      <4>2. CASE x \in upto(n - 1)
        <5>1. m >= x /\ x \in Nat /\ m \in Nat /\ e[n] \in Nat BY <2>7, <2>9, <4>2
        <5> QED BY <2>11, <5>1
      <4> QED BY <2>8, <3>1, <4>1, <4>2
    <3> QED BY <2>3, <2>8, <3>1
  <2> QED BY <2>10, <2>11
<1>3. top(Len(e))
  <2>1. Len(e) \in 0..Len(e) BY <1>1
  <2> HIDE DEF top
  <2> QED BY <1>2, <2>1
<1>4. upto(Len(e)) = {a} \union Range(e) BY <1>1 DEF Range
<1>5. \A x \in {a} \union Range(e) : x \in Nat BY <1>1 DEF Range
<1>6. PICK m \in {a} \union Range(e) : \A x \in {a} \union Range(e) : m >= x BY <1>3, <1>4
<1>7. Max({a} \union Range(e)) \in {a} \union Range(e) /\ \A x \in {a} \union Range(e) : Max({a} \union Range(e)) >= x
  BY <1>6 DEF Max
<1> QED BY <1>5, <1>7

-----------------------------------------------------------------------------
(* Events on the pipe                                                      *)

FrameType == [type : {"events"}, dropped : Nat, events : Seq(Nat)]
StatsType == [emitted : Nat, dropped : Nat, lastSeq : Int]
FinType == [type : {"fin_result"}, drained : BOOLEAN, channel : StatsType]
UpType == FrameType \union FinType

\* The event at a place of the pipe, the numbers on it, and that none is there twice.
Carries(u, i, j) == i \in DOMAIN u /\ u[i].type = "events" /\ j \in DOMAIN u[i].events
OnPipe(u) == {n \in Nat : \E i, j \in Nat : Carries(u, i, j) /\ u[i].events[j] = n}
PipeDistinct(u) ==
  \A i, j, i2, j2 \in Nat : Carries(u, i, j) /\ Carries(u, i2, j2) /\ u[i].events[j] = u[i2].events[j2] => i = i2 /\ j = j2

Distinct(e) == \A i, j \in DOMAIN e : e[i] = e[j] => i = j

LEMMA CarriesWhat ==
  ASSUME NEW u \in Seq(UpType), NEW i, NEW j, Carries(u, i, j)
  PROVE  /\ u[i] \in FrameType /\ u[i].events \in Seq(Nat)
         /\ i \in Nat /\ j \in Nat /\ i \in 1..Len(u) /\ j \in 1..Len(u[i].events)
         /\ u[i].events[j] \in Nat /\ u[i].events[j] \in OnPipe(u)
<1>1. i \in 1..Len(u) BY DEF Carries
<1>2. u[i] \in UpType BY <1>1
<1>3. u[i] \in FrameType BY <1>2 DEF Carries, UpType, FinType
<1>4. u[i].events \in Seq(Nat) BY <1>3 DEF FrameType
<1>5. j \in 1..Len(u[i].events) BY <1>4 DEF Carries
<1>6. u[i].events[j] \in Nat BY <1>4, <1>5
<1>7. i \in Nat /\ j \in Nat BY <1>1, <1>4, <1>5
<1> QED BY <1>1, <1>3, <1>4, <1>5, <1>6, <1>7 DEF OnPipe

\* Where no number is twice, the places can be counted by the numbers.
LEMMA PlacesCounted ==
  ASSUME NEW u \in Seq(UpType), PipeDistinct(u), IsFiniteSet(OnPipe(u))
  PROVE  Cardinality(Positions(u)) = Cardinality(OnPipe(u))
<1> DEFINE f == [p \in Positions(u) |-> u[p[1]].events[p[2]]]
<1>1. \A p \in Positions(u) : p = <<p[1], p[2]>> /\ Carries(u, p[1], p[2]) BY DEF Positions, Carries
<1>2. \A i, j \in Nat : Carries(u, i, j) => <<i, j>> \in Positions(u) BY DEF Positions, Carries
<1>3. f \in [Positions(u) -> OnPipe(u)] BY <1>1, CarriesWhat
<1>4. ASSUME NEW p \in Positions(u), NEW q \in Positions(u), f[p] = f[q] PROVE p = q
  <2>1. /\ Carries(u, p[1], p[2]) /\ Carries(u, q[1], q[2]) /\ u[p[1]].events[p[2]] = u[q[1]].events[q[2]]
    BY <1>1, <1>4
  <2>2. p[1] \in Nat /\ p[2] \in Nat /\ q[1] \in Nat /\ q[2] \in Nat BY <2>1, CarriesWhat
  <2>3. p[1] = q[1] /\ p[2] = q[2] BY <2>1, <2>2 DEF PipeDistinct
  <2> QED BY <1>1, <2>3
<1>5. \A n \in OnPipe(u) : \E p \in Positions(u) : f[p] = n
  <2> SUFFICES ASSUME NEW n \in OnPipe(u) PROVE \E p \in Positions(u) : f[p] = n OBVIOUS
  <2>1. PICK i \in Nat, j \in Nat : Carries(u, i, j) /\ u[i].events[j] = n BY DEF OnPipe
  <2>2. <<i, j>> \in Positions(u) BY <1>2, <2>1
  <2> QED BY <2>1, <2>2
<1>6. f \in Bijection(Positions(u), OnPipe(u)) BY <1>3, <1>4, <1>5 DEF Bijection, Injection, Surjection, IsInjective
<1>7. ExistsBijection(OnPipe(u), Positions(u)) BY <1>6, Fun_ExistsBijSymmetric DEF ExistsBijection
<1> QED BY <1>7, FS_Bijection

LEMMA PipeConcat ==
  ASSUME NEW u \in Seq(UpType), NEW w \in Seq(UpType)
  PROVE  /\ u \o w \in Seq(UpType) /\ OnPipe(u \o w) = OnPipe(u) \union OnPipe(w)
         /\ PipeDistinct(u) /\ PipeDistinct(w) /\ OnPipe(u) \cap OnPipe(w) = {} => PipeDistinct(u \o w)
<1> DEFINE z == u \o w
<1>1. /\ z \in Seq(UpType) /\ Len(z) = Len(u) + Len(w)
      /\ \A i \in 1..Len(u) + Len(w) : z[i] = IF i <= Len(u) THEN u[i] ELSE w[i - Len(u)]
  BY ConcatProperties
<1>2. Len(u) \in Nat /\ Len(w) \in Nat /\ DOMAIN u = 1..Len(u) /\ DOMAIN w = 1..Len(w) /\ DOMAIN z = 1..Len(z) BY <1>1
<1> HIDE DEF z
<1>3. ASSUME NEW i \in Nat, NEW j \in Nat, Carries(u, i, j) PROVE Carries(z, i, j) /\ z[i] = u[i]
  <2>1. i \in 1..Len(u) BY <1>2, <1>3 DEF Carries
  <2>2. i \in 1..Len(u) + Len(w) /\ i <= Len(u) BY <1>2, <2>1
  <2>3. z[i] = u[i] BY <1>1, <2>2
  <2> QED BY <1>1, <1>2, <1>3, <2>2, <2>3 DEF Carries
<1>4. ASSUME NEW i \in Nat, NEW j \in Nat, Carries(w, i, j)
      PROVE  Carries(z, Len(u) + i, j) /\ z[Len(u) + i] = w[i] /\ Len(u) + i \in Nat
  <2>1. i \in 1..Len(w) BY <1>2, <1>4 DEF Carries
  <2>2. Len(u) + i \in 1..Len(u) + Len(w) /\ ~(Len(u) + i <= Len(u)) /\ (Len(u) + i) - Len(u) = i BY <1>2, <2>1
  <2>3. z[Len(u) + i] = w[i] BY <1>1, <2>2
  <2> QED BY <1>1, <1>2, <1>4, <2>2, <2>3 DEF Carries
<1>5. ASSUME NEW i \in Nat, NEW j \in Nat, Carries(z, i, j)
      PROVE  \/ i <= Len(u) /\ Carries(u, i, j) /\ z[i] = u[i]
             \/ i > Len(u) /\ i - Len(u) \in Nat /\ Carries(w, i - Len(u), j) /\ z[i] = w[i - Len(u)]
  <2>1. i \in 1..Len(u) + Len(w) BY <1>1, <1>2, <1>5 DEF Carries
  <2>2. CASE i <= Len(u)
    <3>1. z[i] = u[i] /\ i \in 1..Len(u) BY <1>1, <2>1, <2>2
    <3> QED BY <1>2, <1>5, <2>2, <3>1 DEF Carries
  <2>3. CASE i > Len(u)
    <3>1. ~(i <= Len(u)) /\ i - Len(u) \in 1..Len(w) /\ i - Len(u) \in Nat BY <1>2, <2>1, <2>3
    <3>2. z[i] = w[i - Len(u)] BY <1>1, <2>1, <3>1
    <3> QED BY <1>2, <1>5, <2>3, <3>1, <3>2 DEF Carries
  <2> QED BY <1>2, <2>2, <2>3
<1>6. OnPipe(z) = OnPipe(u) \union OnPipe(w)
  <2>1. ASSUME NEW n \in OnPipe(z) PROVE n \in OnPipe(u) \union OnPipe(w)
    <3>1. PICK i \in Nat, j \in Nat : Carries(z, i, j) /\ z[i].events[j] = n BY <2>1 DEF OnPipe
    <3> QED BY <1>5, <3>1, <2>1 DEF OnPipe
  <2>2. ASSUME NEW n \in OnPipe(u) PROVE n \in OnPipe(z)
    <3>1. PICK i \in Nat, j \in Nat : Carries(u, i, j) /\ u[i].events[j] = n BY <2>2 DEF OnPipe
    <3>2. Carries(z, i, j) /\ z[i].events[j] = n BY <1>3, <3>1
    <3> QED BY <3>2, <2>2 DEF OnPipe
  <2>3. ASSUME NEW n \in OnPipe(w) PROVE n \in OnPipe(z)
    <3>1. PICK i \in Nat, j \in Nat : Carries(w, i, j) /\ w[i].events[j] = n BY <2>3 DEF OnPipe
    <3>2. Carries(z, Len(u) + i, j) /\ z[Len(u) + i].events[j] = n /\ Len(u) + i \in Nat BY <1>4, <3>1
    <3> QED BY <3>2, <2>3 DEF OnPipe
  <2> QED BY <2>1, <2>2, <2>3
<1>7. ASSUME PipeDistinct(u), PipeDistinct(w), OnPipe(u) \cap OnPipe(w) = {} PROVE PipeDistinct(z)
  <2> SUFFICES ASSUME NEW i \in Nat, NEW j \in Nat, NEW i2 \in Nat, NEW j2 \in Nat,
                      Carries(z, i, j), Carries(z, i2, j2), z[i].events[j] = z[i2].events[j2]
               PROVE  i = i2 /\ j = j2
    BY DEF PipeDistinct
  <2>1. CASE i <= Len(u) /\ i2 <= Len(u)
    <3>1. Carries(u, i, j) /\ z[i] = u[i] /\ Carries(u, i2, j2) /\ z[i2] = u[i2] BY <1>2, <1>5, <2>1
    <3> QED BY <1>7, <3>1 DEF PipeDistinct
  <2>2. CASE i > Len(u) /\ i2 > Len(u)
    <3>1. /\ Carries(w, i - Len(u), j) /\ z[i] = w[i - Len(u)] /\ Carries(w, i2 - Len(u), j2) /\ z[i2] = w[i2 - Len(u)]
          /\ i - Len(u) \in Nat /\ i2 - Len(u) \in Nat
      BY <1>2, <1>5, <2>2
    <3>2. i - Len(u) = i2 - Len(u) /\ j = j2 BY <1>7, <3>1 DEF PipeDistinct
    <3> QED BY <1>2, <3>2
  <2>3. CASE i <= Len(u) /\ i2 > Len(u)
    <3>1. Carries(u, i, j) /\ z[i] = u[i] /\ Carries(w, i2 - Len(u), j2) /\ z[i2] = w[i2 - Len(u)] BY <1>2, <1>5, <2>3
    <3>2. u[i].events[j] \in OnPipe(u) /\ w[i2 - Len(u)].events[j2] \in OnPipe(w) BY <3>1, CarriesWhat
    <3> QED BY <1>7, <3>1, <3>2
  <2>4. CASE i > Len(u) /\ i2 <= Len(u)
    <3>1. Carries(w, i - Len(u), j) /\ z[i] = w[i - Len(u)] /\ Carries(u, i2, j2) /\ z[i2] = u[i2] BY <1>2, <1>5, <2>4
    <3>2. w[i - Len(u)].events[j] \in OnPipe(w) /\ u[i2].events[j2] \in OnPipe(u) BY <3>1, CarriesWhat
    <3> QED BY <1>7, <3>1, <3>2
  <2> QED BY <1>2, <2>1, <2>2, <2>3, <2>4
<1> QED BY <1>1, <1>6, <1>7 DEF z

LEMMA PipeHead ==
  ASSUME NEW u \in Seq(UpType), u # << >>, PipeDistinct(u)
  PROVE  /\ Tail(u) \in Seq(UpType) /\ PipeDistinct(Tail(u)) /\ Head(u) \in UpType
         /\ Head(u).type = "fin_result" => OnPipe(Tail(u)) = OnPipe(u)
         /\ Head(u).type = "events" =>
              /\ Head(u) \in FrameType /\ Distinct(Head(u).events) /\ Range(Head(u).events) \subseteq OnPipe(u)
              /\ OnPipe(Tail(u)) = OnPipe(u) \ Range(Head(u).events)
<1> DEFINE t == Tail(u)
<1>1. /\ t \in Seq(UpType) /\ Len(t) = Len(u) - 1 /\ \A i \in 1..Len(t) : t[i] = u[i + 1]
      /\ Head(u) \in UpType /\ Head(u) = u[1]
  BY HeadTailProperties
<1>2. Len(u) \in Nat /\ Len(u) # 0 /\ DOMAIN u = 1..Len(u) /\ DOMAIN t = 1..Len(t) /\ 1 \in 1..Len(u) BY <1>1
<1> HIDE DEF t
<1>3. ASSUME NEW i \in Nat, NEW j \in Nat, Carries(t, i, j)
      PROVE  Carries(u, i + 1, j) /\ t[i] = u[i + 1] /\ i + 1 \in Nat /\ i + 1 # 1
  <2>1. i \in 1..Len(t) BY <1>2, <1>3 DEF Carries
  <2>2. i + 1 \in 1..Len(u) /\ i + 1 # 1 BY <1>1, <1>2, <2>1
  <2> QED BY <1>1, <1>2, <1>3, <2>1, <2>2 DEF Carries
<1>4. ASSUME NEW i \in Nat, NEW j \in Nat, Carries(u, i, j), i # 1
      PROVE  Carries(t, i - 1, j) /\ t[i - 1] = u[i] /\ i - 1 \in Nat
  <2>1. i \in 1..Len(u) BY <1>2, <1>4 DEF Carries
  <2>2. i - 1 \in 1..Len(t) /\ (i - 1) + 1 = i BY <1>1, <1>2, <1>4, <2>1
  <2>3. t[i - 1] = u[i] BY <1>1, <2>2
  <2> QED BY <1>2, <1>4, <2>2, <2>3 DEF Carries
<1>5. PipeDistinct(t)
  <2> SUFFICES ASSUME NEW i \in Nat, NEW j \in Nat, NEW i2 \in Nat, NEW j2 \in Nat,
                      Carries(t, i, j), Carries(t, i2, j2), t[i].events[j] = t[i2].events[j2]
               PROVE  i = i2 /\ j = j2
    BY DEF PipeDistinct
  <2>1. /\ Carries(u, i + 1, j) /\ t[i] = u[i + 1] /\ i + 1 \in Nat
        /\ Carries(u, i2 + 1, j2) /\ t[i2] = u[i2 + 1] /\ i2 + 1 \in Nat
    BY <1>3
  <2>2. i + 1 = i2 + 1 /\ j = j2 BY <2>1 DEF PipeDistinct
  <2> QED BY <2>2
<1>6. OnPipe(t) \subseteq OnPipe(u)
  <2> SUFFICES ASSUME NEW n \in OnPipe(t) PROVE n \in OnPipe(u) OBVIOUS
  <2>1. PICK i \in Nat, j \in Nat : Carries(t, i, j) /\ t[i].events[j] = n BY DEF OnPipe
  <2>2. Carries(u, i + 1, j) /\ u[i + 1].events[j] = n BY <1>3, <2>1
  <2> QED BY <2>2, CarriesWhat
<1>7. ASSUME NEW i \in Nat, NEW j \in Nat, Carries(u, i, j), i # 1 PROVE u[i].events[j] \in OnPipe(t)
  <2>1. Carries(t, i - 1, j) /\ t[i - 1] = u[i] BY <1>4, <1>7
  <2> QED BY <1>1, <2>1, CarriesWhat
<1>8. ASSUME Head(u).type = "fin_result" PROVE OnPipe(t) = OnPipe(u)
  <2> SUFFICES ASSUME NEW n \in OnPipe(u) PROVE n \in OnPipe(t) BY <1>6
  <2>1. PICK i \in Nat, j \in Nat : Carries(u, i, j) /\ u[i].events[j] = n BY DEF OnPipe
  <2>2. i # 1 BY <1>1, <1>8, <2>1 DEF Carries
  <2> QED BY <1>7, <2>1, <2>2
<1>9. ASSUME Head(u).type = "events"
      PROVE  /\ Head(u) \in FrameType /\ Distinct(Head(u).events) /\ Range(Head(u).events) \subseteq OnPipe(u)
             /\ OnPipe(t) = OnPipe(u) \ Range(Head(u).events)
  <2>1. Head(u) \in FrameType BY <1>1, <1>9 DEF UpType, FinType
  <2> DEFINE e == u[1].events
  <2>2. e \in Seq(Nat) /\ Head(u).events = e BY <1>1, <2>1 DEF FrameType
  <2>3. \A j \in DOMAIN e : Carries(u, 1, j) /\ j \in Nat BY <1>1, <1>2, <1>9, <2>2 DEF Carries
  <2>4. Distinct(e) BY <2>3 DEF Distinct, PipeDistinct
  <2>5. Range(e) \subseteq OnPipe(u) BY <2>3, CarriesWhat DEF Range
  <2>6. ASSUME NEW n \in OnPipe(t), n \in Range(e) PROVE FALSE
    <3>1. PICK i \in Nat, j \in Nat : Carries(t, i, j) /\ t[i].events[j] = n BY <2>6 DEF OnPipe
    <3>2. PICK j2 \in DOMAIN e : e[j2] = n BY <2>6 DEF Range
    <3>3. Carries(u, i + 1, j) /\ t[i] = u[i + 1] /\ i + 1 \in Nat /\ i + 1 # 1 BY <1>3, <3>1
    <3>4. Carries(u, 1, j2) /\ j2 \in Nat BY <2>3
    <3>5. u[i + 1].events[j] = u[1].events[j2] BY <3>1, <3>2, <3>3
    <3>6. i + 1 = 1 BY <3>3, <3>4, <3>5 DEF PipeDistinct
    <3> QED BY <3>3, <3>6
  <2>7. ASSUME NEW n \in OnPipe(u), n \notin Range(e) PROVE n \in OnPipe(t)
    <3>1. PICK i \in Nat, j \in Nat : Carries(u, i, j) /\ u[i].events[j] = n BY <2>7 DEF OnPipe
    <3>2. i # 1 BY <2>7, <3>1 DEF Carries, Range
    <3> QED BY <1>7, <3>1, <3>2
  <2>8. OnPipe(t) = OnPipe(u) \ Range(e) BY <1>6, <2>6, <2>7
  <2> QED BY <2>1, <2>2, <2>4, <2>5, <2>8
<1> QED BY <1>1, <1>5, <1>8, <1>9 DEF t

\* As many numbers as events.
LEMMA DistinctCount ==
  ASSUME NEW e \in Seq(Nat), Distinct(e)
  PROVE  IsFiniteSet(Range(e)) /\ Cardinality(Range(e)) = Len(e)
<1> DEFINE f == [i \in 1..Len(e) |-> e[i]]
<1>1. Len(e) \in Nat /\ DOMAIN e = 1..Len(e) OBVIOUS
<1>2. f \in Bijection(1..Len(e), Range(e))
  BY <1>1 DEF Bijection, Injection, Surjection, IsInjective, Range, Distinct
<1>3. ExistsBijection(1..Len(e), Range(e)) BY <1>2 DEF ExistsBijection
<1>4. IsFiniteSet(1..Len(e)) /\ Cardinality(1..Len(e)) = Len(e)
  <2> DEFINE n == Len(e)
  <2>1. n \in Nat BY <1>1
  <2>2. n \in Int /\ 1 \in Int BY <2>1
  <2> HIDE DEF n
  <2>3. IsFiniteSet(1..n) /\ Cardinality(1..n) = IF 1 > n THEN 0 ELSE n - 1 + 1 BY ONLY <2>2, FS_Interval
  <2>4. IsFiniteSet(1..n) /\ Cardinality(1..n) = n BY ONLY <2>1, <2>3
  <2> QED BY <2>4 DEF n
<1> QED BY <1>3, <1>4, FS_Bijection

-----------------------------------------------------------------------------
(* Frames                                                                  *)

LEMMA DivBounds ==
  ASSUME NEW n \in Nat, NEW m \in Nat \ {0}
  PROVE  n \div m \in Nat /\ (n \div m) * m <= n /\ n < (n \div m) * m + m
OBVIOUS

\* A place in a sequence has one frame and one place in it.
LEMMA OneFrame ==
  ASSUME NEW m \in Nat \ {0}, NEW i \in Nat, NEW i2 \in Nat, NEW j \in 1..m, NEW j2 \in 1..m,
         i * m + j = i2 * m + j2
  PROVE  i = i2 /\ j = j2
<1>1. ASSUME NEW a \in Nat, NEW b \in Nat, a < b PROVE a * m + m <= b * m
  <2>1. b - a - 1 \in Nat /\ m \in Nat BY <1>1
  <2>2. (b - a - 1) * m >= 0 BY <2>1
  <2>3. (b - a - 1) * m = b * m - a * m - m BY <2>1
  <2>4. a * m \in Nat /\ b * m \in Nat OBVIOUS
  <2> QED BY <2>2, <2>3, <2>4
<1>2. i * m \in Nat /\ i2 * m \in Nat OBVIOUS
<1>3. ~(i < i2)
  <2> SUFFICES ASSUME i < i2 PROVE FALSE OBVIOUS
  <2>1. i * m + m <= i2 * m BY <1>1
  <2> QED BY <1>2, <2>1
<1>4. ~(i2 < i)
  <2> SUFFICES ASSUME i2 < i PROVE FALSE OBVIOUS
  <2>1. i2 * m + m <= i * m BY <1>1
  <2> QED BY <1>2, <2>1
<1>5. i = i2 BY <1>3, <1>4
<1> QED BY <1>2, <1>5

\* The first and the last event of each frame, and that there is a frame for every event.
LEMMA FrameBounds ==
  ASSUME NEW n \in Nat, NEW m \in Nat \ {0}
  PROVE  LET k == (n + m - 1) \div m IN
         /\ k \in Nat
         /\ \A i \in 1..k : (i - 1) * m \in Nat /\ i * m = (i - 1) * m + m /\ (i - 1) * m < n
         /\ \A x \in 1..n : \E i \in 1..k, j \in 1..m : (i - 1) * m + j = x
<1> DEFINE k == (n + m - 1) \div m
<1>1. k \in Nat /\ k * m <= n + m - 1 /\ n + m - 1 < k * m + m
  <2>1. n + m - 1 \in Nat OBVIOUS
  <2> QED BY <2>1, DivBounds
<1> HIDE DEF k
<1>2. ASSUME NEW i \in 1..k PROVE (i - 1) * m \in Nat /\ i * m = (i - 1) * m + m /\ (i - 1) * m < n
  <2>1. i - 1 \in Nat /\ i \in Nat /\ k - i \in Nat BY <1>1
  <2>2. (i - 1) * m \in Nat /\ (k - i) * m \in Nat /\ i * m \in Nat /\ k * m \in Nat BY <1>1, <2>1
  <2>3. i * m = (i - 1) * m + m BY <2>1
  <2>4. k * m = i * m + (k - i) * m BY <1>1, <2>1
  <2> QED BY <1>1, <2>2, <2>3, <2>4
<1>3. ASSUME NEW x \in 1..n PROVE \E i \in 1..k, j \in 1..m : (i - 1) * m + j = x
  <2> DEFINE d == (x - 1) \div m
  <2>1. d \in Nat /\ d * m <= x - 1 /\ x - 1 < d * m + m
    <3>1. x - 1 \in Nat OBVIOUS
    <3> QED BY <3>1, DivBounds
  <2> HIDE DEF d
  <2>2. d * m \in Nat /\ k * m \in Nat BY <1>1, <2>1
  <2>3. d < k
    <3> SUFFICES ASSUME k <= d PROVE FALSE BY <1>1, <2>1
    <3>1. d - k \in Nat /\ (d - k) * m \in Nat BY <1>1, <2>1
    <3>2. d * m = k * m + (d - k) * m BY <1>1, <2>1
    <3> QED BY <1>1, <2>1, <2>2, <3>1, <3>2
  <2>4. d + 1 \in 1..k /\ (d + 1) - 1 = d BY <1>1, <2>1, <2>3
  <2>5. x - d * m \in 1..m /\ d * m + (x - d * m) = x BY <2>1, <2>2
  <2> QED BY <2>4, <2>5
<1> QED BY <1>1, <1>2, <1>3 DEF k

\* The frames of a flush carry what was taken from the queue, all of it and once.
LEMMA FramesWhole ==
  ASSUME NEW c \in Names, NEW e \in Seq(Nat), NEW d \in Nat
  PROVE  LET F == Frames(c, e, d) IN
         F \in Seq(UpType) /\ OnPipe(F) = Range(e) /\ (Distinct(e) => PipeDistinct(F))
<1> DEFINE m == MaxFrame[c]
           n == Len(e)
           k == (n + m - 1) \div m
           last(i) == IF i * m <= n THEN i * m ELSE n
           F == Frames(c, e, d)
<1>1. m \in Nat \ {0} BY ChannelAssumption
<1>2. n \in Nat /\ DOMAIN e = 1..n /\ \A x \in 1..n : e[x] \in Nat OBVIOUS
<1>3. /\ k \in Nat
      /\ \A i \in 1..k : (i - 1) * m \in Nat /\ i * m = (i - 1) * m + m /\ (i - 1) * m < n
      /\ \A x \in 1..n : \E i \in 1..k, j \in 1..m : (i - 1) * m + j = x
  BY <1>1, <1>2, FrameBounds
<1>4. F = [i \in 1..k |-> [type |-> "events", dropped |-> d, events |-> SubSeq(e, (i - 1) * m + 1, last(i))]]
  BY DEF Frames
<1> HIDE DEF F, k, m, n
<1>5. ASSUME NEW i \in 1..k
      PROVE  /\ SubSeq(e, (i - 1) * m + 1, last(i)) \in Seq(Nat)
             /\ Len(SubSeq(e, (i - 1) * m + 1, last(i))) = last(i) - (i - 1) * m
             /\ last(i) \in Nat /\ last(i) <= n /\ last(i) - (i - 1) * m \in 1..m
             /\ \A j \in 1..last(i) - (i - 1) * m : SubSeq(e, (i - 1) * m + 1, last(i))[j] = e[(i - 1) * m + j]
             /\ \A j \in 1..m : (i - 1) * m + j <= n => j \in 1..last(i) - (i - 1) * m
  <2> DEFINE b == (i - 1) * m
  <2>1. b \in Nat /\ i * m = b + m /\ b < n BY <1>3
  <2> HIDE DEF b
  <2>2. last(i) = IF b + m <= n THEN b + m ELSE n BY <2>1
  <2>3. last(i) \in Nat /\ last(i) <= n /\ last(i) - b \in 1..m /\ \A j \in 1..m : b + j <= n => j \in 1..last(i) - b
    BY <1>1, <1>2, <2>1, <2>2
  <2> HIDE DEF last
  <2>4. \A x \in b + 1..last(i) : e[x] \in Nat BY <1>2, <2>1, <2>3
  <2>5. /\ SubSeq(e, b + 1, last(i)) \in Seq(Nat)
        /\ Len(SubSeq(e, b + 1, last(i))) = IF b + 1 <= last(i) THEN last(i) - (b + 1) + 1 ELSE 0
        /\ \A j \in 1..last(i) - (b + 1) + 1 : SubSeq(e, b + 1, last(i))[j] = e[(b + 1) + j - 1]
    BY <2>1, <2>3, <2>4, SubSeqProperties
  <2>6. b + 1 <= last(i) /\ last(i) - (b + 1) + 1 = last(i) - b BY <2>1, <2>3
  <2>7. \A j \in 1..last(i) - b : (b + 1) + j - 1 = b + j BY <2>1, <2>3
  <2> QED BY <2>3, <2>5, <2>6, <2>7 DEF b
<1> HIDE DEF last
<1>6. F \in Seq(UpType) /\ Len(F) = k /\ DOMAIN F = 1..k
  <2>1. \A i \in 1..k : F[i] \in UpType BY <1>4, <1>5 DEF UpType, FrameType
  <2>2. F \in [1..k -> UpType] BY <1>4, <2>1
  <2> QED BY <1>3, <2>2
<1>7. ASSUME NEW i \in Nat, NEW j \in Nat, Carries(F, i, j)
      PROVE  i \in 1..k /\ j \in 1..m /\ (i - 1) * m + j \in 1..n /\ F[i].events[j] = e[(i - 1) * m + j]
  <2>1. i \in 1..k BY <1>6, <1>7 DEF Carries
  <2>2. F[i].events = SubSeq(e, (i - 1) * m + 1, last(i)) BY <1>4, <2>1
  <2>3. j \in 1..last(i) - (i - 1) * m BY <1>5, <1>7, <2>1, <2>2 DEF Carries
  <2>4. F[i].events[j] = e[(i - 1) * m + j] BY <1>5, <2>1, <2>2, <2>3
  <2>5. (i - 1) * m \in Nat BY <1>3, <2>1
  <2>6. /\ last(i) \in Nat /\ last(i) <= n /\ last(i) - (i - 1) * m \in 1..m BY <1>5, <2>1
  <2>7. j \in 1..m /\ (i - 1) * m + j \in 1..n
    <3> DEFINE b == (i - 1) * m
    <3> HIDE DEF b
    <3>1. b \in Nat /\ last(i) \in Nat /\ last(i) <= n /\ last(i) - b \in 1..m /\ j \in 1..last(i) - b BY <2>3, <2>5, <2>6 DEF b
    <3>2. j \in 1..m /\ b + j \in 1..n BY <1>1, <1>2, <3>1
    <3> QED BY <3>2 DEF b
  <2> QED BY <2>1, <2>4, <2>7
<1>8. OnPipe(F) \subseteq Range(e)
  <2> SUFFICES ASSUME NEW x \in OnPipe(F) PROVE x \in Range(e) OBVIOUS
  <2>1. PICK i \in Nat, j \in Nat : Carries(F, i, j) /\ F[i].events[j] = x BY DEF OnPipe
  <2>2. (i - 1) * m + j \in 1..n /\ F[i].events[j] = e[(i - 1) * m + j] BY <1>7, <2>1
  <2> QED BY <1>2, <2>1, <2>2 DEF Range
<1>9. Range(e) \subseteq OnPipe(F)
  <2> SUFFICES ASSUME NEW x \in 1..n PROVE e[x] \in OnPipe(F) BY <1>2 DEF Range
  <2>1. PICK i \in 1..k, j \in 1..m : (i - 1) * m + j = x BY <1>3
  <2>2. x \in Nat /\ x <= n BY <1>2
  <2>3. j \in 1..last(i) - (i - 1) * m BY <1>5, <2>1, <2>2
  <2>4. F[i].events = SubSeq(e, (i - 1) * m + 1, last(i)) /\ F[i].type = "events" BY <1>4
  <2>5. Carries(F, i, j) BY <1>5, <1>6, <2>3, <2>4 DEF Carries
  <2>6. F[i].events[j] = e[x] BY <1>5, <2>1, <2>3, <2>4
  <2> QED BY <1>6, <2>5, <2>6, CarriesWhat
<1>10. ASSUME Distinct(e) PROVE PipeDistinct(F)
  <2> SUFFICES ASSUME NEW i \in Nat, NEW j \in Nat, NEW i2 \in Nat, NEW j2 \in Nat,
                      Carries(F, i, j), Carries(F, i2, j2), F[i].events[j] = F[i2].events[j2]
               PROVE  i = i2 /\ j = j2
    BY DEF PipeDistinct
  <2>1. /\ i \in 1..k /\ j \in 1..m /\ (i - 1) * m + j \in 1..n /\ F[i].events[j] = e[(i - 1) * m + j] BY <1>7
  <2>2. /\ i2 \in 1..k /\ j2 \in 1..m /\ (i2 - 1) * m + j2 \in 1..n /\ F[i2].events[j2] = e[(i2 - 1) * m + j2] BY <1>7
  <2>3. (i - 1) * m + j = (i2 - 1) * m + j2 BY <1>2, <1>10, <2>1, <2>2 DEF Distinct
  <2> DEFINE a == i - 1
             b == i2 - 1
  <2>4. a \in Nat /\ b \in Nat BY <1>3, <2>1, <2>2
  <2>5. a * m + j = b * m + j2 /\ j \in 1..m /\ j2 \in 1..m BY <2>1, <2>2, <2>3
  <2> HIDE DEF a, b
  <2>6. a = b /\ j = j2 BY ONLY <1>1, <2>4, <2>5, OneFrame
  <2> QED BY <2>6 DEF a, b
<1> QED BY <1>6, <1>8, <1>9, <1>10 DEF F

-----------------------------------------------------------------------------
(* A channel and what it has sent                                          *)

ChannelType ==
  [alive : BOOLEAN, queue : Seq(Nat), next : Nat, emitted : Nat, dropped : Nat, sent : Nat, acked : Nat,
   timer : BOOLEAN, draining : BOOLEAN]

\* Every number given is dropped and counted, waits, is on the pipe or was received (r numbers were);
\* what waits and what is unacknowledged stays within its cap, and no more is acknowledged than was received.
Flow(c, k, u, r) ==
  /\ k.emitted = k.next - 1
  /\ k.emitted = k.dropped + Len(k.queue) + k.sent
  /\ IsFiniteSet(OnPipe(u)) /\ k.sent = Cardinality(OnPipe(u)) + r
  /\ Len(k.queue) <= QueueCap[c] /\ k.sent - k.acked <= WindowCap[c] /\ k.acked <= r
  /\ Distinct(k.queue) /\ PipeDistinct(u) /\ OnPipe(u) \cap Range(k.queue) = {}
  /\ \A n \in OnPipe(u) \union Range(k.queue) : n < k.next

\* A queue is split into what a flush takes and what it leaves.
LEMMA Split ==
  ASSUME NEW e \in Seq(Nat), NEW n \in 0..Len(e), Distinct(e)
  PROVE  LET taken == SubSeq(e, 1, n)
             left == SubSeq(e, n + 1, Len(e)) IN
         /\ taken \in Seq(Nat) /\ left \in Seq(Nat) /\ Len(taken) = n /\ Len(left) = Len(e) - n
         /\ Distinct(taken) /\ Distinct(left)
         /\ Range(taken) \subseteq Range(e) /\ Range(left) \subseteq Range(e) /\ Range(taken) \cap Range(left) = {}
<1> DEFINE taken == SubSeq(e, 1, n)
           left == SubSeq(e, n + 1, Len(e))
<1>1. Len(e) \in Nat /\ DOMAIN e = 1..Len(e) /\ n \in Nat /\ n <= Len(e) /\ \A i \in 1..Len(e) : e[i] \in Nat OBVIOUS
<1>2. taken \in Seq(Nat) /\ Len(taken) = n /\ \A i \in 1..n : taken[i] = e[i]
  <2>1. \A i \in 1..n : e[i] \in Nat BY <1>1
  <2>2. /\ taken \in Seq(Nat) /\ Len(taken) = (IF 1 <= n THEN n - 1 + 1 ELSE 0)
        /\ \A i \in 1..n - 1 + 1 : taken[i] = e[1 + i - 1]
    BY <1>1, <2>1, SubSeqProperties
  <2> HIDE DEF taken
  <2> QED BY <1>1, <2>2
<1>3. left \in Seq(Nat) /\ Len(left) = Len(e) - n /\ \A i \in 1..Len(e) - n : left[i] = e[n + i]
  <2>1. \A i \in n + 1..Len(e) : e[i] \in Nat BY <1>1
  <2>2. /\ left \in Seq(Nat) /\ Len(left) = (IF n + 1 <= Len(e) THEN Len(e) - (n + 1) + 1 ELSE 0)
        /\ \A i \in 1..Len(e) - (n + 1) + 1 : left[i] = e[n + 1 + i - 1]
    BY <1>1, <2>1, SubSeqProperties
  <2> HIDE DEF left
  <2>3. Len(e) - (n + 1) + 1 = Len(e) - n /\ (n + 1 <= Len(e) \/ Len(e) - n = 0)
    <3> DEFINE m == Len(e)
    <3>1. m \in Nat /\ n \in Nat /\ n <= m BY <1>1
    <3> HIDE DEF m
    <3>2. m - (n + 1) + 1 = m - n /\ (n + 1 <= m \/ m - n = 0) BY ONLY <3>1
    <3> QED BY <3>2 DEF m
  <2>4. \A i \in 1..Len(e) - n : n + 1 + i - 1 = n + i BY <1>1
  <2>5. Len(left) = Len(e) - n BY ONLY <2>2, <2>3, <1>1
  <2>6. \A i \in 1..Len(e) - n : left[i] = e[n + 1 + i - 1] BY ONLY <2>2, <2>3
  <2>7. \A i \in 1..Len(e) - n : left[i] = e[n + i] BY ONLY <2>4, <2>6
  <2> QED BY <2>2, <2>5, <2>7
<1> HIDE DEF taken, left
<1>4. DOMAIN taken = 1..n /\ DOMAIN left = 1..Len(e) - n BY <1>1, <1>2, <1>3
<1>5. Distinct(taken) BY <1>1, <1>2, <1>4 DEF Distinct
<1>6. Distinct(left)
  <2> SUFFICES ASSUME NEW i \in 1..Len(e) - n, NEW j \in 1..Len(e) - n, left[i] = left[j] PROVE i = j BY <1>4 DEF Distinct
  <2>1. n + i \in 1..Len(e) /\ n + j \in 1..Len(e) BY <1>1
  <2>2. e[n + i] = e[n + j] BY <1>3
  <2>3. n + i = n + j BY <1>1, <2>1, <2>2 DEF Distinct
  <2> QED BY <1>1, <2>3
<1>7. Range(taken) \subseteq Range(e) /\ Range(left) \subseteq Range(e)
  <2>1. \A i \in 1..n : taken[i] = e[i] /\ i \in 1..Len(e) BY <1>1, <1>2
  <2>2. \A i \in 1..Len(e) - n : left[i] = e[n + i] /\ n + i \in 1..Len(e) BY <1>1, <1>3
  <2> QED BY <1>1, <1>4, <2>1, <2>2 DEF Range
<1>8. Range(taken) \cap Range(left) = {}
  <2> SUFFICES ASSUME NEW i \in 1..n, NEW j \in 1..Len(e) - n, taken[i] = left[j] PROVE FALSE BY <1>4 DEF Range
  <2>1. i \in 1..Len(e) /\ n + j \in 1..Len(e) /\ i # n + j BY <1>1
  <2>2. e[i] = e[n + j] BY <1>2, <1>3
  <2> QED BY <1>1, <2>1, <2>2 DEF Distinct
<1> QED BY <1>2, <1>3, <1>5, <1>6, <1>7, <1>8 DEF taken, left

\* flush(): what leaves the queue is on the pipe, and the window is not exceeded.
LEMMA FlushConserves ==
  ASSUME NEW c \in Names, NEW k \in ChannelType, NEW u \in Seq(UpType), NEW r \in Nat, Flow(c, k, u, r)
  PROVE  LET f == flush(c, k) IN
         /\ f.channel \in ChannelType /\ f.frames \in Seq(UpType) /\ f.channel.alive = k.alive
         /\ Flow(c, f.channel, u \o f.frames, r)
<1> DEFINE q == k.queue
           n == FlushCount(c, k)
           taken == SubSeq(q, 1, n)
           left == SubSeq(q, n + 1, Len(q))
           F == Frames(c, taken, k.dropped)
           f == flush(c, k)
           kk == f.channel
<1>1. q \in Seq(Nat) /\ Len(q) \in Nat /\ k.sent \in Nat /\ k.acked \in Nat /\ k.dropped \in Nat BY DEF ChannelType
<1>2. WindowCap[c] \in Nat /\ QueueCap[c] \in Nat BY ChannelAssumption
<1>3. n \in 0..Len(q) /\ n <= WindowCap[c] - (k.sent - k.acked)
  BY <1>1, <1>2 DEF FlushCount, Room, Flow
<1>4. /\ taken \in Seq(Nat) /\ left \in Seq(Nat) /\ Len(taken) = n /\ Len(left) = Len(q) - n
      /\ Distinct(taken) /\ Distinct(left)
      /\ Range(taken) \subseteq Range(q) /\ Range(left) \subseteq Range(q) /\ Range(taken) \cap Range(left) = {}
  BY <1>1, <1>3, Split DEF Flow
<1>5. F \in Seq(UpType) /\ OnPipe(F) = Range(taken) /\ PipeDistinct(F) BY <1>1, <1>4, FramesWhole
<1>6. f = [channel |-> [k EXCEPT !.queue = left, !.sent = @ + n, !.timer = Len(q) > n], frames |-> F] BY DEF flush
<1> HIDE DEF n, taken, left, F, f
<1>7. n \in Nat BY <1>3
<1>8. kk \in ChannelType
  <2>1. k.sent + n \in Nat /\ (Len(q) > n) \in BOOLEAN BY <1>1, <1>7
  <2> QED BY <1>4, <1>6, <2>1 DEF ChannelType
<1>9. /\ kk.queue = left /\ kk.sent = k.sent + n /\ kk.alive = k.alive /\ kk.next = k.next /\ kk.emitted = k.emitted
      /\ kk.dropped = k.dropped /\ kk.acked = k.acked
  BY <1>6 DEF ChannelType
<1>10. OnPipe(u \o F) = OnPipe(u) \union Range(taken) /\ PipeDistinct(u \o F)
  <2>1. OnPipe(u) \cap OnPipe(F) = {} BY <1>4, <1>5 DEF Flow
  <2> QED BY <1>5, <2>1, PipeConcat DEF Flow
<1>11. IsFiniteSet(OnPipe(u \o F)) /\ Cardinality(OnPipe(u \o F)) = Cardinality(OnPipe(u)) + n
  <2>1. IsFiniteSet(Range(taken)) /\ Cardinality(Range(taken)) = n BY <1>4, DistinctCount
  <2>2. OnPipe(u) \cap Range(taken) = {} BY <1>4 DEF Flow
  <2>3. /\ IsFiniteSet(OnPipe(u) \union Range(taken))
        /\ Cardinality(OnPipe(u) \union Range(taken)) = Cardinality(OnPipe(u)) + Cardinality(Range(taken)) - Cardinality({})
    BY <2>1, <2>2, FS_Union DEF Flow
  <2>4. Cardinality(OnPipe(u)) \in Nat BY FS_CardinalityType DEF Flow
  <2> QED BY <1>7, <1>10, <2>1, <2>3, <2>4, FS_EmptySet
<1>12. Flow(c, kk, u \o F, r)
  <2>1. kk.emitted = kk.next - 1 BY <1>9 DEF Flow
  <2>2. kk.emitted = kk.dropped + Len(kk.queue) + kk.sent
    <3>1. k.emitted = k.dropped + Len(q) + k.sent BY DEF Flow
    <3>2. Len(kk.queue) = Len(q) - n BY <1>4, <1>9
    <3>3. kk.emitted = k.emitted /\ kk.dropped = k.dropped /\ kk.sent = k.sent + n BY <1>9
    <3> QED BY <1>1, <1>7, <3>1, <3>2, <3>3
  <2>3. kk.sent = Cardinality(OnPipe(u \o F)) + r
    <3>1. k.sent = Cardinality(OnPipe(u)) + r /\ Cardinality(OnPipe(u)) \in Nat BY FS_CardinalityType DEF Flow
    <3> QED BY <1>7, <1>9, <1>11, <3>1
  <2>4. Len(kk.queue) <= QueueCap[c] /\ kk.sent - kk.acked <= WindowCap[c] /\ kk.acked <= r
    <3>1. Len(q) <= QueueCap[c] /\ k.acked <= r BY DEF Flow
    <3>2. Len(kk.queue) = Len(q) - n BY <1>4, <1>9
    <3>3. kk.sent = k.sent + n /\ kk.acked = k.acked BY <1>9
    <3>4. Len(kk.queue) <= QueueCap[c] BY <1>1, <1>2, <1>7, <3>1, <3>2
    <3>5. kk.acked <= r BY <3>1, <3>3
    <3>6. (k.sent + n) - k.acked <= WindowCap[c] BY ONLY <1>1, <1>2, <1>3, <1>7
    <3> QED BY <3>3, <3>4, <3>5, <3>6
  <2>5. Distinct(kk.queue) /\ OnPipe(u \o F) \cap Range(kk.queue) = {}
    <3>1. OnPipe(u) \cap Range(q) = {} BY DEF Flow
    <3> QED BY <1>4, <1>9, <1>10, <3>1
  <2>6. \A x \in OnPipe(u \o F) \union Range(kk.queue) : x < kk.next
    <3>1. \A x \in OnPipe(u) \union Range(q) : x < k.next BY DEF Flow
    <3> QED BY <1>4, <1>9, <1>10, <3>1
  <2> QED BY <1>10, <1>11, <2>1, <2>2, <2>3, <2>4, <2>5, <2>6 DEF Flow
<1> QED BY <1>5, <1>6, <1>8, <1>9, <1>12 DEF f, F

\* What a pipe holds no events on.
LEMMA NothingOnPipe ==
  /\ << >> \in Seq(UpType) /\ OnPipe(<< >>) = {} /\ PipeDistinct(<< >>)
  /\ \A f \in FinType : <<f>> \in Seq(UpType) /\ OnPipe(<<f>>) = {} /\ PipeDistinct(<<f>>)
<1>1. << >> \in Seq(UpType) /\ OnPipe(<< >>) = {} /\ PipeDistinct(<< >>)
  BY DEF OnPipe, PipeDistinct, Carries
<1>2. ASSUME NEW f \in FinType PROVE <<f>> \in Seq(UpType) /\ OnPipe(<<f>>) = {} /\ PipeDistinct(<<f>>)
  <2>1. f \in UpType BY DEF UpType
  <2>2. <<f>> \in Seq(UpType) BY <2>1
  <2>3. \A i \in DOMAIN <<f>> : <<f>>[i].type = "fin_result" BY DEF FinType
  <2>4. \A i, j : ~Carries(<<f>>, i, j) BY <2>3 DEF Carries
  <2> QED BY <2>2, <2>4 DEF OnPipe, PipeDistinct
<1> QED BY <1>1, <1>2

\* What Flow says depends on the counts of the channel and the events on the pipe alone.
LEMMA FlowDepends ==
  ASSUME NEW c, NEW k, NEW kk, NEW u, NEW v, NEW r, Flow(c, k, u, r),
         kk.queue = k.queue, kk.next = k.next, kk.emitted = k.emitted, kk.dropped = k.dropped,
         kk.sent = k.sent, kk.acked = k.acked, OnPipe(v) = OnPipe(u), PipeDistinct(v)
  PROVE  Flow(c, kk, v, r)
BY DEF Flow

\* emit(): the event is queued or dropped and counted, and a full queue is flushed.
LEMMA EmitConserves ==
  ASSUME NEW c \in Names, NEW k \in ChannelType, NEW u \in Seq(UpType), NEW r \in Nat, Flow(c, k, u, r)
  PROVE  LET f == emit(c, k) IN
         f.channel \in ChannelType /\ f.frames \in Seq(UpType) /\ Flow(c, f.channel, u \o f.frames, r)
<1> DEFINE q == k.queue
           dropping == [k EXCEPT !.emitted = @ + 1, !.next = @ + 1, !.dropped = @ + 1]
           queued == [k EXCEPT !.emitted = @ + 1, !.next = @ + 1, !.queue = Append(@, k.next)]
           timed == [queued EXCEPT !.timer = TRUE]
           qq == Append(q, k.next)
<1>1. /\ q \in Seq(Nat) /\ Len(q) \in Nat /\ DOMAIN q = 1..Len(q) /\ k.sent \in Nat /\ k.acked \in Nat
      /\ k.dropped \in Nat /\ k.next \in Nat /\ k.emitted \in Nat
  BY DEF ChannelType
<1>2. QueueCap[c] \in Nat BY ChannelAssumption
<1>6. k.next + 1 \in Nat /\ k.emitted + 1 \in Nat /\ k.dropped + 1 \in Nat BY <1>1
<1>7. /\ OnPipe(u) \subseteq Nat /\ Range(q) \subseteq Nat
      /\ \A n \in OnPipe(u) \union Range(q) : n < k.next
      /\ \A n \in OnPipe(u) \union Range(q) : n < k.next + 1
  <2>1. OnPipe(u) \subseteq Nat BY DEF OnPipe
  <2>2. Range(q) \subseteq Nat BY <1>1 DEF Range
  <2>3. \A n \in OnPipe(u) \union Range(q) : n < k.next BY DEF Flow
  <2>4. ASSUME NEW n \in OnPipe(u) \union Range(q) PROVE n < k.next + 1
    <3>1. n \in Nat /\ n < k.next BY <2>1, <2>2, <2>3
    <3> QED BY <1>1, <3>1
  <2> QED BY <2>1, <2>2, <2>3, <2>4
<1>3. u \o << >> = u /\ << >> \in Seq(UpType) BY NothingOnPipe
<1>4. CASE Len(k.queue) >= QueueCap[c]
  <2>1. emit(c, k) = [channel |-> dropping, frames |-> << >>] BY <1>4 DEF emit
  <2>2. dropping \in ChannelType BY <1>6 DEF ChannelType
  <2>3. /\ dropping.queue = q /\ dropping.next = k.next + 1 /\ dropping.emitted = k.emitted + 1
        /\ dropping.dropped = k.dropped + 1 /\ dropping.sent = k.sent /\ dropping.acked = k.acked
    BY DEF ChannelType
  <2> HIDE DEF dropping
  <2>4. dropping.emitted = dropping.next - 1 /\ dropping.emitted = dropping.dropped + Len(dropping.queue) + dropping.sent
    <3>1. k.emitted = k.next - 1 /\ k.emitted = k.dropped + Len(q) + k.sent BY DEF Flow
    <3>2. k.emitted + 1 = (k.next + 1) - 1 /\ k.emitted + 1 = (k.dropped + 1) + Len(q) + k.sent
      <4> DEFINE e == k.emitted
                 x == k.next
                 d == k.dropped
                 l == Len(q)
                 t == k.sent
      <4>1. e \in Nat /\ x \in Nat /\ d \in Nat /\ l \in Nat /\ t \in Nat /\ e = x - 1 /\ e = d + l + t BY <1>1, <3>1
      <4> HIDE DEF e, x, d, l, t
      <4>2. e + 1 = (x + 1) - 1 /\ e + 1 = (d + 1) + l + t BY ONLY <4>1
      <4> QED BY <4>2 DEF e, x, d, l, t
    <3> QED BY <2>3, <3>2
  <2>5. \A n \in OnPipe(u) \union Range(dropping.queue) : n < dropping.next BY <1>7, <2>3
  <2>6. Flow(c, dropping, u, r) BY <2>3, <2>4, <2>5 DEF Flow
  <2> QED BY <1>3, <2>1, <2>2, <2>6
<1>5. CASE ~(Len(k.queue) >= QueueCap[c])
  <2>1. qq \in Seq(Nat) /\ Len(qq) = Len(q) + 1 /\ Range(qq) = Range(q) \union {k.next} /\ Distinct(qq)
    <3>1. qq \in Seq(Nat) /\ Len(qq) = Len(q) + 1 /\ qq[Len(q) + 1] = k.next /\ \A i \in 1..Len(q) : qq[i] = q[i]
      BY <1>1, AppendProperties
    <3> HIDE DEF qq
    <3>2. DOMAIN qq = 1..Len(q) + 1 /\ 1..Len(q) + 1 = 1..Len(q) \union {Len(q) + 1} BY <1>1, <3>1
    <3>3. \A i \in 1..Len(q) : q[i] < k.next /\ q[i] \in Nat BY <1>1, <1>7 DEF Range
    <3>6. ASSUME NEW x \in Range(qq) PROVE x \in Range(q) \union {k.next}
      <4>1. PICK i \in 1..Len(q) + 1 : x = qq[i] BY <3>2, <3>6 DEF Range
      <4>2. CASE i \in 1..Len(q) BY <1>1, <3>1, <4>1, <4>2 DEF Range
      <4>3. CASE i = Len(q) + 1 BY <3>1, <4>1, <4>3
      <4> QED BY <3>2, <4>2, <4>3
    <3>7. ASSUME NEW i \in 1..Len(q) PROVE q[i] \in Range(qq)
      <4>1. i \in DOMAIN qq /\ qq[i] = q[i] BY <3>1, <3>2
      <4> QED BY <4>1 DEF Range
    <3>8. k.next \in Range(qq)
      <4>1. Len(q) + 1 \in DOMAIN qq BY <3>2
      <4> QED BY <3>1, <4>1 DEF Range
    <3>9. \A x \in Range(q) : \E i \in 1..Len(q) : x = q[i] BY <1>1 DEF Range
    <3>4. Range(qq) = Range(q) \union {k.next} BY <3>6, <3>7, <3>8, <3>9
    <3>5. Distinct(qq)
      <4> SUFFICES ASSUME NEW i \in DOMAIN qq, NEW j \in DOMAIN qq, qq[i] = qq[j] PROVE i = j BY DEF Distinct
      <4>1. CASE i \in 1..Len(q) /\ j \in 1..Len(q) BY <1>1, <3>1, <4>1 DEF Flow, Distinct
      <4>2. CASE i = Len(q) + 1 /\ j \in 1..Len(q)
        <5>1. qq[i] = k.next /\ qq[j] = q[j] /\ q[j] < k.next /\ q[j] \in Nat BY <3>1, <3>3, <4>2
        <5>2. q[j] = k.next BY <5>1
        <5>3. ~(k.next < k.next) BY <1>1
        <5> QED BY <5>1, <5>2, <5>3
      <4>3. CASE i \in 1..Len(q) /\ j = Len(q) + 1
        <5>1. qq[j] = k.next /\ qq[i] = q[i] /\ q[i] < k.next /\ q[i] \in Nat BY <3>1, <3>3, <4>3
        <5> QED BY <1>1, <5>1
      <4> QED BY <3>2, <4>1, <4>2, <4>3
    <3> QED BY <3>1, <3>4, <3>5
  <2>2. queued \in ChannelType BY <1>6, <2>1 DEF ChannelType
  <2>3. /\ queued.queue = qq /\ queued.next = k.next + 1 /\ queued.emitted = k.emitted + 1
        /\ queued.dropped = k.dropped /\ queued.sent = k.sent /\ queued.acked = k.acked
    BY DEF ChannelType
  <2> HIDE DEF qq
  <2>4. timed \in ChannelType /\ timed.queue = queued.queue /\ timed.next = queued.next /\ timed.emitted = queued.emitted
        /\ timed.dropped = queued.dropped /\ timed.sent = queued.sent /\ timed.acked = queued.acked
    BY <2>2 DEF ChannelType
  <2>5. emit(c, k) = IF Len(queued.queue) >= MaxFrame[c] THEN flush(c, queued) ELSE [channel |-> timed, frames |-> << >>]
    BY <1>5 DEF emit
  <2> HIDE DEF queued, timed
  <2>6. Flow(c, queued, u, r)
    <3>1. queued.emitted = queued.next - 1 BY <1>1, <2>3 DEF Flow
    <3>2. queued.emitted = queued.dropped + Len(queued.queue) + queued.sent
      <4>1. k.emitted = k.dropped + Len(q) + k.sent BY DEF Flow
      <4>2. Len(queued.queue) = Len(q) + 1 BY <2>1, <2>3
      <4> QED BY <1>1, <2>3, <4>1, <4>2
    <3>3. Len(queued.queue) <= QueueCap[c]
      <4>1. Len(queued.queue) = Len(q) + 1 BY <2>1, <2>3
      <4> QED BY <1>1, <1>2, <1>5, <4>1
    <3>5. \A n \in OnPipe(u) \union Range(qq) : n < k.next + 1
      <4>1. k.next < k.next + 1 BY <1>1
      <4> QED BY <1>7, <2>1, <4>1
    <3>6. OnPipe(u) \cap Range(qq) = {}
      <4>1. OnPipe(u) \cap Range(q) = {} BY DEF Flow
      <4>2. k.next \notin OnPipe(u)
        <5>1. ~(k.next < k.next) BY <1>1
        <5> QED BY <1>7, <5>1
      <4> QED BY <2>1, <4>1, <4>2
    <3>7. IsFiniteSet(OnPipe(u)) /\ queued.sent = Cardinality(OnPipe(u)) + r /\ PipeDistinct(u)
          /\ queued.sent - queued.acked <= WindowCap[c] /\ queued.acked <= r
      BY <2>3 DEF Flow
    <3>8. Distinct(queued.queue) /\ OnPipe(u) \cap Range(queued.queue) = {}
          /\ \A n \in OnPipe(u) \union Range(queued.queue) : n < queued.next
      BY <2>1, <2>3, <3>5, <3>6
    <3> QED BY <3>1, <3>2, <3>3, <3>7, <3>8 DEF Flow
  <2>7. CASE Len(queued.queue) >= MaxFrame[c]
    <3>1. emit(c, k) = flush(c, queued) BY <2>5, <2>7
    <3> QED BY <2>2, <2>6, <3>1, FlushConserves
  <2>8. CASE ~(Len(queued.queue) >= MaxFrame[c])
    <3>1. emit(c, k) = [channel |-> timed, frames |-> << >>] BY <2>5, <2>8
    <3>2. PipeDistinct(u) BY DEF Flow
    <3>3. Flow(c, timed, u, r) BY <2>4, <2>6, <3>2, FlowDepends
    <3> QED BY <1>3, <2>4, <3>1, <3>3
  <2> QED BY <2>7, <2>8
<1> QED BY <1>4, <1>5

\* acknowledge(): nothing is believed received that was not.
LEMMA AcknowledgeConserves ==
  ASSUME NEW c \in Names, NEW k \in ChannelType, NEW u \in Seq(UpType), NEW r \in Nat, NEW n \in Nat,
         Flow(c, k, u, r), n <= r
  PROVE  LET f == acknowledge(c, k, n) IN
         f.channel \in ChannelType /\ f.frames \in Seq(UpType) /\ Flow(c, f.channel, u \o f.frames, r)
<1>1. CASE n > k.acked /\ n <= k.sent
  <2> DEFINE kk == [k EXCEPT !.acked = n]
  <2>1. acknowledge(c, k, n) = flush(c, kk) BY <1>1 DEF acknowledge
  <2>2. kk \in ChannelType BY DEF ChannelType
  <2>3. /\ kk.queue = k.queue /\ kk.next = k.next /\ kk.emitted = k.emitted /\ kk.dropped = k.dropped
        /\ kk.sent = k.sent /\ kk.acked = n
    BY DEF ChannelType
  <2>4. WindowCap[c] \in Nat /\ k.sent \in Nat /\ k.acked \in Nat BY ChannelAssumption DEF ChannelType
  <2> HIDE DEF kk
  <2>5. kk.sent - kk.acked <= WindowCap[c] /\ kk.acked <= r
    <3>1. k.sent - k.acked <= WindowCap[c] BY DEF Flow
    <3> QED BY <1>1, <2>3, <2>4, <3>1
  <2>6. Flow(c, kk, u, r) BY <2>3, <2>5 DEF Flow
  <2> QED BY <2>1, <2>2, <2>6, FlushConserves
<1>2. CASE ~(n > k.acked /\ n <= k.sent)
  <2>1. acknowledge(c, k, n) = flush(c, k) BY <1>2 DEF acknowledge
  <2> QED BY <2>1, FlushConserves
<1> QED BY <1>1, <1>2

-----------------------------------------------------------------------------
(* The children, the collector and the runner                              *)

DownType == [type : {"ack"}, received : Nat] \union [type : {"fin", "stop"}]
HandleType == [ready : BOOLEAN, exited : BOOLEAN, stopping : BOOLEAN, waiting : BOOLEAN]
StreamType ==
  [received : Seq(Nat), lastSeq : Nat, dropped : Nat, anomalies : BOOLEAN, fin : FinType \union {<< >>}, crashed : BOOLEAN]

\* No acknowledgement on its way tells of more than was received.
Told(d, r) == \A i \in DOMAIN d : d[i].type = "ack" => d[i].received <= r

\* Without an anomaly the ledger holds the first numbers, once each and in order.
Consecutive(s) == ~s.anomalies => s.lastSeq = Len(s.received) /\ \A i \in 1..Len(s.received) : s.received[i] = i

\* The next frame of the pipe goes into the ledger.
LEMMA FlowIngested ==
  ASSUME NEW c, NEW k \in ChannelType, NEW u \in Seq(UpType), NEW r \in Nat, Flow(c, k, u, r),
         u # << >>, Head(u).type = "events"
  PROVE  /\ Len(Head(u).events) \in Nat
         /\ Flow(c, k, Tail(u), r + Len(Head(u).events))
<1> DEFINE e == Head(u).events
           t == Tail(u)
<1>1. /\ t \in Seq(UpType) /\ PipeDistinct(t) /\ Head(u) \in FrameType /\ Distinct(e)
      /\ Range(e) \subseteq OnPipe(u) /\ OnPipe(t) = OnPipe(u) \ Range(e)
  BY PipeHead DEF Flow
<1>2. e \in Seq(Nat) /\ Len(e) \in Nat BY <1>1 DEF FrameType
<1>3. IsFiniteSet(Range(e)) /\ Cardinality(Range(e)) = Len(e) BY <1>1, <1>2, DistinctCount
<1> HIDE DEF e, t
<1>4. IsFiniteSet(OnPipe(u)) BY DEF Flow
<1>5. IsFiniteSet(OnPipe(t)) /\ Cardinality(OnPipe(t)) = Cardinality(OnPipe(u)) - Len(e)
  <2>1. /\ IsFiniteSet(OnPipe(u) \ Range(e))
        /\ Cardinality(OnPipe(u) \ Range(e)) = Cardinality(OnPipe(u)) - Cardinality(OnPipe(u) \cap Range(e))
    BY <1>4, FS_Difference
  <2>2. OnPipe(u) \cap Range(e) = Range(e) BY <1>1
  <2> QED BY <1>1, <1>3, <2>1, <2>2
<1>6. k.sent = Cardinality(OnPipe(t)) + (r + Len(e))
  <2>1. k.sent = Cardinality(OnPipe(u)) + r /\ Cardinality(OnPipe(u)) \in Nat BY <1>4, FS_CardinalityType DEF Flow
  <2> QED BY <1>2, <1>5, <2>1
<1>7. k.acked <= r + Len(e)
  <2>1. k.acked \in Nat /\ k.acked <= r BY DEF Flow, ChannelType
  <2> QED BY <1>2, <2>1
<1>8. OnPipe(t) \subseteq OnPipe(u) BY <1>1
<1>9. /\ OnPipe(t) \cap Range(k.queue) = {}
      /\ \A n \in OnPipe(t) \union Range(k.queue) : n < k.next
  BY <1>8 DEF Flow
<1>10. /\ k.emitted = k.next - 1 /\ k.emitted = k.dropped + Len(k.queue) + k.sent
       /\ Len(k.queue) <= QueueCap[c] /\ k.sent - k.acked <= WindowCap[c] /\ Distinct(k.queue)
  BY DEF Flow
<1>11. Flow(c, k, t, r + Len(e)) BY <1>1, <1>5, <1>6, <1>7, <1>9, <1>10 DEF Flow
<1> QED BY <1>2, <1>11 DEF e, t

\* A FIN leaves the pipe.
LEMMA FlowFinished ==
  ASSUME NEW c, NEW k, NEW u \in Seq(UpType), NEW r, Flow(c, k, u, r), u # << >>, Head(u).type = "fin_result"
  PROVE  Flow(c, k, Tail(u), r)
<1>1. PipeDistinct(Tail(u)) /\ OnPipe(Tail(u)) = OnPipe(u) BY PipeHead DEF Flow
<1> QED BY <1>1, FlowDepends

\* ingestFrame(): a ledger in order stays in order or has an anomaly.
LEMMA IngestedKeeps ==
  ASSUME NEW s \in StreamType, NEW f \in FrameType, Consecutive(s)
  PROVE  /\ Ingested(s, f) \in StreamType /\ Consecutive(Ingested(s, f))
         /\ Len(Ingested(s, f).received) = Len(s.received) + Len(f.events)
<1> DEFINE e == f.events
           a == s.lastSeq
           b == s.received
           top == Max({a} \union Range(e))
           drops == IF f.dropped > s.dropped THEN f.dropped ELSE s.dropped
           odd == s.anomalies \/ \E i \in DOMAIN e : e[i] # a + i \/ run.frozen
           z == Ingested(s, f)
<1>1. /\ e \in Seq(Nat) /\ Len(e) \in Nat /\ DOMAIN e = 1..Len(e)
      /\ a \in Nat /\ b \in Seq(Nat) /\ Len(b) \in Nat /\ DOMAIN b = 1..Len(b) /\ f.dropped \in Nat
  BY DEF FrameType, StreamType
<1>2. top \in Nat /\ top \in {a} \union Range(e) /\ \A x \in {a} \union Range(e) : x <= top BY <1>1, MaxOfSeq
<1>3. drops \in Nat BY DEF FrameType, StreamType
<1>4. odd \in BOOLEAN
  <2>1. s.anomalies \in BOOLEAN BY DEF StreamType
  <2> QED BY <2>1, Zenon
<1>5. /\ b \o e \in Seq(Nat) /\ Len(b \o e) = Len(b) + Len(e)
      /\ \A i \in 1..Len(b) + Len(e) : (b \o e)[i] = IF i <= Len(b) THEN b[i] ELSE e[i - Len(b)]
  BY <1>1, ConcatProperties
<1>6. z = [s EXCEPT !.received = b \o e, !.lastSeq = top, !.dropped = drops, !.anomalies = odd]
  BY DEF Ingested
<1> DEFINE be == b \o e
<1>11. \A i \in DOMAIN e : odd \/ e[i] = a + i OBVIOUS
<1>12. odd \/ ~s.anomalies OBVIOUS
<1> HIDE DEF top, drops, odd, be, z
<1>7. z \in StreamType BY <1>2, <1>3, <1>4, <1>5, <1>6 DEF StreamType, be
<1>8. z.received = be /\ z.lastSeq = top /\ (z.anomalies <=> odd) BY <1>4, <1>6 DEF StreamType, be
<1>9. ASSUME ~odd PROVE top = Len(be) /\ \A i \in 1..Len(be) : be[i] = i
  <2>1. a = Len(b) /\ \A i \in 1..Len(b) : b[i] = i BY <1>9, <1>12 DEF Consecutive
  <2>2. \A i \in 1..Len(e) : e[i] = a + i BY <1>1, <1>9, <1>11
  <2>3. Len(be) = Len(b) + Len(e) BY <1>5 DEF be
  <2>4. top = a + Len(e)
    <3>1. CASE Len(e) = 0
      <4>1. Range(e) = {} BY <1>1, <3>1 DEF Range
      <4> QED BY <1>1, <1>2, <3>1, <4>1
    <3>2. CASE Len(e) # 0
      <4>1. Len(e) \in 1..Len(e) BY <1>1, <3>2
      <4>2. a + Len(e) \in Range(e) BY <1>1, <2>2, <4>1 DEF Range
      <4>3. a + Len(e) <= top BY <1>2, <4>2
      <4>4. \A x \in Range(e) : x <= a + Len(e) /\ x \in Nat
        <5> SUFFICES ASSUME NEW i \in 1..Len(e) PROVE e[i] <= a + Len(e) /\ e[i] \in Nat BY <1>1 DEF Range
        <5>1. e[i] = a + i BY <2>2
        <5> QED BY <1>1, <5>1
      <4>5. top <= a + Len(e)
        <5>1. CASE top = a BY <1>1, <5>1
        <5>2. CASE top \in Range(e) BY <4>4, <5>2
        <5> QED BY <1>2, <5>1, <5>2
      <4>6. a + Len(e) \in Nat BY <1>1
      <4> QED BY <1>2, <4>3, <4>5, <4>6
    <3> QED BY <3>1, <3>2
  <2>5. ASSUME NEW i \in 1..Len(b) + Len(e) PROVE be[i] = i
    <3>1. CASE i <= Len(b)
      <4>1. be[i] = b[i] /\ i \in 1..Len(b) BY <1>1, <1>5, <3>1 DEF be
      <4> QED BY <2>1, <4>1
    <3>2. CASE ~(i <= Len(b))
      <4>1. be[i] = e[i - Len(b)] BY <1>5, <3>2 DEF be
      <4>2. i - Len(b) \in 1..Len(e) /\ Len(b) + (i - Len(b)) = i
        <5> DEFINE m == Len(b)
                   n == Len(e)
        <5>1. m \in Nat /\ n \in Nat /\ i \in 1..m + n /\ ~(i <= m) BY <1>1, <3>2
        <5> HIDE DEF m, n
        <5>2. i - m \in 1..n /\ m + (i - m) = i BY ONLY <5>1
        <5> QED BY <5>2 DEF m, n
      <4> QED BY <2>1, <2>2, <4>1, <4>2
    <3> QED BY <3>1, <3>2
  <2> QED BY <2>1, <2>3, <2>4, <2>5
<1>10. Consecutive(z) BY <1>8, <1>9 DEF Consecutive
<1> QED BY <1>5, <1>7, <1>8, <1>10 DEF z, be

RunType ==
  [pc : {"starting", "phases", "finish", "waitfin", "stop", "stopping", "judged"}, at : Nat, frozen : BOOLEAN,
   verdict : {"none", "ERROR", "VALID", "INVALID"}]

ChannelTypes ==
  /\ ch \in [Names -> ChannelType] /\ up \in [Names -> Seq(UpType)] /\ down \in [Names -> Seq(DownType)]
  /\ handle \in [Names -> HandleType] /\ stream \in [Names -> StreamType] /\ run \in RunType

\* A child that lives or has not started has its events accounted for; every ledger is in order.
Accounted(c, k, u, d, h, s) ==
  /\ k.alive \/ ~h.ready => Flow(c, k, u, Len(s.received)) /\ Told(d, Len(s.received))
  /\ Consecutive(s)

EarnedVerdict == run.verdict = "VALID" => run.pc = "judged" /\ \A c \in Names : StreamIsClean(stream[c])

ChannelInv ==
  /\ ChannelTypes /\ EarnedVerdict
  /\ \A c \in Names : Accounted(c, ch[c], up[c], down[c], handle[c], stream[c])

\* A step of one child leaves the others as they were.
LEMMA OneChild ==
  ASSUME ChannelInv, run.pc # "judged", NEW c \in Names, NEW k \in ChannelType, NEW u \in Seq(UpType),
         NEW d \in Seq(DownType), NEW h \in HandleType, NEW s \in StreamType, Accounted(c, k, u, d, h, s),
         ch' = [ch EXCEPT ![c] = k], up' = [up EXCEPT ![c] = u], down' = [down EXCEPT ![c] = d],
         handle' = [handle EXCEPT ![c] = h], stream' = [stream EXCEPT ![c] = s],
         run' \in RunType, run'.verdict = run.verdict
  PROVE  ChannelInv'
<1>1. run.verdict # "VALID" BY DEF ChannelInv, EarnedVerdict
<1>2. EarnedVerdict' BY <1>1 DEF EarnedVerdict
<1>3. ChannelTypes' BY DEF ChannelInv, ChannelTypes
<1>4. ASSUME NEW x \in Names PROVE Accounted(x, ch[x], up[x], down[x], handle[x], stream[x])'
  <2>1. CASE x = c
    <3>1. ch'[x] = k /\ up'[x] = u /\ down'[x] = d /\ handle'[x] = h /\ stream'[x] = s
      BY <2>1 DEF ChannelInv, ChannelTypes
    <3>2. Accounted(c, ch'[x], up'[x], down'[x], handle'[x], stream'[x]) BY <3>1
    <3> QED BY <2>1, <3>2 DEF Accounted, Flow, Told, Consecutive
  <2>2. CASE x # c
    <3>1. ch'[x] = ch[x] /\ up'[x] = up[x] /\ down'[x] = down[x] /\ handle'[x] = handle[x] /\ stream'[x] = stream[x]
      BY <2>2 DEF ChannelInv, ChannelTypes
    <3>2. Accounted(x, ch[x], up[x], down[x], handle[x], stream[x]) BY DEF ChannelInv
    <3>3. Accounted(x, ch'[x], up'[x], down'[x], handle'[x], stream'[x]) BY <3>1, <3>2
    <3> QED BY <3>3 DEF Accounted, Flow, Told, Consecutive
  <2> QED BY <2>1, <2>2
<1> QED BY <1>2, <1>3, <1>4 DEF ChannelInv

\* The same for a child as it is.
LEMMA AsItIs ==
  ASSUME ChannelInv, NEW c \in Names
  PROVE  /\ ch[c] \in ChannelType /\ up[c] \in Seq(UpType) /\ down[c] \in Seq(DownType)
         /\ handle[c] \in HandleType /\ stream[c] \in StreamType /\ run \in RunType
         /\ Accounted(c, ch[c], up[c], down[c], handle[c], stream[c])
         /\ ch = [ch EXCEPT ![c] = ch[c]] /\ up = [up EXCEPT ![c] = up[c]] /\ down = [down EXCEPT ![c] = down[c]]
         /\ handle = [handle EXCEPT ![c] = handle[c]] /\ stream = [stream EXCEPT ![c] = stream[c]]
         /\ Len(stream[c].received) \in Nat
<1>1. /\ ch[c] \in ChannelType /\ up[c] \in Seq(UpType) /\ down[c] \in Seq(DownType)
      /\ handle[c] \in HandleType /\ stream[c] \in StreamType /\ run \in RunType
  BY DEF ChannelInv, ChannelTypes
<1>2. /\ ch = [ch EXCEPT ![c] = ch[c]] /\ up = [up EXCEPT ![c] = up[c]] /\ down = [down EXCEPT ![c] = down[c]]
      /\ handle = [handle EXCEPT ![c] = handle[c]] /\ stream = [stream EXCEPT ![c] = stream[c]]
  BY DEF ChannelInv, ChannelTypes
<1>3. Len(stream[c].received) \in Nat BY <1>1 DEF StreamType
<1> QED BY <1>1, <1>2, <1>3 DEF ChannelInv

\* The control messages that are left, and those that are sent.
LEMMA TailTold ==
  ASSUME NEW d \in Seq(DownType), d # << >>, NEW r, Told(d, r)
  PROVE  /\ Tail(d) \in Seq(DownType) /\ Told(Tail(d), r)
         /\ Head(d).type = "ack" => Head(d).received \in Nat /\ Head(d).received <= r
<1>1. /\ Tail(d) \in Seq(DownType) /\ Len(Tail(d)) = Len(d) - 1 /\ \A i \in 1..Len(Tail(d)) : Tail(d)[i] = d[i + 1]
      /\ Head(d) \in DownType /\ Head(d) = d[1]
  BY HeadTailProperties
<1>2. Len(d) \in Nat /\ Len(d) # 0 /\ DOMAIN d = 1..Len(d) /\ DOMAIN Tail(d) = 1..Len(Tail(d)) /\ 1 \in 1..Len(d) BY <1>1
<1>3. \A i \in 1..Len(Tail(d)) : i + 1 \in 1..Len(d) BY <1>1, <1>2
<1>4. Told(Tail(d), r) BY <1>1, <1>2, <1>3 DEF Told
<1>5. Head(d).type = "ack" => Head(d).received \in Nat BY <1>1 DEF DownType
<1>6. Head(d).type = "ack" => Head(d).received <= r BY <1>1, <1>2 DEF Told
<1> QED BY <1>1, <1>4, <1>5, <1>6

LEMMA SentDown ==
  ASSUME NEW c, NEW d \in Seq(DownType), down[c] = d, NEW r, Told(d, r), NEW m \in DownType, m.type = "ack" => m.received <= r
  PROVE  SendDown(c, m) \in Seq(DownType) /\ Told(SendDown(c, m), r)
<1>1. /\ Append(d, m) \in Seq(DownType) /\ Len(Append(d, m)) = Len(d) + 1 /\ Append(d, m)[Len(d) + 1] = m
      /\ \A i \in 1..Len(d) : Append(d, m)[i] = d[i]
  BY AppendProperties
<1>2. /\ Len(d) \in Nat /\ DOMAIN d = 1..Len(d) /\ DOMAIN Append(d, m) = 1..Len(d) + 1
      /\ 1..Len(d) + 1 = 1..Len(d) \union {Len(d) + 1}
  BY <1>1
<1>3. Told(Append(d, m), r) BY <1>1, <1>2 DEF Told
<1> QED BY <1>1, <1>3 DEF SendDown

\* A FIN has its type.
LEMMA FinTyped ==
  ASSUME NEW k \in ChannelType, NEW b \in BOOLEAN
  PROVE  FinResult(k, b) \in FinType
<1>1. k.emitted \in Nat /\ k.dropped \in Nat /\ k.next - 1 \in Int BY DEF ChannelType
<1> QED BY <1>1 DEF FinResult, stats, FinType, StatsType

\* What the child does to its channel keeps its events accounted for.
LEMMA DoesKeeps ==
  ASSUME ChannelInv, run.pc # "judged", NEW c \in Names, NEW f, NEW more, NEW d \in Seq(DownType),
         f.channel \in ChannelType, f.frames \in Seq(UpType),
         Flow(c, f.channel, up[c] \o f.frames, Len(stream[c].received)),
         more \in Seq(UpType), OnPipe(more) = {}, PipeDistinct(more), Told(d, Len(stream[c].received)),
         Does(c, f, more), down' = [down EXCEPT ![c] = d], UNCHANGED <<handle, stream, run>>
  PROVE  ChannelInv'
<1> DEFINE k == f.channel
           v == up[c] \o f.frames
           u == v \o more
           r == Len(stream[c].received)
<1>1. /\ up[c] \in Seq(UpType) /\ handle[c] \in HandleType /\ stream[c] \in StreamType /\ run \in RunType
      /\ handle = [handle EXCEPT ![c] = handle[c]] /\ stream = [stream EXCEPT ![c] = stream[c]]
      /\ Consecutive(stream[c])
  BY AsItIs DEF Accounted
<1>2. v \in Seq(UpType) BY <1>1, PipeConcat
<1>3. ch' = [ch EXCEPT ![c] = k] /\ up' = [up EXCEPT ![c] = u] BY DEF Does
<1>6. handle' = handle /\ stream' = stream /\ run' = run OBVIOUS
<1>7. Flow(c, k, v, r) OBVIOUS
<1> HIDE DEF v
<1>4. u \in Seq(UpType) /\ OnPipe(u) = OnPipe(v) /\ PipeDistinct(u)
  <2>1. PipeDistinct(v) BY <1>7 DEF Flow
  <2>2. u \in Seq(UpType) /\ OnPipe(u) = OnPipe(v) \union OnPipe(more) /\ PipeDistinct(u) BY <1>2, <2>1, PipeConcat
  <2> QED BY <2>2
<1> HIDE DEF k, u
<1>5. Flow(c, k, u, r) BY <1>4, <1>7, FlowDepends
<1>8. Accounted(c, k, u, d, handle[c], stream[c]) BY <1>1, <1>5 DEF Accounted
<1>9. k \in ChannelType BY DEF k
<1>10. handle' = [handle EXCEPT ![c] = handle[c]] /\ stream' = [stream EXCEPT ![c] = stream[c]]
      /\ run' \in RunType /\ run'.verdict = run.verdict
  BY <1>1, <1>6
<1>11. /\ handle[c] \in HandleType /\ stream[c] \in StreamType BY <1>1
<1>12. u \in Seq(UpType) BY <1>4
<1> QED BY <1>3, <1>8, <1>9, <1>10, <1>11, <1>12, OneChild

\* A child that lives has its events accounted for.
LEMMA AliveFlow ==
  ASSUME ChannelInv, NEW c \in Names, ch[c].alive
  PROVE  Flow(c, ch[c], up[c], Len(stream[c].received)) /\ Told(down[c], Len(stream[c].received))
BY AsItIs DEF Accounted

\* One lemma per action of a child.
LEMMA EmitStep ==
  ASSUME ChannelInv, run.pc # "judged", NEW c \in Names, Emit(c) PROVE ChannelInv'
<1> DEFINE f == emit(c, ch[c])
           r == Len(stream[c].received)
<1>1. /\ ch[c] \in ChannelType /\ up[c] \in Seq(UpType) /\ down[c] \in Seq(DownType) /\ r \in Nat
      /\ down = [down EXCEPT ![c] = down[c]]
  BY AsItIs
<1>2. ch[c].alive /\ Does(c, f, << >>) /\ UNCHANGED <<down, handle, stream, run>> BY DEF Emit
<1>3. Flow(c, ch[c], up[c], r) /\ Told(down[c], r) BY <1>2, AliveFlow
<1>4. f.channel \in ChannelType /\ f.frames \in Seq(UpType) /\ Flow(c, f.channel, up[c] \o f.frames, r)
  BY <1>1, <1>3, EmitConserves
<1>5. << >> \in Seq(UpType) /\ OnPipe(<< >>) = {} /\ PipeDistinct(<< >>) BY NothingOnPipe
<1>6. down' = [down EXCEPT ![c] = down[c]] BY <1>1, <1>2
<1> HIDE DEF f
<1> QED BY <1>1, <1>2, <1>3, <1>4, <1>5, <1>6, DoesKeeps

LEMMA TimerStep ==
  ASSUME ChannelInv, run.pc # "judged", NEW c \in Names, FlushTimer(c) PROVE ChannelInv'
<1> DEFINE f == flush(c, ch[c])
           r == Len(stream[c].received)
<1>1. /\ ch[c] \in ChannelType /\ up[c] \in Seq(UpType) /\ down[c] \in Seq(DownType) /\ r \in Nat
      /\ down = [down EXCEPT ![c] = down[c]]
  BY AsItIs
<1>2. ch[c].alive /\ Does(c, f, << >>) /\ UNCHANGED <<down, handle, stream, run>> BY DEF FlushTimer
<1>3. Flow(c, ch[c], up[c], r) /\ Told(down[c], r) BY <1>2, AliveFlow
<1>4. f.channel \in ChannelType /\ f.frames \in Seq(UpType) /\ Flow(c, f.channel, up[c] \o f.frames, r)
  BY <1>1, <1>3, FlushConserves
<1>5. << >> \in Seq(UpType) /\ OnPipe(<< >>) = {} /\ PipeDistinct(<< >>) BY NothingOnPipe
<1>6. down' = [down EXCEPT ![c] = down[c]] BY <1>1, <1>2
<1> HIDE DEF f
<1> QED BY <1>1, <1>2, <1>3, <1>4, <1>5, <1>6, DoesKeeps

\* A channel and the frames it sent, with a mark that counts nothing changed.
LEMMA Marked ==
  ASSUME NEW c, NEW f, f.channel \in ChannelType, NEW b \in BOOLEAN, NEW u, NEW r, Flow(c, f.channel, u, r)
  PROVE  /\ [f.channel EXCEPT !.draining = b] \in ChannelType
         /\ Flow(c, [f.channel EXCEPT !.draining = b], u, r)
<1> DEFINE k == f.channel
           kk == [k EXCEPT !.draining = b]
<1>1. /\ kk \in ChannelType /\ kk.queue = k.queue /\ kk.next = k.next /\ kk.emitted = k.emitted
      /\ kk.dropped = k.dropped /\ kk.sent = k.sent /\ kk.acked = k.acked
  BY DEF ChannelType
<1> HIDE DEF kk
<1>2. PipeDistinct(u) BY DEF Flow
<1>3. Flow(c, kk, u, r) BY <1>1, <1>2, FlowDepends
<1> QED BY <1>1, <1>3 DEF kk

LEMMA AckStep ==
  ASSUME ChannelInv, run.pc # "judged", NEW c \in Names, ReceiveAck(c) PROVE ChannelInv'
<1> DEFINE n == Head(down[c]).received
           a == acknowledge(c, ch[c], n)
           woken == ch[c].draining /\ IsDrained(a.channel)
           b == a.channel.draining /\ ~woken
           f == [a EXCEPT !.channel.draining = b]
           more == IF woken THEN <<FinResult(a.channel, TRUE)>> ELSE << >>
           r == Len(stream[c].received)
<1>1. /\ ch[c] \in ChannelType /\ up[c] \in Seq(UpType) /\ down[c] \in Seq(DownType) /\ r \in Nat
  BY AsItIs
<1>2. /\ ch[c].alive /\ down[c] # << >> /\ Head(down[c]).type = "ack" /\ Does(c, f, more)
      /\ down' = [down EXCEPT ![c] = Tail(@)] /\ UNCHANGED <<handle, stream, run>>
  BY DEF ReceiveAck
<1>3. Flow(c, ch[c], up[c], r) /\ Told(down[c], r) BY <1>2, AliveFlow
<1>4. Tail(down[c]) \in Seq(DownType) /\ Told(Tail(down[c]), r) /\ n \in Nat /\ n <= r BY <1>1, <1>2, <1>3, TailTold
<1>5. a.channel \in ChannelType /\ a.frames \in Seq(UpType) /\ Flow(c, a.channel, up[c] \o a.frames, r)
  BY <1>1, <1>3, <1>4, AcknowledgeConserves
<1>6. b \in BOOLEAN BY Zenon
<1>11. a = [channel |-> a.channel, frames |-> a.frames]
  BY DEF acknowledge, flush
<1>7. more \in Seq(UpType) /\ OnPipe(more) = {} /\ PipeDistinct(more)
  <2>1. FinResult(a.channel, TRUE) \in FinType BY <1>5, FinTyped
  <2> HIDE DEF a, woken
  <2> QED BY <2>1, NothingOnPipe
<1> HIDE DEF b, more, a
<1>8. f.channel = [a.channel EXCEPT !.draining = b] /\ f.frames = a.frames BY <1>11
<1>9. f.channel \in ChannelType /\ Flow(c, f.channel, up[c] \o f.frames, r) BY <1>5, <1>6, <1>8, Marked
<1>10. f.frames \in Seq(UpType) BY <1>5, <1>8
<1>12. down' = [down EXCEPT ![c] = Tail(down[c])] BY <1>2
<1> HIDE DEF f
<1> QED BY <1>2, <1>4, <1>7, <1>9, <1>10, <1>12, DoesKeeps

LEMMA FinStep ==
  ASSUME ChannelInv, run.pc # "judged", NEW c \in Names, ReceiveFin(c) PROVE ChannelInv'
<1> DEFINE a == flush(c, ch[c])
           f == [a EXCEPT !.channel.draining = TRUE]
           fin == <<FinResult(a.channel, TRUE)>>
           r == Len(stream[c].received)
<1>1. /\ ch[c] \in ChannelType /\ up[c] \in Seq(UpType) /\ down[c] \in Seq(DownType) /\ r \in Nat
  BY AsItIs
<1>2. /\ ch[c].alive /\ down[c] # << >> /\ (Does(c, a, fin) \/ Does(c, f, << >>))
      /\ down' = [down EXCEPT ![c] = Tail(@)] /\ UNCHANGED <<handle, stream, run>>
  BY DEF ReceiveFin
<1>3. Flow(c, ch[c], up[c], r) /\ Told(down[c], r) BY <1>2, AliveFlow
<1>4. Tail(down[c]) \in Seq(DownType) /\ Told(Tail(down[c]), r) BY <1>1, <1>2, <1>3, TailTold
<1>5. a.channel \in ChannelType /\ a.frames \in Seq(UpType) /\ Flow(c, a.channel, up[c] \o a.frames, r)
  BY <1>1, <1>3, FlushConserves
<1>6. a = [channel |-> a.channel, frames |-> a.frames] BY DEF flush
<1>7. fin \in Seq(UpType) /\ OnPipe(fin) = {} /\ PipeDistinct(fin) BY <1>5, FinTyped, NothingOnPipe
<1>8. << >> \in Seq(UpType) /\ OnPipe(<< >>) = {} /\ PipeDistinct(<< >>) BY NothingOnPipe
<1> HIDE DEF a, fin
<1>9. f.channel = [a.channel EXCEPT !.draining = TRUE] /\ f.frames = a.frames BY <1>6
<1>10. f.channel \in ChannelType /\ Flow(c, f.channel, up[c] \o f.frames, r)
  <2>1. TRUE \in BOOLEAN OBVIOUS
  <2>2. /\ [a.channel EXCEPT !.draining = TRUE] \in ChannelType
        /\ Flow(c, [a.channel EXCEPT !.draining = TRUE], up[c] \o a.frames, r)
    BY ONLY <1>5, <2>1, Marked
  <2> QED BY <1>9, <2>2
<1>11. f.frames \in Seq(UpType) BY <1>5, <1>9
<1>12. down' = [down EXCEPT ![c] = Tail(down[c])] BY <1>2
<1> HIDE DEF f
<1>13. CASE Does(c, a, fin) BY <1>2, <1>4, <1>5, <1>7, <1>12, <1>13, DoesKeeps
<1>14. CASE Does(c, f, << >>) BY <1>2, <1>4, <1>8, <1>10, <1>11, <1>12, <1>14, DoesKeeps
<1> QED BY <1>2, <1>13, <1>14

LEMMA DrainStep ==
  ASSUME ChannelInv, run.pc # "judged", NEW c \in Names, DrainTimeout(c) PROVE ChannelInv'
<1> DEFINE kk == [ch[c] EXCEPT !.draining = FALSE]
           a == [channel |-> ch[c], frames |-> << >>]
           f == [channel |-> kk, frames |-> << >>]
           fin == <<FinResult(ch[c], FALSE)>>
           r == Len(stream[c].received)
<1>1. /\ ch[c] \in ChannelType /\ up[c] \in Seq(UpType) /\ down[c] \in Seq(DownType) /\ r \in Nat
      /\ down = [down EXCEPT ![c] = down[c]]
  BY AsItIs
<1>2. ch[c].alive /\ Does(c, f, fin) /\ UNCHANGED <<down, handle, stream, run>> BY DEF DrainTimeout
<1>3. Flow(c, ch[c], up[c], r) /\ Told(down[c], r) BY <1>2, AliveFlow
<1>4. kk \in ChannelType /\ Flow(c, kk, up[c], r)
  <2>1. a.channel = ch[c] OBVIOUS
  <2> HIDE DEF a
  <2> QED BY <1>1, <1>3, <2>1, Marked
<1>5. fin \in Seq(UpType) /\ OnPipe(fin) = {} /\ PipeDistinct(fin) BY <1>1, FinTyped, NothingOnPipe
<1>6. f.channel = kk /\ f.frames = << >> /\ << >> \in Seq(UpType) /\ up[c] \o f.frames = up[c] BY <1>1
<1>7. down' = [down EXCEPT ![c] = down[c]] BY <1>1, <1>2
<1> HIDE DEF f, kk, fin
<1> QED BY <1>1, <1>2, <1>3, <1>4, <1>5, <1>6, <1>7, DoesKeeps

\* A child that ends: its events are kept, or it is one that had started.
LEMMA ChildEndStep ==
  ASSUME ChannelInv, run.pc # "judged", NEW c \in Names, ReceiveStop(c) \/ KillTimer(c) \/ Crash(c) PROVE ChannelInv'
<1> DEFINE kk == [ch[c] EXCEPT !.alive = FALSE]
<1>1. /\ ch[c] \in ChannelType /\ up[c] \in Seq(UpType) /\ handle[c] \in HandleType /\ stream[c] \in StreamType
      /\ run \in RunType /\ Accounted(c, ch[c], up[c], down[c], handle[c], stream[c])
      /\ up = [up EXCEPT ![c] = up[c]] /\ handle = [handle EXCEPT ![c] = handle[c]]
      /\ stream = [stream EXCEPT ![c] = stream[c]]
  BY AsItIs
<1>2. /\ ch[c].alive /\ ch' = [ch EXCEPT ![c] = kk] /\ down' = [down EXCEPT ![c] = << >>]
      /\ UNCHANGED <<handle, stream, run>>
  BY DEF ReceiveStop, KillTimer, Crash
<1>3. kk \in ChannelType /\ ~kk.alive BY <1>1 DEF ChannelType
<1>10. /\ kk.queue = ch[c].queue /\ kk.next = ch[c].next /\ kk.emitted = ch[c].emitted
       /\ kk.dropped = ch[c].dropped /\ kk.sent = ch[c].sent /\ kk.acked = ch[c].acked
  BY <1>1 DEF ChannelType
<1>4. << >> \in Seq(DownType) /\ \A r : Told(<< >>, r) BY DEF Told
<1>5. handle' = [handle EXCEPT ![c] = handle[c]] /\ stream' = [stream EXCEPT ![c] = stream[c]]
      /\ run' \in RunType /\ run'.verdict = run.verdict
  BY <1>1, <1>2
<1> HIDE DEF kk
<1>6. CASE up' = up
  <2>1. up' = [up EXCEPT ![c] = up[c]] BY <1>1, <1>6
  <2>2. Flow(c, ch[c], up[c], Len(stream[c].received)) BY <1>1, <1>2 DEF Accounted
  <2>3. PipeDistinct(up[c]) BY <2>2 DEF Flow
  <2>4. Flow(c, kk, up[c], Len(stream[c].received)) BY <1>10, <2>2, <2>3, FlowDepends
  <2>5. Accounted(c, kk, up[c], << >>, handle[c], stream[c]) BY <1>1, <1>4, <2>4 DEF Accounted
  <2>6. /\ kk \in ChannelType /\ up[c] \in Seq(UpType) /\ << >> \in Seq(DownType) /\ handle[c] \in HandleType
        /\ stream[c] \in StreamType
    BY <1>1, <1>3, <1>4
  <2>7. ch' = [ch EXCEPT ![c] = kk] /\ down' = [down EXCEPT ![c] = << >>] BY <1>2
  <2> QED BY <1>5, <2>1, <2>5, <2>6, <2>7, OneChild
<1>7. CASE Crash(c)
  <2>1. handle[c].ready BY <1>7 DEF Crash
  <2>2. PICK n \in 0..Len(up[c]) : up' = [up EXCEPT ![c] = SubSeq(@, 1, n)] BY <1>7 DEF Crash
  <2> DEFINE v == SubSeq(up[c], 1, n)
  <2>3. v \in Seq(UpType)
    <3>1. \A i \in 1..n : up[c][i] \in UpType BY <1>1
    <3>2. 1 \in Int /\ n \in Int OBVIOUS
    <3> QED BY <1>1, <3>1, <3>2, SubSeqProperties
  <2>4. up' = [up EXCEPT ![c] = v] BY <2>2
  <2> HIDE DEF v
  <2>5. Accounted(c, kk, v, << >>, handle[c], stream[c]) BY <1>1, <1>3, <2>1 DEF Accounted
  <2>6. /\ kk \in ChannelType /\ << >> \in Seq(DownType) /\ handle[c] \in HandleType /\ stream[c] \in StreamType
    BY <1>1, <1>3, <1>4
  <2>7. ch' = [ch EXCEPT ![c] = kk] /\ down' = [down EXCEPT ![c] = << >>] BY <1>2
  <2> QED BY <1>5, <2>3, <2>4, <2>5, <2>6, <2>7, OneChild
<1>8. up' = up \/ Crash(c) BY DEF ReceiveStop, KillTimer
<1> QED BY <1>6, <1>7, <1>8

\* One lemma per action of the harness.
LEMMA FrameStep ==
  ASSUME ChannelInv, run.pc # "judged", NEW c \in Names, HarnessReceivesFrame(c) PROVE ChannelInv'
<1> DEFINE f == Head(up[c])
           s == Ingested(stream[c], f)
           u == Tail(up[c])
           r == Len(stream[c].received)
           rr == Len(s.received)
           ack == [type |-> "ack", received |-> rr]
           d == SendDown(c, ack)
           h == handle[c]
           k == ch[c]
<1>1. /\ k \in ChannelType /\ up[c] \in Seq(UpType) /\ down[c] \in Seq(DownType) /\ h \in HandleType
      /\ stream[c] \in StreamType /\ run \in RunType /\ Accounted(c, k, up[c], down[c], h, stream[c])
      /\ ch = [ch EXCEPT ![c] = k] /\ handle = [handle EXCEPT ![c] = h] /\ r \in Nat
  BY AsItIs
<1>2. /\ up[c] # << >> /\ f.type = "events" /\ stream' = [stream EXCEPT ![c] = s] /\ up' = [up EXCEPT ![c] = u]
      /\ UNCHANGED <<ch, handle, run>>
      /\ down' = [down EXCEPT ![c] = SendDown(c, [type |-> "ack", received |-> Len(stream'[c].received)])]
  BY DEF HarnessReceivesFrame
<1>3. stream'[c] = s BY <1>2 DEF ChannelInv, ChannelTypes
<1>4. down' = [down EXCEPT ![c] = d] BY <1>2, <1>3
<1>5. u \in Seq(UpType) /\ f \in UpType BY <1>1, <1>2, HeadTailProperties
<1>6. f \in FrameType BY <1>2, <1>5 DEF UpType, FinType
<1>7. s \in StreamType /\ Consecutive(s) /\ rr = r + Len(f.events) /\ Len(f.events) \in Nat
  <2>1. Consecutive(stream[c]) BY <1>1 DEF Accounted
  <2>2. Len(f.events) \in Nat BY <1>6 DEF FrameType
  <2> QED BY <1>1, <1>6, <2>1, <2>2, IngestedKeeps
<1> HIDE DEF s, f, u
<1>8. rr \in Nat /\ r <= rr
  <2>1. r \in Nat /\ Len(f.events) \in Nat /\ rr = r + Len(f.events) BY <1>1, <1>7
  <2> HIDE DEF r, rr
  <2> QED BY <2>1
<1>9. ack \in DownType BY <1>8 DEF DownType
<1>10. d \in Seq(DownType) BY <1>1, <1>9 DEF SendDown
<1>11. ASSUME k.alive \/ ~h.ready PROVE Flow(c, k, u, rr) /\ Told(d, rr)
  <2>1. Flow(c, k, up[c], r) /\ Told(down[c], r) BY <1>1, <1>11 DEF Accounted
  <2>2. Flow(c, k, u, r + Len(f.events)) BY <1>1, <1>2, <2>1, FlowIngested DEF u, f
  <2>3. Told(down[c], rr)
    <3> SUFFICES ASSUME NEW i \in DOMAIN down[c], down[c][i].type = "ack" PROVE down[c][i].received <= rr BY DEF Told
    <3>1. down[c][i] \in DownType BY <1>1
    <3>2. down[c][i].received \in Nat BY <3>1 DEF DownType
    <3>3. down[c][i].received <= r BY <2>1 DEF Told
    <3> QED BY <1>1, <1>8, <3>2, <3>3
  <2>4. ack.received <= rr BY <1>8
  <2> HIDE DEF ack
  <2>5. Told(d, rr) BY <1>1, <1>9, <2>3, <2>4, SentDown
  <2> QED BY <1>7, <2>2, <2>5
<1> HIDE DEF d
<1>12. Accounted(c, k, u, d, h, s) BY <1>7, <1>11 DEF Accounted
<1>13. ch' = [ch EXCEPT ![c] = k] /\ handle' = [handle EXCEPT ![c] = h] /\ run' \in RunType /\ run'.verdict = run.verdict
  BY <1>1, <1>2
<1>14. /\ k \in ChannelType /\ u \in Seq(UpType) /\ d \in Seq(DownType) /\ h \in HandleType /\ s \in StreamType
  BY <1>1, <1>5, <1>7, <1>10
<1>15. up' = [up EXCEPT ![c] = u] /\ stream' = [stream EXCEPT ![c] = s] BY <1>2
<1> HIDE DEF k, h
<1> QED BY <1>4, <1>12, <1>13, <1>14, <1>15, OneChild

LEMMA FinReadStep ==
  ASSUME ChannelInv, run.pc # "judged", NEW c \in Names, HarnessReceivesFin(c) PROVE ChannelInv'
<1> DEFINE f == Head(up[c])
           s == [stream[c] EXCEPT !.fin = f]
           h == [handle[c] EXCEPT !.waiting = FALSE]
           u == Tail(up[c])
           d == down[c]
           k == ch[c]
<1>1. /\ k \in ChannelType /\ up[c] \in Seq(UpType) /\ d \in Seq(DownType) /\ handle[c] \in HandleType
      /\ stream[c] \in StreamType /\ run \in RunType /\ Accounted(c, k, up[c], d, handle[c], stream[c])
      /\ ch = [ch EXCEPT ![c] = k] /\ down = [down EXCEPT ![c] = d]
  BY AsItIs
<1>2. /\ up[c] # << >> /\ f.type = "fin_result" /\ stream' = [stream EXCEPT ![c] = s] /\ up' = [up EXCEPT ![c] = u]
      /\ handle' = [handle EXCEPT ![c] = h] /\ UNCHANGED <<ch, down, run>>
  BY DEF HarnessReceivesFin
<1>5. u \in Seq(UpType) /\ f \in UpType BY <1>1, <1>2, HeadTailProperties
<1>6. f \in FinType BY <1>2, <1>5 DEF UpType, FrameType
<1>3. h \in HandleType /\ h.ready = handle[c].ready BY <1>1 DEF HandleType
<1>4. s \in StreamType /\ s.received = stream[c].received /\ s.lastSeq = stream[c].lastSeq /\ s.anomalies = stream[c].anomalies
  BY <1>1, <1>6 DEF StreamType
<1>7. Consecutive(s) BY <1>1, <1>4 DEF Accounted, Consecutive
<1>8. ASSUME k.alive \/ ~h.ready PROVE Flow(c, k, u, Len(s.received)) /\ Told(d, Len(s.received))
  <2>1. Flow(c, k, up[c], Len(stream[c].received)) /\ Told(d, Len(stream[c].received)) BY <1>1, <1>3, <1>8 DEF Accounted
  <2>2. Flow(c, k, u, Len(stream[c].received)) BY <1>1, <1>2, <2>1, FlowFinished
  <2> QED BY <1>4, <2>1, <2>2
<1> HIDE DEF s, h, f, u
<1>9. Accounted(c, k, u, d, h, s) BY <1>7, <1>8 DEF Accounted
<1>10. ch' = [ch EXCEPT ![c] = k] /\ down' = [down EXCEPT ![c] = d] /\ run' \in RunType /\ run'.verdict = run.verdict
  BY <1>1, <1>2
<1> QED BY <1>1, <1>2, <1>3, <1>4, <1>5, <1>9, <1>10, OneChild

LEMMA ExitStep ==
  ASSUME ChannelInv, run.pc # "judged", NEW c \in Names, ObserveExit(c) PROVE ChannelInv'
<1> DEFINE gone == stream[c].crashed \/ (~handle[c].stopping /\ stream[c].fin = << >>)
           s == [stream[c] EXCEPT !.crashed = gone]
           h == [handle[c] EXCEPT !.exited = TRUE, !.waiting = FALSE]
           u == up[c]
           d == down[c]
           k == ch[c]
<1>1. /\ k \in ChannelType /\ u \in Seq(UpType) /\ d \in Seq(DownType) /\ handle[c] \in HandleType
      /\ stream[c] \in StreamType /\ run \in RunType /\ Accounted(c, k, u, d, handle[c], stream[c])
      /\ ch = [ch EXCEPT ![c] = k] /\ down = [down EXCEPT ![c] = d] /\ up = [up EXCEPT ![c] = u]
  BY AsItIs
<1>2. /\ stream' = [stream EXCEPT ![c] = s] /\ handle' = [handle EXCEPT ![c] = h] /\ UNCHANGED <<ch, up, down, run>>
  BY DEF ObserveExit
<1>3. h \in HandleType /\ h.ready = handle[c].ready BY <1>1 DEF HandleType
<1>5. gone \in BOOLEAN
  <2>1. stream[c].crashed \in BOOLEAN BY <1>1 DEF StreamType
  <2> QED BY <2>1, Zenon
<1> HIDE DEF gone
<1>4. s \in StreamType /\ s.received = stream[c].received /\ s.lastSeq = stream[c].lastSeq /\ s.anomalies = stream[c].anomalies
  BY <1>1, <1>5 DEF StreamType
<1>7. Consecutive(s) BY <1>1, <1>4 DEF Accounted, Consecutive
<1>8. ASSUME k.alive \/ ~h.ready PROVE Flow(c, k, u, Len(s.received)) /\ Told(d, Len(s.received))
  BY <1>1, <1>3, <1>4, <1>8 DEF Accounted
<1> HIDE DEF s, h
<1>9. Accounted(c, k, u, d, h, s) BY <1>7, <1>8 DEF Accounted
<1>10. /\ ch' = [ch EXCEPT ![c] = k] /\ down' = [down EXCEPT ![c] = d] /\ up' = [up EXCEPT ![c] = u]
       /\ run' \in RunType /\ run'.verdict = run.verdict
  BY <1>1, <1>2
<1>11. /\ k \in ChannelType /\ u \in Seq(UpType) /\ d \in Seq(DownType) /\ h \in HandleType /\ s \in StreamType
  BY <1>1, <1>3, <1>4
<1>12. stream' = [stream EXCEPT ![c] = s] /\ handle' = [handle EXCEPT ![c] = h] BY <1>2
<1> HIDE DEF u, d, k
<1> QED BY <1>9, <1>10, <1>11, <1>12, OneChild

LEMMA ReadyStep ==
  ASSUME ChannelInv, run.pc # "judged", NEW c \in Names, ChildReady(c) PROVE ChannelInv'
<1> DEFINE k == [ch[c] EXCEPT !.alive = TRUE]
           h == [handle[c] EXCEPT !.ready = TRUE]
           s == stream[c]
           u == up[c]
           d == down[c]
           r == Len(s.received)
<1>1. /\ ch[c] \in ChannelType /\ u \in Seq(UpType) /\ d \in Seq(DownType) /\ handle[c] \in HandleType
      /\ s \in StreamType /\ run \in RunType /\ Accounted(c, ch[c], u, d, handle[c], s)
      /\ up = [up EXCEPT ![c] = u] /\ down = [down EXCEPT ![c] = d] /\ stream = [stream EXCEPT ![c] = s]
  BY AsItIs
<1>2. /\ ~handle[c].ready /\ ch' = [ch EXCEPT ![c] = k] /\ handle' = [handle EXCEPT ![c] = h]
      /\ UNCHANGED <<up, down, stream>>
      /\ run' = [run EXCEPT !.pc = IF \A x \in Names \ {c} : handle[x].ready THEN "phases" ELSE @]
  BY DEF ChildReady
<1>3. run' \in RunType /\ run'.verdict = run.verdict
  <2> DEFINE p == IF \A x \in Names \ {c} : handle[x].ready THEN "phases" ELSE run.pc
  <2>1. p = "phases" \/ p = run.pc OBVIOUS
  <2>2. run' = [run EXCEPT !.pc = p] BY <1>2
  <2> HIDE DEF p
  <2> QED BY <1>1, <2>1, <2>2 DEF RunType
<1>4. h \in HandleType BY <1>1 DEF HandleType
<1>5. /\ k \in ChannelType /\ k.queue = ch[c].queue /\ k.next = ch[c].next /\ k.emitted = ch[c].emitted
      /\ k.dropped = ch[c].dropped /\ k.sent = ch[c].sent /\ k.acked = ch[c].acked
  BY <1>1 DEF ChannelType
<1> HIDE DEF k, h
<1>6. Flow(c, ch[c], u, r) /\ Told(d, r) /\ Consecutive(s) BY <1>1, <1>2 DEF Accounted
<1>7. PipeDistinct(u) BY <1>6 DEF Flow
<1>8. Flow(c, k, u, r) BY <1>5, <1>6, <1>7, FlowDepends
<1>9. Accounted(c, k, u, d, h, s) BY <1>6, <1>8 DEF Accounted
<1>10. ch' = [ch EXCEPT ![c] = k] /\ handle' = [handle EXCEPT ![c] = h] BY <1>2
<1>11. up' = [up EXCEPT ![c] = u] /\ down' = [down EXCEPT ![c] = d] /\ stream' = [stream EXCEPT ![c] = s] BY <1>1, <1>2
<1>12. u \in Seq(UpType) /\ d \in Seq(DownType) /\ s \in StreamType BY <1>1
<1> HIDE DEF u, d, s
<1> QED BY <1>3, <1>4, <1>5, <1>9, <1>10, <1>11, <1>12, OneChild

\* A step of the runner that leaves the children alone.
LEMMA RunOnly ==
  ASSUME ChannelInv, UNCHANGED <<ch, up, down, handle, stream>>, run' \in RunType,
         run'.verdict = "VALID" => run'.pc = "judged" /\ \A c \in Names : StreamIsClean(stream[c])
  PROVE  ChannelInv'
<1>1. ChannelTypes' BY DEF ChannelInv, ChannelTypes
<1>2. EarnedVerdict' BY DEF EarnedVerdict, StreamIsClean
<1>3. \A c \in Names : Accounted(c, ch[c], up[c], down[c], handle[c], stream[c])' BY DEF ChannelInv, Accounted, Flow, Told, Consecutive
<1> QED BY <1>1, <1>2, <1>3 DEF ChannelInv

LEMMA RunnerStep ==
  ASSUME ChannelInv, run.pc # "judged", RunThrows \/ PhasesEnd \/ FinReturns \/ Judge PROVE ChannelInv'
<1>1. UNCHANGED <<ch, up, down, handle, stream>> BY DEF RunThrows, PhasesEnd, FinReturns, Judge
<1>2. run \in RunType /\ run.verdict # "VALID" BY DEF ChannelInv, ChannelTypes, EarnedVerdict
<1>3. CASE RunThrows
  <2>1. run' \in RunType /\ run'.verdict = "ERROR" BY <1>2, <1>3 DEF RunThrows, RunType
  <2> QED BY <1>1, <2>1, RunOnly
<1>4. CASE PhasesEnd \/ FinReturns
  <2>1. run' \in RunType /\ run'.verdict = run.verdict
    <3>1. run.at + 1 \in Nat BY <1>2 DEF RunType
    <3>2. CASE PhasesEnd BY <1>2, <3>2 DEF PhasesEnd, RunType
    <3>3. CASE FinReturns
      <4>1. \/ run' = [run EXCEPT !.pc = "finish", !.at = @ + 1]
            \/ run' = [run EXCEPT !.pc = "stop", !.frozen = TRUE]
        BY <3>3 DEF FinReturns
      <4> QED BY <1>2, <3>1, <4>1 DEF RunType
    <3> QED BY <1>4, <3>2, <3>3
  <2> QED BY <1>1, <1>2, <2>1, RunOnly
<1>5. CASE Judge
  <2> DEFINE v == IF run.verdict = "ERROR" THEN run.verdict
                  ELSE IF \A c \in Names : StreamIsClean(stream[c]) THEN "VALID" ELSE "INVALID"
  <2>1. run' = [run EXCEPT !.pc = "judged", !.verdict = v] BY <1>5 DEF Judge
  <2>2. v \in {"ERROR", "VALID", "INVALID"} /\ (v = "VALID" => \A c \in Names : StreamIsClean(stream[c]))
    BY <1>2
  <2> HIDE DEF v
  <2>3. run' \in RunType /\ run'.pc = "judged" /\ run'.verdict = v BY <1>2, <2>1, <2>2 DEF RunType
  <2> QED BY <1>1, <2>2, <2>3, RunOnly
<1> QED BY <1>3, <1>4, <1>5

LEMMA WaitStep ==
  ASSUME ChannelInv, run.pc # "judged", AskFin \/ FinTimeout PROVE ChannelInv'
<1> DEFINE c == Children[run.at]
           w == IF AskFin THEN ~handle[c].exited ELSE FALSE
           h == [handle[c] EXCEPT !.waiting = w]
           d == IF AskFin THEN SendDown(c, [type |-> "fin"]) ELSE down[c]
<1>1. run \in RunType /\ run.verdict # "VALID" BY DEF ChannelInv, ChannelTypes, EarnedVerdict
<1>2. /\ UNCHANGED <<ch, up, stream>> /\ run' \in RunType /\ run'.verdict = run.verdict
  BY <1>1 DEF AskFin, FinTimeout, RunType
<1>3. AskFin => handle' = [handle EXCEPT ![c].waiting = ~handle[c].exited] /\ down' = [down EXCEPT ![c] = SendDown(c, [type |-> "fin"])]
  BY DEF AskFin
<1>4. ~AskFin => handle' = [handle EXCEPT ![c].waiting = FALSE] /\ down' = down
  BY DEF FinTimeout
<1>5. CASE c \notin Names
  <2>1. handle' = handle /\ down' = down BY <1>3, <1>4, <1>5 DEF ChannelInv, ChannelTypes
  <2> QED BY <1>1, <1>2, <2>1, RunOnly
<1>6. CASE c \in Names
  <2> DEFINE k == ch[c]
             u == up[c]
             s == stream[c]
             r == Len(s.received)
  <2>1. /\ k \in ChannelType /\ u \in Seq(UpType) /\ down[c] \in Seq(DownType) /\ handle[c] \in HandleType
        /\ s \in StreamType /\ Accounted(c, k, u, down[c], handle[c], s) /\ r \in Nat
        /\ ch = [ch EXCEPT ![c] = k] /\ up = [up EXCEPT ![c] = u] /\ stream = [stream EXCEPT ![c] = s]
        /\ down = [down EXCEPT ![c] = down[c]]
    BY <1>6, AsItIs
  <2>2. w \in BOOLEAN
    <3>1. handle[c].exited \in BOOLEAN BY <2>1 DEF HandleType
    <3> QED BY <3>1, Zenon
  <2>3. handle' = [handle EXCEPT ![c] = h]
    <3>1. CASE AskFin BY <1>3, <3>1
    <3>2. CASE ~AskFin BY <1>4, <3>2
    <3> QED BY <3>1, <3>2
  <2>4. down' = [down EXCEPT ![c] = d]
    <3>1. CASE AskFin BY <1>3, <3>1
    <3>2. CASE ~AskFin BY <1>4, <2>1, <3>2
    <3> QED BY <3>1, <3>2
  <2>5. d \in Seq(DownType) /\ \A x \in Nat : Told(down[c], x) => Told(d, x)
    <3>1. [type |-> "fin"] \in DownType /\ [type |-> "fin"].type # "ack" BY DEF DownType
    <3>2. CASE AskFin
      <4> DEFINE m == [type |-> "fin"]
      <4>1. m \in DownType /\ (m.type = "ack" => FALSE) BY <3>1
      <4> HIDE DEF m
      <4>2. Append(down[c], m) \in Seq(DownType) BY <2>1, <4>1
      <4>3. SendDown(c, m) \in Seq(DownType) BY <2>1, <4>2 DEF SendDown
      <4>4. \A x \in Nat : Told(down[c], x) => Told(SendDown(c, m), x) BY <2>1, <4>1, SentDown
      <4>5. d = SendDown(c, m) BY <3>2 DEF m
      <4> QED BY <4>3, <4>4, <4>5
    <3>3. CASE ~AskFin
      <4>1. d = down[c] BY <3>3
      <4> QED BY <2>1, <4>1
    <3> QED BY <3>2, <3>3
  <2> HIDE DEF w, d
  <2>6. h \in HandleType /\ h.ready = handle[c].ready BY <2>1, <2>2 DEF HandleType
  <2> HIDE DEF h
  <2>7. Accounted(c, k, u, d, h, s) BY <2>1, <2>5, <2>6 DEF Accounted
  <2>8. ch' = [ch EXCEPT ![c] = k] /\ up' = [up EXCEPT ![c] = u] /\ stream' = [stream EXCEPT ![c] = s] BY <1>2, <2>1
  <2>9. k \in ChannelType /\ u \in Seq(UpType) /\ d \in Seq(DownType) /\ s \in StreamType BY <2>1, <2>5
  <2>10. run' \in RunType /\ run'.verdict = run.verdict BY <1>2
  <2> HIDE DEF k, u, s, r
  <2> HIDE DEF c
  <2> QED BY <1>6, <2>3, <2>4, <2>6, <2>7, <2>8, <2>9, <2>10, OneChild
<1> QED BY <1>5, <1>6

LEMMA StopStep ==
  ASSUME ChannelInv, run.pc # "judged", StopAll PROVE ChannelInv'
<1>1. run \in RunType /\ run.verdict # "VALID" BY DEF ChannelInv, ChannelTypes, EarnedVerdict
<1>2. UNCHANGED <<ch, up, stream>> /\ run' \in RunType /\ run'.verdict = run.verdict BY <1>1 DEF StopAll, RunType
<1> DEFINE m == [type |-> "stop"]
<1>3. m \in DownType /\ m.type # "ack" BY DEF DownType
<1>4. handle' = [c \in Names |-> [handle[c] EXCEPT !.stopping = handle[c].ready]] BY DEF StopAll
<1>5. down' = [c \in Names |-> SendDown(c, m)] BY DEF StopAll
<1> HIDE DEF m
<1>6. ASSUME NEW c \in Names
      PROVE  /\ handle'[c] \in HandleType /\ handle'[c].ready = handle[c].ready
             /\ down'[c] \in Seq(DownType) /\ \A x \in Nat : Told(down[c], x) => Told(down'[c], x)
  <2>1. down[c] \in Seq(DownType) /\ handle[c] \in HandleType BY AsItIs
  <2>2. handle'[c] = [handle[c] EXCEPT !.stopping = handle[c].ready] /\ down'[c] = SendDown(c, m) BY <1>4, <1>5
  <2>3. handle'[c] \in HandleType /\ handle'[c].ready = handle[c].ready BY <2>1, <2>2 DEF HandleType
  <2>4. SendDown(c, m) \in Seq(DownType)
    <3>1. Append(down[c], m) \in Seq(DownType) BY <1>3, <2>1
    <3> QED BY <2>1, <3>1 DEF SendDown
  <2>5. \A x \in Nat : Told(down[c], x) => Told(SendDown(c, m), x) BY <1>3, <2>1, SentDown
  <2> QED BY <2>2, <2>3, <2>4, <2>5
<1>7. handle' \in [Names -> HandleType] /\ down' \in [Names -> Seq(DownType)]
  <2>1. handle' \in [Names -> HandleType] BY <1>4, <1>6
  <2>2. down' \in [Names -> Seq(DownType)] BY <1>5, <1>6
  <2> QED BY <2>1, <2>2
<1>8. ChannelTypes' BY <1>2, <1>7 DEF ChannelInv, ChannelTypes
<1>9. EarnedVerdict' BY <1>1, <1>2 DEF EarnedVerdict
<1>10. ASSUME NEW c \in Names PROVE Accounted(c, ch[c], up[c], down[c], handle[c], stream[c])'
  <2>1. Accounted(c, ch[c], up[c], down[c], handle[c], stream[c]) /\ Len(stream[c].received) \in Nat BY AsItIs
  <2>2. Accounted(c, ch[c], up[c], down'[c], handle'[c], stream[c]) BY <1>6, <2>1 DEF Accounted
  <2>3. ch'[c] = ch[c] /\ up'[c] = up[c] /\ stream'[c] = stream[c] BY <1>2
  <2>4. Accounted(c, ch'[c], up'[c], down'[c], handle'[c], stream'[c]) BY <2>2, <2>3
  <2> QED BY <2>4 DEF Accounted, Flow, Told, Consecutive
<1> QED BY <1>8, <1>9, <1>10 DEF ChannelInv

LEMMA ChannelStarts == ChannelInit => ChannelInv
<1> SUFFICES ASSUME ChannelInit PROVE ChannelInv OBVIOUS
<1> DEFINE k == [alive |-> FALSE, queue |-> << >>, next |-> 1, emitted |-> 0, dropped |-> 0,
                 sent |-> 0, acked |-> 0, timer |-> FALSE, draining |-> FALSE]
           h == [ready |-> FALSE, exited |-> FALSE, stopping |-> FALSE, waiting |-> FALSE]
           s == [received |-> << >>, lastSeq |-> 0, dropped |-> 0, anomalies |-> FALSE, fin |-> << >>, crashed |-> FALSE]
<1>1. k \in ChannelType /\ h \in HandleType BY DEF ChannelType, HandleType
<1>2. s \in StreamType BY DEF StreamType
<1>3. << >> \in Seq(UpType) /\ << >> \in Seq(DownType) OBVIOUS
<1>4. run \in RunType /\ run.verdict # "VALID" BY DEF ChannelInit, RunType
<1>5. ChannelTypes
  <2>1. ch = [c \in Names |-> k] /\ handle = [c \in Names |-> h] /\ stream = [c \in Names |-> s]
        /\ up = [c \in Names |-> << >>] /\ down = [c \in Names |-> << >>]
    BY DEF ChannelInit
  <2> HIDE DEF k, h, s
  <2> QED BY <1>1, <1>2, <1>3, <1>4, <2>1 DEF ChannelTypes
<1>6. ASSUME NEW c \in Names PROVE Accounted(c, k, << >>, << >>, h, s)
  <2>1. /\ k.queue = << >> /\ k.next = 1 /\ k.emitted = 0 /\ k.dropped = 0 /\ k.sent = 0 /\ k.acked = 0
        /\ s.received = << >> /\ s.lastSeq = 0
    OBVIOUS
  <2> HIDE DEF k, h, s
  <2>2. OnPipe(<< >>) = {} /\ PipeDistinct(<< >>) BY NothingOnPipe
  <2>3. IsFiniteSet({}) /\ Cardinality({}) = 0 BY FS_EmptySet
  <2>4. Len(<< >>) = 0 /\ DOMAIN << >> = {} /\ Range(<< >>) = {} /\ Distinct(<< >>) BY DEF Range, Distinct
  <2>5. QueueCap[c] \in Nat /\ WindowCap[c] \in Nat BY ChannelAssumption
  <2>6. Flow(c, k, << >>, Len(s.received))
    <3>1. k.emitted = k.next - 1 /\ k.emitted = k.dropped + Len(k.queue) + k.sent BY <2>1, <2>4
    <3>2. IsFiniteSet(OnPipe(<< >>)) /\ k.sent = Cardinality(OnPipe(<< >>)) + Len(s.received)
      <4>1. Len(s.received) = 0 /\ k.sent = 0 BY <2>1, <2>4
      <4>2. IsFiniteSet(OnPipe(<< >>)) /\ Cardinality(OnPipe(<< >>)) = 0 BY <2>2, <2>3
      <4> QED BY <4>1, <4>2
    <3>3. Len(k.queue) <= QueueCap[c] /\ k.sent - k.acked <= WindowCap[c] /\ k.acked <= Len(s.received)
      BY <2>1, <2>4, <2>5
    <3>4. Distinct(k.queue) /\ OnPipe(<< >>) \union Range(k.queue) = {} BY <2>1, <2>2, <2>4
    <3> QED BY <2>2, <3>1, <3>2, <3>3, <3>4 DEF Flow
  <2>7. Told(<< >>, Len(s.received)) BY <2>4 DEF Told
  <2>8. Consecutive(s) BY <2>1, <2>4 DEF Consecutive
  <2> QED BY <2>6, <2>7, <2>8 DEF Accounted
<1>7. ASSUME NEW c \in Names PROVE Accounted(c, ch[c], up[c], down[c], handle[c], stream[c])
  <2>1. ch[c] = k /\ up[c] = << >> /\ down[c] = << >> /\ handle[c] = h /\ stream[c] = s BY DEF ChannelInit
  <2> HIDE DEF k, h, s
  <2> QED BY <1>6, <2>1
<1>8. EarnedVerdict BY <1>4 DEF EarnedVerdict
<1> QED BY <1>5, <1>7, <1>8 DEF ChannelInv

LEMMA ChannelStep == ChannelInv /\ [ChannelNext]_channelVars => ChannelInv'
<1> SUFFICES ASSUME ChannelInv, [ChannelNext]_channelVars PROVE ChannelInv' OBVIOUS
<1>1. CASE UNCHANGED channelVars
  <2>1. UNCHANGED <<ch, up, down, handle, stream>> /\ run' = run BY <1>1 DEF channelVars
  <2>2. run \in RunType /\ EarnedVerdict BY DEF ChannelInv, ChannelTypes
  <2> QED BY <2>1, <2>2, RunOnly DEF EarnedVerdict
<1>2. CASE run.pc # "judged" /\ \E c \in Names : ChildStep(c) \/ HarnessStep(c) \/ ChildReady(c) \/ KillTimer(c)
  <2>1. PICK c \in Names : ChildStep(c) \/ HarnessStep(c) \/ ChildReady(c) \/ KillTimer(c) BY <1>2
  <2>2. CASE Emit(c) BY <1>2, <2>2, EmitStep
  <2>3. CASE FlushTimer(c) BY <1>2, <2>3, TimerStep
  <2>4. CASE ReceiveAck(c) BY <1>2, <2>4, AckStep
  <2>5. CASE ReceiveFin(c) BY <1>2, <2>5, FinStep
  <2>6. CASE DrainTimeout(c) BY <1>2, <2>6, DrainStep
  <2>7. CASE ReceiveStop(c) \/ KillTimer(c) \/ Crash(c) BY <1>2, <2>7, ChildEndStep
  <2>8. CASE HarnessReceivesFrame(c) BY <1>2, <2>8, FrameStep
  <2>9. CASE HarnessReceivesFin(c) BY <1>2, <2>9, FinReadStep
  <2>10. CASE ObserveExit(c) BY <1>2, <2>10, ExitStep
  <2>11. CASE ChildReady(c) BY <1>2, <2>11, ReadyStep
  <2> QED BY <2>1, <2>2, <2>3, <2>4, <2>5, <2>6, <2>7, <2>8, <2>9, <2>10, <2>11 DEF ChildStep, HarnessStep
<1>3. CASE run.pc # "judged" /\ RunStep
  <2>1. CASE RunThrows \/ PhasesEnd \/ FinReturns \/ Judge BY <1>3, <2>1, RunnerStep
  <2>2. CASE AskFin \/ FinTimeout BY <1>3, <2>2, WaitStep
  <2>3. CASE StopAll BY <1>3, <2>3, StopStep
  <2> QED BY <1>3, <2>1, <2>2, <2>3 DEF RunStep
<1> QED BY <1>1, <1>2, <1>3 DEF ChannelNext

\* The invariant is what the property needs.
LEMMA StreamsKept == ChannelInv => StreamsAreWhole
<1> SUFFICES ASSUME ChannelInv PROVE StreamsAreWhole OBVIOUS
<1>1. ValidIsComplete
  <2> SUFFICES ASSUME run.verdict = "VALID", NEW c \in Names
               PROVE  /\ stream[c].fin # << >>
                      /\ stream[c].received = [i \in 1..stream[c].fin.channel.emitted |-> i]
    BY DEF ValidIsComplete
  <2> DEFINE s == stream[c]
  <2>1. s \in StreamType /\ Consecutive(s) /\ Len(s.received) \in Nat BY AsItIs DEF Accounted
  <2>2. StreamIsClean(s) BY DEF ChannelInv, EarnedVerdict
  <2> HIDE DEF s
  <2>3. s.fin # << >> /\ s.fin.channel.emitted = Len(s.received) + 0 /\ ~s.anomalies BY <2>2 DEF StreamIsClean
  <2>4. s.fin.channel.emitted = Len(s.received) BY <2>1, <2>3
  <2>5. s.received \in Seq(Nat) /\ \A i \in 1..Len(s.received) : s.received[i] = i BY <2>1, <2>3 DEF StreamType, Consecutive
  <2>6. s.received = [i \in 1..Len(s.received) |-> i] BY <2>5
  <2> QED BY <2>3, <2>4, <2>6 DEF s
<1>2. EventsAreConserved
  <2> SUFFICES ASSUME NEW c \in Names, ch[c].alive
               PROVE  /\ ch[c].emitted = ch[c].next - 1
                      /\ ch[c].emitted = ch[c].dropped + Len(ch[c].queue) + ch[c].sent
                      /\ ch[c].sent = OnTheWay(c) + Len(stream[c].received)
                      /\ Len(ch[c].queue) <= QueueCap[c] /\ ch[c].sent - ch[c].acked <= WindowCap[c]
                      /\ ch[c].acked <= Len(stream[c].received)
    BY DEF EventsAreConserved
  <2>1. Flow(c, ch[c], up[c], Len(stream[c].received)) /\ up[c] \in Seq(UpType) BY AliveFlow, AsItIs
  <2>2. OnTheWay(c) = Cardinality(OnPipe(up[c])) BY <2>1, PlacesCounted DEF OnTheWay, Flow
  <2> QED BY <2>1, <2>2 DEF Flow
<1> QED BY <1>1, <1>2 DEF StreamsAreWhole

\* The inductive invariant of the channels: of a child that has not started or still lives, every number
\* it gave is dropped and counted, waits, is on the pipe or was received, none is at two places, and no
\* acknowledgement tells of more than was received; a ledger without an anomaly is the first numbers in
\* order, however frames, acknowledgements, timeouts and crashes fall (BoundedEventChannel, ingestFrame()).
THEOREM ChannelInvariance == ChannelSpec => []ChannelInv
<1>1. ChannelInit => ChannelInv BY ChannelStarts
<1>2. ChannelInv /\ [ChannelNext]_channelVars => ChannelInv' BY ChannelStep
<1> QED BY <1>1, <1>2, PTL DEF ChannelSpec

\* Nothing a child emitted is lost without being counted: while it lives its events are dropped and
\* counted, waiting, on the pipe or in the ledger, within the two caps, and a run is judged valid only
\* when the ledger holds every event of every stream once and in order (collector.ts, finalize()).
THEOREM StreamsStayWhole == ChannelSpec => []StreamsAreWhole
<1>1. ChannelInv => StreamsAreWhole BY StreamsKept
<1> QED BY <1>1, ChannelInvariance, PTL

-----------------------------------------------------------------------------
(* The ledger of a run                                                     *)

\* A request of which only finitely many events are kept.
Finite(q) == \A s \in {"plane", "boundary", "app"} : IsFiniteSet(DOMAIN q[s])
FiniteLedger(R) == IsFiniteSet(R) /\ \A q \in R : Finite(q)

\* A stream saw a kind exactly when one of its events has it.
LEMMA SawEvent ==
  ASSUME NEW e, NEW kind
  PROVE  Saw(e, kind) <=> \E i \in DOMAIN e : e[i].k = kind
BY DEF Saw, KindsOf, Range

LEMMA NeverSaw ==
  ASSUME NEW e, IsFiniteSet(DOMAIN e), NEW kinds, Times(e, kinds) = 0, NEW kind \in kinds
  PROVE  ~Saw(e, kind)
<1> DEFINE T == {i \in DOMAIN e : e[i].k \in kinds}
<1>1. IsFiniteSet(T) BY FS_Subset
<1>2. T = {} BY <1>1, FS_EmptySet DEF Times
<1> QED BY <1>2, SawEvent

\* The events of a kind are none exactly when no request saw it.
LEMMA RecordedFinite ==
  ASSUME NEW R, FiniteLedger(R), NEW s \in {"plane", "boundary", "app"}, NEW kind
  PROVE  IsFiniteSet(Recorded(R, s, kind))
<1> DEFINE one(q) == {q} \X {i \in DOMAIN q[s] : q[s][i].k = kind}
<1>1. ASSUME NEW q \in R PROVE IsFiniteSet(one(q))
  <2>1. IsFiniteSet(DOMAIN q[s]) BY DEF FiniteLedger, Finite
  <2>2. IsFiniteSet({i \in DOMAIN q[s] : q[s][i].k = kind}) BY <2>1, FS_Subset
  <2>3. IsFiniteSet({q}) BY FS_Singleton
  <2> QED BY <2>2, <2>3, FS_Product
<1>2. IsFiniteSet({one(q) : q \in R})
  <2> DEFINE T == {one(q) : q \in R}
             f == [q \in R |-> one(q)]
  <2>1. f \in Surjection(R, T) BY DEF Surjection
  <2> QED BY <2>1, FS_Surjection DEF FiniteLedger
<1>3. IsFiniteSet(UNION {one(q) : q \in R}) BY <1>1, <1>2, FS_UNION
<1> QED BY <1>3 DEF Recorded

LEMMA NoEvents ==
  ASSUME NEW R, FiniteLedger(R), NEW s \in {"plane", "boundary", "app"}, NEW kind, Events(R, s, kind) = 0
  PROVE  \A q \in R : ~Saw(q[s], kind)
<1>1. Recorded(R, s, kind) = {} BY RecordedFinite, FS_EmptySet DEF Events
<1> SUFFICES ASSUME NEW q \in R, NEW i \in DOMAIN q[s], q[s][i].k = kind PROVE FALSE BY SawEvent
<1>2. <<q, i>> \in Recorded(R, s, kind) BY DEF Recorded
<1> QED BY <1>1, <1>2

LEMMA SomeEvents ==
  ASSUME NEW q, NEW s, NEW kind, Events({q}, s, kind) = 1
  PROVE  Saw(q[s], kind)
<1>1. Recorded({q}, s, kind) # {} BY FS_EmptySet DEF Events
<1> QED BY <1>1, SawEvent DEF Recorded

\* What a judged request may be whose work the app did, and what a mutation of it rests on.
LEMMA WorkWhere ==
  ASSUME NEW q, Finite(q), NEW with \in BOOLEAN, ~Anomalous(q, with),
         NEW kind \in {"APP_EXECUTED", "APP_MUTATED"}, Saw(q.app, kind)
  PROVE  /\ q.lane \in Lanes /\ q.lane \notin {"control", "pre_ingress"} /\ q.lane \notin RejectedLanes
         /\ validateOriginLineage(q, q.lane)
<1>1. IsFiniteSet(DOMAIN q.app) BY DEF Finite
<1>2. PICK i \in DOMAIN q.app : q.app[i].k = kind BY SawEvent
<1>3. q.lane \in Lanes
  <2> SUFFICES ASSUME q.lane \notin Lanes PROVE FALSE OBVIOUS
  <2>1. ~Unknown(q) BY DEF Anomalous
  <2>2. q.app[i] \in Range(q.app) BY DEF Range
  <2> QED BY <1>2, <2>1, <2>2 DEF Unknown
<1>4. validateOriginLineage(q, q.lane) BY <1>3 DEF Anomalous
<1>5. q.lane \notin {"control", "pre_ingress"}
  <2> SUFFICES ASSUME q.lane \in {"control", "pre_ingress"} PROVE FALSE OBVIOUS
  <2>1. q.lane \notin RejectedLanes BY DEF RejectedLanes
  <2>2. q.app = <<>> BY <1>4, <2>1 DEF validateOriginLineage
  <2> QED BY <1>2, <2>2
<1>6. q.lane \notin RejectedLanes
  <2> SUFFICES ASSUME q.lane \in RejectedLanes PROVE FALSE OBVIOUS
  <2>1. OnlyRefused(q, q.lane) BY <1>4, <1>5 DEF validateOriginLineage
  <2>2. Times(q.app, {"APP_ADMITTED", "APP_EXECUTED", "APP_COMPLETED", "APP_MUTATED"}) = 0 BY <2>1 DEF OnlyRefused
  <2> QED BY <1>1, <2>2, NeverSaw
<1> QED BY <1>3, <1>4, <1>5, <1>6

LEMMA ExecutedWhere ==
  ASSUME NEW q, Finite(q), NEW with \in BOOLEAN, ~Anomalous(q, with), Saw(q.app, "APP_EXECUTED")
  PROVE  (q.lane = "protected" /\ LedgerLineageComplete(q)) \/ q.lane \in PositiveControls
<1>1. /\ q.lane \in Lanes /\ q.lane \notin {"control", "pre_ingress"} /\ q.lane \notin RejectedLanes
      /\ validateOriginLineage(q, q.lane)
  BY WorkWhere
<1>2. q.lane = "protected" \/ q.lane \in PositiveControls BY <1>1 DEF Lanes
<1>3. q.lane = "protected" => LedgerLineageComplete(q)
  <2> SUFFICES ASSUME q.lane = "protected" PROVE LedgerLineageComplete(q) OBVIOUS
  <2>1. Saw(q.app, "APP_ADMITTED") /\ Lineage(q, q.lane) BY <1>1 DEF validateOriginLineage
  <2> QED BY <2>1 DEF Lineage
<1> QED BY <1>2, <1>3

LEMMA MutatedExecuted ==
  ASSUME NEW q, Finite(q), NEW with \in BOOLEAN, ~Anomalous(q, with), Saw(q.app, "APP_MUTATED")
  PROVE  Saw(q.app, "APP_EXECUTED")
<1>1. /\ q.lane \in Lanes /\ q.lane \notin {"control", "pre_ingress"} /\ q.lane \notin RejectedLanes
      /\ validateOriginLineage(q, q.lane)
  BY WorkWhere
<1> QED BY <1>1 DEF validateOriginLineage

-----------------------------------------------------------------------------
(* A verdict earned                                                        *)

\* What the two verdicts have in common.
Reconciled == NoAnomalies /\ OriginIdentities /\ JourneysComplete

RunLedgerInv == l2 \in BOOLEAN /\ FiniteLedger(requests)

LEMMA SubsetFinite ==
  ASSUME FiniteLedger(requests), NEW R, R \subseteq requests
  PROVE  FiniteLedger(R)
BY FS_Subset DEF FiniteLedger

\* The positive controls mutated nothing: every mutation is one of a protected request whose chain is complete.
LEMMA MutationsCorrelated ==
  ASSUME RunLedgerInv, Reconciled, NEW q \in requests, Saw(q.app, "APP_MUTATED")
  PROVE  q \in LedgerCorrelated
<1>1. Finite(q) /\ ~Anomalous(q, l2) BY DEF RunLedgerInv, FiniteLedger, Reconciled, NoAnomalies
<1>2. Saw(q.app, "APP_EXECUTED") BY <1>1, MutatedExecuted DEF RunLedgerInv
<1>3. (q.lane = "protected" /\ LedgerLineageComplete(q)) \/ q.lane \in PositiveControls
  BY <1>1, <1>2, ExecutedWhere DEF RunLedgerInv
<1>4. q.lane \notin PositiveControls
  <2> SUFFICES ASSUME q.lane \in PositiveControls PROVE FALSE OBVIOUS
  <2>1. Mutations(On(PositiveControls)) = 0 BY DEF Reconciled, OriginIdentities, DirectIdentities
  <2>2. On(PositiveControls) \subseteq requests BY DEF On, Registered
  <2>3. FiniteLedger(On(PositiveControls)) BY <2>2, SubsetFinite DEF RunLedgerInv
  <2>4. q \in On(PositiveControls) BY DEF On, Registered, Lanes
  <2> QED BY <2>1, <2>3, <2>4, NoEvents DEF Mutations
<1>5. q \in Protected BY <1>3, <1>4 DEF Protected, On, Registered, Lanes
<1> QED BY <1>3, <1>4, <1>5 DEF LedgerCorrelated

LEMMA OnlyEntitledWork ==
  ASSUME RunLedgerInv, Reconciled, NEW q \in requests, Saw(q.app, "APP_EXECUTED")
  PROVE  \/ q.lane = "protected" /\ LedgerLineageComplete(q)
         \/ q.lane \in PositiveControls /\ ~Saw(q.app, "APP_MUTATED")
<1>1. Finite(q) /\ ~Anomalous(q, l2) BY DEF RunLedgerInv, FiniteLedger, Reconciled, NoAnomalies
<1>2. (q.lane = "protected" /\ LedgerLineageComplete(q)) \/ q.lane \in PositiveControls
  BY <1>1, ExecutedWhere DEF RunLedgerInv
<1>3. Saw(q.app, "APP_MUTATED") => q.lane = "protected"
  BY MutationsCorrelated DEF LedgerCorrelated, Protected, On
<1> QED BY <1>2, <1>3 DEF PositiveControls

LEMMA JourneysMutateOnce ==
  ASSUME RunLedgerInv, Reconciled
  PROVE  /\ \A q \in Journeys("protected") : SawRedirect(q) /\ Mutations({q}) = 1
         /\ \A q \in Journeys("control") : SawRedirect(q)
<1>1. \A lane \in {"protected", "control"} : \A q \in Journeys(lane) : SawRedirect(q)
  BY DEF Reconciled, JourneysComplete
<1>2. \A q \in Journeys("protected") : Mutations({q}) = 1
  BY <1>1 DEF Reconciled, OriginIdentities, MutationsAgree, SawRedirect
<1> QED BY <1>1, <1>2

\* With L2: as many mutations as clients that were told of one, on a journey or on a fixture.
LEMMA AsManyAsTold ==
  ASSUME RunLedgerInv, Reconciled, MutationReconciled
  PROVE  Mutations(requests) = Cardinality({q \in Protected : SawRedirect(q)})
<1> DEFINE hostile == {q \in Protected : q.journey = 0 /\ SawRedirect(q)}
           told == {q \in Protected : SawRedirect(q)}
<1>1. IsFiniteSet(Protected)
  <2>1. Protected \subseteq requests BY DEF Protected, On, Registered
  <2> QED BY <2>1, FS_Subset DEF RunLedgerInv, FiniteLedger
<1>2. ClientObserved = {q \in Protected : q.journey # 0 /\ SawRedirect(q)} BY DEF ClientObserved, Journeys, Protected
<1>3. IsFiniteSet(hostile) /\ IsFiniteSet(ClientObserved)
  <2>1. hostile \subseteq Protected /\ ClientObserved \subseteq Protected BY <1>2
  <2> QED BY <1>1, <2>1, FS_Subset
<1>4. told = ClientObserved \union hostile /\ ClientObserved \cap hostile = {} BY <1>2
<1>5. Cardinality(told) = Cardinality(ClientObserved) + Cardinality(hostile)
  <2> HIDE DEF told, hostile
  <2>1. Cardinality(told) = Cardinality(ClientObserved) + Cardinality(hostile) - Cardinality({})
    BY <1>3, <1>4, FS_Union
  <2>2. Cardinality(ClientObserved) \in Nat /\ Cardinality(hostile) \in Nat BY <1>3, FS_CardinalityType
  <2> QED BY <2>1, <2>2, FS_EmptySet
<1>6. Cardinality(ClientObserved) + Cardinality(hostile) = Cardinality(LedgerCorrelated) BY DEF MutationReconciled
<1>7. Cardinality(LedgerCorrelated) = Mutations(requests) BY DEF Reconciled, OriginIdentities, MutationsAgree
<1> QED BY <1>5, <1>6, <1>7

\* Without L2: the clients of the journeys and the correlated requests are the same, so only journeys mutated.
LEMMA OnlyJourneysMutate ==
  ASSUME RunLedgerInv, Reconciled, Cardinality(ClientObserved) = Cardinality(LedgerCorrelated)
  PROVE  \A q \in requests : Saw(q.app, "APP_MUTATED") => q.journey # 0
<1>1. ClientObserved \subseteq LedgerCorrelated
  <2> SUFFICES ASSUME NEW q \in ClientObserved PROVE q \in LedgerCorrelated OBVIOUS
  <2>1. q \in Journeys("protected") BY DEF ClientObserved
  <2>2. Mutations({q}) = 1 BY <2>1, JourneysMutateOnce
  <2>3. Saw(q.app, "APP_MUTATED") BY <2>2, SomeEvents DEF Mutations
  <2>4. q \in requests BY <2>1 DEF Journeys, On, Registered
  <2> QED BY <2>3, <2>4, MutationsCorrelated
<1>2. IsFiniteSet(LedgerCorrelated)
  <2>1. LedgerCorrelated \subseteq requests BY DEF LedgerCorrelated, Protected, On, Registered
  <2> QED BY <2>1, FS_Subset DEF RunLedgerInv, FiniteLedger
<1>3. ClientObserved = LedgerCorrelated BY <1>1, <1>2, FS_Subset
<1> QED BY <1>3, MutationsCorrelated DEF ClientObserved, Journeys

LEMMA ValidIsEarned ==
  ASSUME RunLedgerInv, IF l2 THEN decideCollapseVerdict ELSE decideOriginVerdict
  PROVE  Earned
<1>1. Reconciled
  BY DEF Reconciled, decideCollapseVerdict, decideOriginVerdict, identityGates, continuityGates
<1>2. \A q \in Protected : terminalOutcomeL2(q.plane) # "unresolved"
  <2>1. CASE l2 BY <2>1 DEF decideCollapseVerdict, identityGates, LaneIdentities
  <2>2. CASE ~l2
    <3>1. PlaneIdentities BY <2>2 DEF decideOriginVerdict
    <3>2. {q \in Protected : terminalOutcomeL2(q.plane) # "unresolved"} = Protected BY <3>1 DEF PlaneIdentities
    <3> QED BY <3>2
  <2> QED BY <2>1, <2>2
<1>3. l2 => Mutations(requests) = Cardinality({q \in Protected : SawRedirect(q)})
  BY <1>1, AsManyAsTold DEF decideCollapseVerdict
<1>4. ~l2 => \A q \in requests : Saw(q.app, "APP_MUTATED") => q.journey # 0
  BY <1>1, OnlyJourneysMutate DEF decideOriginVerdict
<1>5. \A q \in requests : Saw(q.app, "APP_EXECUTED") =>
          \/ q.lane = "protected" /\ LedgerLineageComplete(q)
          \/ q.lane \in PositiveControls /\ ~Saw(q.app, "APP_MUTATED")
  BY <1>1, OnlyEntitledWork
<1>6. /\ \A q \in Journeys("protected") : SawRedirect(q) /\ Mutations({q}) = 1
      /\ \A q \in Journeys("control") : SawRedirect(q)
  BY <1>1, JourneysMutateOnce
<1> QED BY <1>2, <1>3, <1>4, <1>5, <1>6 DEF Earned

-----------------------------------------------------------------------------

LEMMA LedgerGrows ==
  ASSUME RunLedgerInv, NEW item \in Items(l2), Happen(item)
  PROVE  RunLedgerInv'
<1>1. FiniteLedger(item) BY LedgerAssumption DEF RunLedgerInv, FiniteLedger, Finite
<1>2. l2' = l2 /\ requests' = requests \union item BY DEF Happen, requests
<1>3. IsFiniteSet(requests \union item) BY <1>1, FS_Union DEF RunLedgerInv, FiniteLedger
<1>4. \A q \in requests \union item : Finite(q) BY <1>1 DEF RunLedgerInv, FiniteLedger
<1> QED BY <1>2, <1>3, <1>4 DEF RunLedgerInv, FiniteLedger

\* A verdict on a run, with L2 or without, says of the run what it claims to: the requests the app
\* served were entitled, all of them ended, and the mutations are those the clients were told of
\* (Collector.finalize(), decideOriginVerdict() and the gates of runArm()).
THEOREM ValidRunsAreEarned == LedgerSpec => []VerdictIsEarned
<1> DEFINE Inv == RunLedgerInv /\ VerdictIsEarned
<1>1. LedgerInit => Inv
  <2> SUFFICES ASSUME LedgerInit PROVE Inv OBVIOUS
  <2>1. requests = Canary(l2) BY DEF LedgerInit, requests
  <2>2. RunLedgerInv BY <2>1, LedgerAssumption DEF LedgerInit, RunLedgerInv, FiniteLedger, Finite
  <2>3. VerdictIsEarned BY DEF LedgerInit, VerdictIsEarned
  <2> QED BY <2>2, <2>3
<1>2. Inv /\ [LedgerNext]_ledgerVars => Inv'
  <2> SUFFICES ASSUME Inv, [LedgerNext]_ledgerVars PROVE Inv' OBVIOUS
  <2>1. ASSUME NEW item \in Items(l2), Happen(item) PROVE Inv'
    <3>1. verdict' = "none" BY <2>1 DEF Happen
    <3> QED BY <2>1, <3>1, LedgerGrows DEF VerdictIsEarned
  <2>2. CASE JudgeRun
    <3>1. UNCHANGED <<l2, others>> BY <2>2 DEF JudgeRun
    <3>2. RunLedgerInv' BY <3>1 DEF RunLedgerInv, requests
    <3>3. ASSUME verdict' = "valid" PROVE Earned'
      <4>1. IF l2 THEN decideCollapseVerdict ELSE decideOriginVerdict BY <2>2, <3>3 DEF JudgeRun
      <4>2. Earned BY <4>1, ValidIsEarned
      <4> QED BY <3>1, <4>2
            DEF Earned, requests, Registered, On, Protected, Journeys, Mutations
    <3> QED BY <3>2, <3>3 DEF VerdictIsEarned
  <2>3. CASE UNCHANGED ledgerVars
    BY <2>3 DEF ledgerVars, RunLedgerInv, VerdictIsEarned, Earned, requests, Registered, On, Protected, Journeys, Mutations
  <2> QED BY <2>1, <2>2, <2>3 DEF LedgerNext
<1>3. Inv => VerdictIsEarned OBVIOUS
<1> QED BY <1>1, <1>2, <1>3, PTL DEF LedgerSpec
=============================================================================
