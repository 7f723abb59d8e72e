------------------------ MODULE AttestedResultProofs ------------------------
(***************************************************************************)
(* Proofs about the lifecycle of the authority and about its signed        *)
(* results, for any commands, windows and capacities, any deployments and  *)
(* trust manifest, any number of calls and readers.  LifecycleInv is shown *)
(* for the authority alone first; calls and operator only add stuttering.  *)
(* The last part is about the provisioning of the key they are signed with.*)
(***************************************************************************)
EXTENDS AttestedResult, SignerProvisioning, FiniteSetTheorems, TLAPS

-----------------------------------------------------------------------------
(* Receipts.                                                               *)

\* A receipt has its number in the history, and every command in the history
\* has its receipt.
LEMMA ReceiptsByNumber ==
  ASSUME TimesInv, HistoryInv
  PROVE  /\ \A r \in receipts : /\ r.sequence \in 1 .. Len(mutations)
                                /\ r.digest = mutations[r.sequence]
         /\ \A i \in 1 .. Len(mutations) : \E r \in receipts : r.sequence = i /\ r.digest = mutations[i]
<1> DEFINE Numbered == {<<r.sequence, r.digest>> : r \in receipts}
           Listed   == {<<i, mutations[i]>> : i \in 1 .. Len(mutations)}
<1>1. Numbered = Listed
  BY DEF HistoryInv, ReceiptsAreTheHistory
<1>2. ASSUME NEW r \in receipts
      PROVE  r.sequence \in 1 .. Len(mutations) /\ r.digest = mutations[r.sequence]
  <2>1. <<r.sequence, r.digest>> \in Listed
    BY <1>1
  <2>2. PICK i \in 1 .. Len(mutations) : <<r.sequence, r.digest>> = <<i, mutations[i]>>
    BY <2>1
  <2> QED
    BY <2>2
<1>3. ASSUME NEW i \in 1 .. Len(mutations)
      PROVE  \E r \in receipts : r.sequence = i /\ r.digest = mutations[i]
  <2>1. <<i, mutations[i]>> \in Numbered
    BY <1>1
  <2> QED
    BY <2>1
<1> QED
  BY <1>2, <1>3

\* COALESCE(MAX(sequence),0) is the length of the history.
LEMMA LastSequenceIsLength ==
  ASSUME TimesInv, HistoryInv
  PROVE  LastSequence = Len(mutations)
<1> DEFINE n == Len(mutations)
           Numbers == {0} \union {r.sequence : r \in receipts}
<1>1. n \in Nat
  BY DEF TimesInv
<1>2. \A r \in receipts : r.sequence <= n /\ r.sequence \in Nat
  BY <1>1, ReceiptsByNumber
<1>3. n \in Numbers
  <2>1. CASE n = 0
    BY <2>1
  <2>2. CASE n # 0
    <3>1. n \in 1 .. n
      BY <1>1, <2>2
    <3>2. PICK r \in receipts : r.sequence = n
      BY <3>1, ReceiptsByNumber
    <3> QED
      BY <3>2
  <2> QED
    BY <2>1, <2>2
<1>4. \A s \in Numbers : (\A r \in receipts : r.sequence <= s) => s = n
  <2> SUFFICES ASSUME NEW s \in Numbers, \A r \in receipts : r.sequence <= s
               PROVE  s = n
    OBVIOUS
  <2>1. s \in Nat /\ s <= n
    BY <1>1, <1>2
  <2>2. n <= s
    <3>1. CASE n = 0
      BY <2>1, <3>1
    <3>2. CASE n # 0
      <4>1. n \in 1 .. n
        BY <1>1, <3>2
      <4>2. PICK r \in receipts : r.sequence = n
        BY <4>1, ReceiptsByNumber
      <4> QED
        BY <4>2
    <3> QED
      BY <3>1, <3>2
  <2> QED
    BY <1>1, <2>1, <2>2
<1>5. \E s \in Numbers : \A r \in receipts : r.sequence <= s
  BY <1>2, <1>3
<1>6. LastSequence \in Numbers /\ \A r \in receipts : r.sequence <= LastSequence
  BY <1>5 DEF LastSequence
<1> QED
  BY <1>4, <1>6

\* The receipt of a command that had none continues the history.
LEMMA InsertKeepsHistory ==
  ASSUME TimesInv, HistoryInv, NEW c \in Commands, ~HasReceipt(c), InsertReceipt(c),
         Cardinality(receipts) < Capacity, Within(clock, c.activates),
         c.op = "initialize" <=> mutations = <<>>
  PROVE  /\ HistoryInv' /\ mutations' \in Seq(Commands)
         /\ Len(mutations') = Len(mutations) + 1 /\ receipts \subseteq receipts'
         /\ mutations'[Len(mutations) + 1] = c
<1> DEFINE n == Len(mutations)
           new == [digest |-> c, sequence |-> n + 1, applied |-> clock]
<1>1. n \in Nat /\ LastSequence = n
  BY LastSequenceIsLength DEF TimesInv
<1>2. receipts' = receipts \union {new} /\ mutations' = Append(mutations, c)
  BY <1>1 DEF InsertReceipt
<1>3. /\ mutations' \in Seq(Commands) /\ Len(mutations') = n + 1
      /\ \A i \in 1 .. n : mutations'[i] = mutations[i]
      /\ mutations'[n + 1] = c
  BY <1>2 DEF TimesInv
<1>4. new \notin receipts
  BY DEF HasReceipt
<1>5. IsFiniteSet(receipts') /\ Cardinality(receipts') = n + 1
  BY <1>2, <1>4, FS_AddElement DEF HistoryInv
<1>6. receipts' \subseteq [digest : Commands, sequence : Nat \ {0}, applied : Nat]
  BY <1>1, <1>2 DEF HistoryInv, TimesInv
<1>7. \A i \in 1 .. n : mutations[i] # c
  BY ReceiptsByNumber DEF HasReceipt
<1>8. \A i, j \in 1 .. (n + 1) : mutations'[i] = mutations'[j] => i = j
  BY <1>1, <1>3, <1>7 DEF HistoryInv, ReceiptsAreTheHistory
<1>9. {<<r.sequence, r.digest>> : r \in receipts'} = {<<i, mutations'[i]>> : i \in 1 .. (n + 1)}
  <2>1. \A r \in receipts' : r.sequence \in 1 .. (n + 1) /\ r.digest = mutations'[r.sequence]
    BY <1>1, <1>2, <1>3, ReceiptsByNumber
  <2>2. \A i \in 1 .. (n + 1) : \E r \in receipts' : r.sequence = i /\ r.digest = mutations'[i]
    <3> SUFFICES ASSUME NEW i \in 1 .. (n + 1)
                 PROVE  \E r \in receipts' : r.sequence = i /\ r.digest = mutations'[i]
      OBVIOUS
    <3>1. CASE i = n + 1
      <4>1. new \in receipts' /\ new.sequence = i /\ new.digest = mutations'[i]
        BY <1>2, <1>3, <3>1
      <4> QED
        BY <4>1
    <3>2. CASE i \in 1 .. n
      <4>1. PICK r \in receipts : r.sequence = i /\ r.digest = mutations[i]
        BY <3>2, ReceiptsByNumber
      <4> QED
        BY <1>2, <1>3, <3>2, <4>1
    <3> QED
      BY <1>1, <3>1, <3>2
  <2> QED
    BY <2>1, <2>2
<1>10. \A r \in receipts' : Within(r.applied, r.digest.activates)
  BY <1>2 DEF HistoryInv
<1>11. \A i \in 1 .. (n + 1) : mutations'[i].op = "initialize" <=> i = 1
  <2>1. n = 0 <=> mutations = <<>>
    BY DEF TimesInv
  <2> QED
    BY <1>1, <1>3, <2>1 DEF HistoryInv
<1>12. n + 1 <= Capacity
  BY <1>1, LifecycleTimesAssumption DEF HistoryInv
<1> QED
  BY <1>2, <1>3, <1>5, <1>6, <1>8, <1>9, <1>10, <1>11, <1>12 DEF HistoryInv, ReceiptsAreTheHistory

-----------------------------------------------------------------------------
(* Releases.                                                               *)

\* The first release is current and serves from the authority's first time on.
LEMMA InitializeStep ==
  ASSUME LifecycleInv, NEW c \in Commands, Initialize(c)
  PROVE  LifecycleInv'
<1> USE DEF LifecycleInv
<1>1. /\ Eligible(c) /\ c.op = "initialize" /\ ~HasReceipt(c) /\ ~Initialized
      /\ Cardinality(receipts) < Capacity /\ InsertReceipt(c)
      /\ lastNow' = c.issued /\ releases' = releases \union {NewRelease(c)} /\ clock' = clock
  BY DEF Initialize, InitializeAccepted
<1>2. c.issued \in Nat /\ c.activates = c.issued
  BY <1>1, CommandsAssumption DEF Signable
<1>3. releases = {} /\ mutations = <<>>
  BY <1>1 DEF RowsInv, OneRow, TwoRows
<1>4. /\ HistoryInv' /\ mutations' \in Seq(Commands) /\ Len(mutations') = 1 /\ mutations'[1] = c
  <2>1. Within(clock, c.activates) /\ Len(mutations) = 0
    BY <1>1, <1>2, <1>3 DEF Eligible
  <2> QED
    BY <1>1, <1>3, <2>1, InsertKeepsHistory
<1>5. TimesInv'
  BY <1>1, <1>2, <1>4 DEF TimesInv
<1>6. OneRow'
  <2>1. releases' = {NewRelease(c)} /\ Initialized'
    BY <1>1, <1>2, <1>3 DEF Initialized, NoTime
  <2>2. IsRow(NewRelease(c))
    BY <1>2 DEF IsRow, NewRelease, NoTime
  <2>3. NewRelease(c).retired = NoTime /\ NewRelease(c).activated <= lastNow'
    BY <1>1, <1>2 DEF NewRelease
  <2> QED
    BY <1>4, <2>1, <2>2, <2>3 DEF OneRow, IsRow, NewRelease
<1> QED
  BY <1>4, <1>5, <1>6 DEF RowsInv

\* The rotated release serves by now, and goes on until its successor does.
LEMMA RotateStep ==
  ASSUME LifecycleInv, NEW c \in Commands, Rotate(c)
  PROVE  LifecycleInv'
<1> USE LifecycleTimesAssumption DEF LifecycleInv
<1>1. PICK cur \in releases : /\ RotateAccepted(c, cur) /\ cur.key # c.key
                              /\ releases' = {[cur EXCEPT !.retired = c.retires], NewRelease(c)}
  BY DEF Rotate
<1>2. /\ Eligible(c) /\ InsertReceipt(c) /\ UNCHANGED <<clock, lastNow>>
      /\ c.op = "rotate-release" /\ ~HasReceipt(c) /\ Initialized /\ receipts # {}
      /\ Cardinality(receipts) < Capacity /\ cur.id # c.next /\ cur.retired = NoTime
      /\ lastNow <= c.activates
      /\ \A old \in releases \ {cur} : old.retired # NoTime /\ old.retired + Retention <= c.activates
  BY <1>1 DEF Rotate, RotateAccepted
<1>3. /\ c.activates \in Nat /\ c.retires \in Nat /\ c.retires - c.activates \in 1 .. Overlap
      /\ c.activates - clock <= Window /\ clock \in Nat /\ lastNow \in Nat
  BY <1>2, CommandsAssumption DEF Signable, Eligible, Within, TimesInv, Initialized
<1>4. Len(mutations) # 0 /\ Len(mutations) \in Nat
  BY <1>2, ReceiptsByNumber DEF TimesInv
<1>5. /\ HistoryInv' /\ mutations' \in Seq(Commands) /\ Len(mutations') = Len(mutations) + 1
  <2>1. Within(clock, c.activates) /\ mutations # <<>> /\ c.op # "initialize"
    BY <1>2, <1>4 DEF Eligible
  <2> QED
    BY <1>2, <2>1, InsertKeepsHistory
<1>6. TimesInv'
  BY <1>2, <1>5 DEF TimesInv
<1>7. IsRow(cur) /\ cur.activated <= c.activates /\ (cur.activated <= clock \/ cur.activated <= lastNow)
  <2>1. CASE OneRow
    BY <1>2, <1>3, <2>1 DEF OneRow, IsRow
  <2>2. CASE TwoRows
    <3>1. PICK old \in releases, k \in releases :
              /\ releases = {old, k} /\ IsRow(old) /\ IsRow(k)
              /\ old.id # k.id /\ old.retired # NoTime
              /\ old.retired - k.activated \in 1 .. Overlap
      BY <2>2 DEF TwoRows
    <3>2. k = cur /\ old \in releases \ {cur}
      BY <1>2, <3>1
    <3>3. old.retired + Retention <= c.activates
      BY <1>2, <3>2
    <3>4. old.retired \in Nat /\ cur.activated \in Nat /\ cur.activated < old.retired
      BY <3>1, <3>2 DEF IsRow
    <3> QED
      BY <1>3, <3>1, <3>2, <3>3, <3>4
  <2> QED
    BY <1>2, <2>1, <2>2 DEF RowsInv
<1>8. TwoRows'
  <2> DEFINE old == [id |-> cur.id, key |-> cur.key, activated |-> cur.activated, retired |-> c.retires]
             new == NewRelease(c)
  <2>1. [cur EXCEPT !.retired = c.retires] = old
    BY <1>7 DEF IsRow
  <2>2. releases' = {old, new} /\ old \in releases' /\ new \in releases'
    BY <1>1, <2>1
  <2>3. /\ old.id # new.id /\ old.key # new.key
        /\ old.retired # NoTime /\ new.retired = NoTime
    BY <1>1, <1>2, <1>3 DEF NewRelease, NoTime
  <2>4. /\ old.activated <= new.activated
        /\ old.activated <= clock' \/ old.activated <= lastNow'
        /\ old.retired - new.activated \in 1 .. Overlap
    BY <1>2, <1>3, <1>7 DEF NewRelease
  <2>5. IsRow(old) /\ IsRow(new)
    BY <1>3, <1>7 DEF IsRow, NewRelease
  <2>6. Initialized' /\ Len(mutations') >= 2
    BY <1>2, <1>4, <1>5 DEF Initialized
  <2> HIDE DEF old, new
  <2> QED
    BY <2>2, <2>3, <2>4, <2>5, <2>6 DEF TwoRows, IsRow
<1> QED
  BY <1>5, <1>6, <1>8 DEF RowsInv

\* Time only moves what has been activated further into the past.
LEMMA TimeStep ==
  ASSUME LifecycleInv, Admit \/ Tick
  PROVE  LifecycleInv'
<1> USE DEF LifecycleInv
<1>1. /\ UNCHANGED <<releases, receipts, mutations>>
      /\ clock' \in Nat /\ clock <= clock'
      /\ lastNow' = lastNow \/ (Initialized /\ lastNow <= lastNow' /\ lastNow' = clock')
      /\ Initialized' <=> Initialized
  BY DEF Admit, Tick, TimesInv, Initialized, NoTime
<1>2. TimesInv'
  BY <1>1 DEF TimesInv
<1>3. HistoryInv'
  BY <1>1 DEF HistoryInv, ReceiptsAreTheHistory
<1>4. CASE ~Initialized
  BY <1>1, <1>2, <1>3, <1>4 DEF RowsInv, OneRow, TwoRows
<1>5. CASE OneRow
  <2>1. PICK cur \in releases :
          /\ releases = {cur} /\ IsRow(cur) /\ cur.retired = NoTime /\ cur.activated <= lastNow
          /\ Len(mutations) = 1 => cur = NewRelease(mutations[1])
    BY <1>5 DEF OneRow
  <2>2. cur.activated <= lastNow'
    BY <1>1, <1>5, <2>1 DEF TimesInv, IsRow, Initialized, OneRow
  <2> QED
    BY <1>1, <1>2, <1>3, <1>5, <2>1, <2>2 DEF OneRow, RowsInv
<1>6. CASE TwoRows
  <2>1. PICK old \in releases, cur \in releases :
          /\ releases = {old, cur} /\ IsRow(old) /\ IsRow(cur)
          /\ old.id # cur.id /\ old.key # cur.key
          /\ old.retired # NoTime /\ cur.retired = NoTime
          /\ old.activated <= cur.activated
          /\ old.activated <= clock \/ old.activated <= lastNow
          /\ old.retired - cur.activated \in 1 .. Overlap
    BY <1>6 DEF TwoRows
  <2>2. old.activated <= clock' \/ old.activated <= lastNow'
    BY <1>1, <1>6, <2>1 DEF TimesInv, IsRow, Initialized, TwoRows
  <2> QED
    BY <1>1, <1>2, <1>3, <1>6, <2>1, <2>2 DEF TwoRows, RowsInv
<1> QED
  BY <1>4, <1>5, <1>6 DEF RowsInv

LEMMA LifecycleNext ==
  ASSUME LifecycleInv, [Next]_vars
  PROVE  LifecycleInv'
<1>1. CASE UNCHANGED vars
  BY <1>1 DEF vars, LifecycleInv, TimesInv, HistoryInv, ReceiptsAreTheHistory, RowsInv, OneRow,
              TwoRows, Initialized
<1>2. CASE Next
  BY <1>2, InitializeStep, RotateStep, TimeStep DEF Next
<1> QED
  BY <1>1, <1>2

\* The history is recorded in full, one release is current, and one is active.
LEMMA LifecycleInvImplies ==
  ASSUME LifecycleInv
  PROVE  RotationIsSafe
<1> USE DEF LifecycleInv
<1>1. ReceiptsAreTheHistory
  BY DEF HistoryInv
<1>2. OneCurrentRelease
  BY DEF RowsInv, OneRow, TwoRows, OneCurrentRelease
<1>3. AlwaysServed
  <2> SUFFICES ASSUME Initialized, clock >= lastNow
               PROVE  \E r \in releases : ActiveAt(r, clock)
    BY DEF AlwaysServed
  <2>1. clock \in Nat /\ lastNow \in Nat
    BY DEF TimesInv, Initialized
  <2>2. CASE OneRow
    BY <2>1, <2>2 DEF OneRow, IsRow, ActiveAt
  <2>3. CASE TwoRows
    BY <2>1, <2>3 DEF TwoRows, IsRow, ActiveAt, NoTime
  <2> QED
    BY <2>2, <2>3 DEF RowsInv
<1> QED
  BY <1>1, <1>2, <1>3 DEF RotationIsSafe

LEMMA EmptyLifecycle == Init => LifecycleInv
<1> SUFFICES ASSUME Init PROVE LifecycleInv
  OBVIOUS
<1>1. mutations = <<>> /\ Len(mutations) = 0 /\ receipts = {} /\ releases = {} /\ ~Initialized /\ clock = 0
  BY DEF Init, Initialized
<1>2. TimesInv
  BY <1>1 DEF TimesInv, Init
<1>3. HistoryInv
  BY <1>1, FS_EmptySet, LifecycleTimesAssumption DEF HistoryInv, ReceiptsAreTheHistory
<1> QED
  BY <1>1, <1>2, <1>3 DEF LifecycleInv, RowsInv

\* However commands compete and are presented again: the receipts are the
\* history of the releases, exactly one of which is current, and from the time
\* the authority answers at one of them is always active.
THEOREM RotationStaysSafe == Spec => []RotationIsSafe
<1>1. LifecycleInv /\ [Next]_vars => LifecycleInv'
  BY LifecycleNext
<1>2. LifecycleInv => RotationIsSafe
  BY LifecycleInvImplies
<1> QED
  BY EmptyLifecycle, <1>1, <1>2, PTL DEF Spec

-----------------------------------------------------------------------------
(* Calls, stored objects and what the operator asked.                       *)

\* Receipts only become more, and a nonce that was drawn stays as it is.
Grows ==
  /\ receipts \subseteq receipts' /\ env' = env
  /\ \A n \in Nonces : asked[n] # None => asked'[n] = asked[n]

\* A statement that was true when it was made stays true.
LEMMA StatementsLast ==
  ASSUME NEW st, StaysTrue(st), Grows
  PROVE  StaysTrue(st)'
BY DEF StaysTrue, Grows

LEMMA BytesLast ==
  ASSUME NEW bytes, BytesAreTrue(bytes), Grows
  PROVE  BytesAreTrue(bytes)'
BY StatementsLast DEF BytesAreTrue

LEMMA CallsLast ==
  ASSUME NEW call, CallIsTrue(call), Grows
  PROVE  CallIsTrue(call)'
<1>1. call.pc = "ready" /\ call.kind = "reconcile" => asked'[call.nonce] # None
  BY DEF CallIsTrue, Grows
<1>2. call.pc = "sign" => StaysTrue(call.statement)'
  BY StatementsLast DEF CallIsTrue
<1>3. call.pc = "answer" => BytesAreTrue(call.bytes)'
  BY BytesLast DEF CallIsTrue
<1>4. env' = env
  BY DEF Grows
<1> QED
  BY <1>1, <1>2, <1>3, <1>4 DEF CallIsTrue

\* A step that moves one call on, and stores and asks nothing.
LEMMA CallStep ==
  ASSUME AttestedInv, NEW s \in Slots, NEW call, calls' = [calls EXCEPT ![s] = call],
         CallIsTrue(call)', Grows, UNCHANGED <<request, objects, asked>>,
         LifecycleInv', env = "staging" => Len(mutations') <= 1
  PROVE  AttestedInv'
<1> USE DEF AttestedInv
<1>1. CallInv'
  BY CallsLast DEF CallInv
<1>2. ObjectInv'
  BY BytesLast DEF ObjectInv
<1>3. AskedInv'
  BY DEF AskedInv, Grows
<1> QED
  BY <1>1, <1>2, <1>3 DEF Grows

\* As long as the authority's tables stay as they are, so does LifecycleInv.
LEMMA TablesUnchanged ==
  ASSUME AttestedInv, UNCHANGED <<vars, env>>
  PROVE  LifecycleInv' /\ (env = "staging" => Len(mutations') <= 1) /\ receipts \subseteq receipts'
BY LifecycleNext DEF AttestedInv, vars

\* A diagnostic says nothing that could be false.
LEMMA DiagnosticIsTrue == BytesAreTrue(Diagnostic) /\ BytesAreTrue(Diagnostic)'
BY DEF BytesAreTrue, Diagnostic

LEMMA BeginStep ==
  ASSUME AttestedInv, NEW s \in Slots, NEW kind, NEW c \in Commands, NEW n, Begin(s, kind, c, n),
         kind = "reconcile" => n \in Nonces /\ asked[n] # None
  PROVE  AttestedInv'
<1> DEFINE away == [pc |-> "answer", kind |-> kind, cmd |-> c, nonce |-> n, bytes |-> Diagnostic]
           ready == [pc |-> "ready", kind |-> kind, cmd |-> c, nonce |-> n]
<1>1. UNCHANGED <<vars, env, config, request, objects, asked>>
  BY DEF Begin
<1>2. Grows
  BY <1>1 DEF Grows, vars
<1>3. CallIsTrue(away)'
  BY DiagnosticIsTrue DEF CallIsTrue
<1>4. CASE TurnedAway(kind, c)
  <2>1. calls' = [calls EXCEPT ![s] = away]
    BY <1>4 DEF Begin
  <2> QED
    BY <1>1, <1>2, <1>3, <2>1, CallStep, TablesUnchanged
<1>5. CASE ~TurnedAway(kind, c)
  <2>1. calls' = [calls EXCEPT ![s] = ready]
    BY <1>5 DEF Begin
  <2>2. kind = "mutate" /\ env = "staging" => c.op # "rotate-release"
    BY <1>5 DEF TurnedAway, StagingTurnsAway
  <2>3. CallIsTrue(ready)'
    BY <1>1, <2>2 DEF CallIsTrue
  <2> QED
    BY <1>1, <1>2, <2>1, <2>3, CallStep, TablesUnchanged
<1> QED
  BY <1>4, <1>5

\* The call is answered with bytes that are true.
LEMMA AnswerStep ==
  ASSUME AttestedInv, NEW s \in Slots, NEW bytes, Answer(s, bytes), BytesAreTrue(bytes)',
         UNCHANGED <<vars, env, config, made, request, objects, asked>>
  PROVE  AttestedInv'
<1> DEFINE call == [pc |-> "answer", kind |-> calls[s].kind, cmd |-> calls[s].cmd,
                    nonce |-> calls[s].nonce, bytes |-> bytes]
<1>1. calls' = [calls EXCEPT ![s] = call]
  BY DEF Answer
<1>2. CallIsTrue(call)'
  BY DEF CallIsTrue
<1>3. Grows
  BY DEF Grows, vars
<1> QED
  BY <1>1, <1>2, <1>3, CallStep, TablesUnchanged

\* A true statement is on its way to the signature.
LEMMA ToSignStep ==
  ASSUME AttestedInv, NEW s \in Slots, NEW st, ToSign(s, st), StaysTrue(st)', Grows,
         UNCHANGED <<env, config, made, request, objects, asked>>,
         LifecycleInv', env = "staging" => Len(mutations') <= 1
  PROVE  AttestedInv'
<1> DEFINE call == [pc |-> "sign", kind |-> calls[s].kind, cmd |-> calls[s].cmd,
                    nonce |-> calls[s].nonce, statement |-> st]
<1>1. calls' = [calls EXCEPT ![s] = call]
  BY DEF ToSign
<1>2. CallIsTrue(call)'
  BY DEF CallIsTrue
<1> QED
  BY <1>1, <1>2, CallStep

\* A receipt that is already there is stated as it is.
LEMMA KnownReceiptStep ==
  ASSUME AttestedInv, NEW s \in Slots, HasReceipt(calls[s].cmd),
         ToSign(s, makeLifecycleStatement(ReceiptOf(calls[s].cmd), clock, config.own)),
         UNCHANGED <<vars, env, config, made, request, objects, asked>>
  PROVE  AttestedInv'
<1> DEFINE r == ReceiptOf(calls[s].cmd)
<1>1. r \in receipts
  BY DEF HasReceipt, ReceiptOf
<1>2. PICK st : st = makeLifecycleStatement(r, clock, config.own)
  OBVIOUS
<1>3. StaysTrue(st)
  BY <1>1, <1>2 DEF StaysTrue, makeLifecycleStatement
<1>4. Grows
  BY DEF Grows, vars
<1>5. ToSign(s, st)
  BY <1>2
<1> QED
  BY <1>3, <1>4, <1>5, StatementsLast, ToSignStep, TablesUnchanged

\* A command that is executed, or had its receipt, gets a statement of this receipt.
LEMMA MutateStep ==
  ASSUME AttestedInv, NEW s \in Slots, Mutate(s)
  PROVE  AttestedInv'
<1> DEFINE c == calls[s].cmd
           r == CHOOSE x \in receipts' : x.digest = c
<1>1. UNCHANGED <<env, config, made, request, objects, asked>> /\ env' = env
  BY DEF Mutate
<1>2. c \in Commands /\ (env = "staging" => c.op # "rotate-release")
  BY DEF Mutate, AttestedInv, CallInv, CallIsTrue
<1>3. CASE /\ Execute(c)
           /\ ToSign(s, makeLifecycleStatement(r, clock, config.own))
  <2>1. InsertReceipt(c)
    BY <1>3 DEF Execute, Initialize, Rotate
  <2>2. r \in receipts' /\ receipts \subseteq receipts'
    <3> DEFINE new == [digest |-> c, sequence |-> LastSequence + 1, applied |-> clock]
    <3>1. receipts' = receipts \union {new} /\ new.digest = c
      BY <2>1 DEF InsertReceipt
    <3>2. \E x \in receipts' : x.digest = c
      BY <3>1
    <3> QED
      BY <3>1, <3>2
  <2>3. PICK st : st = makeLifecycleStatement(r, clock, config.own)
    OBVIOUS
  <2>4. StaysTrue(st)'
    <3>1. st.kind = "lifecycle" /\ st.receipt = r /\ st.digest = r.digest
      BY <2>3 DEF makeLifecycleStatement
    <3> QED
      BY <2>2, <3>1 DEF StaysTrue
  <2>5. Grows
    BY <1>1, <2>2 DEF Grows
  <2>6. LifecycleInv'
    BY <1>2, <1>3, InitializeStep, RotateStep DEF Execute, AttestedInv
  <2>7. env = "staging" => Len(mutations') <= 1
    <3> SUFFICES ASSUME env = "staging" PROVE Len(mutations') <= 1
      OBVIOUS
    <3>1. Initialize(c)
      BY <1>2, <1>3 DEF Execute, Rotate, RotateAccepted
    <3>2. mutations = <<>>
      BY <3>1 DEF Initialize, InitializeAccepted, AttestedInv, LifecycleInv, RowsInv, OneRow, TwoRows
    <3>3. mutations' = <<c>>
      BY <2>1, <3>2 DEF InsertReceipt
    <3> QED
      BY <3>3
  <2>8. ToSign(s, st)
    BY <1>3, <2>3
  <2> HIDE DEF c
  <2> QED
    BY <1>1, <2>4, <2>5, <2>6, <2>7, <2>8, ToSignStep
<1>4. CASE /\ Eligible(c) /\ HasReceipt(c)
           /\ ToSign(s, makeLifecycleStatement(ReceiptOf(c), clock, config.own))
           /\ UNCHANGED vars
  BY <1>1, <1>4, KnownReceiptStep
<1>5. CASE Answer(s, Diagnostic) /\ UNCHANGED vars
  BY <1>1, <1>5, AnswerStep, DiagnosticIsTrue
<1> QED
  BY <1>3, <1>4, <1>5 DEF Mutate

LEMMA RecoverStep ==
  ASSUME AttestedInv, NEW s \in Slots, Recover(s)
  PROVE  AttestedInv'
<1>1. UNCHANGED <<vars, env, config, made, request, objects, asked>>
  BY DEF Recover
<1>2. CASE HasReceipt(calls[s].cmd)
  BY <1>1, <1>2, KnownReceiptStep DEF Recover
<1>3. CASE ~HasReceipt(calls[s].cmd)
  BY <1>1, <1>3, AnswerStep, DiagnosticIsTrue DEF Recover
<1> QED
  BY <1>2, <1>3

\* The snapshot is true now, and of a receipt that is missing it was true
\* when the nonce was drawn.
LEMMA ReconcileStep ==
  ASSUME AttestedInv, NEW s \in Slots, Reconcile(s)
  PROVE  AttestedInv'
<1> DEFINE c  == calls[s].cmd
           n  == calls[s].nonce
<1>1. UNCHANGED <<vars, env, config, made, request, objects, asked>>
  BY DEF Reconcile
<1>2. n \in Nonces /\ asked[n] # None
  BY DEF Reconcile, AttestedInv, CallInv, CallIsTrue
<1>3. CASE ToSign(s, makeReconciliationStatement(c, n, config.own))
  <2>1. PICK st : st = makeReconciliationStatement(c, n, config.own)
    OBVIOUS
  <2>2. st.kind = "reconciliation" /\ st.nonce = n /\ st.digest = c
    BY <2>1 DEF makeReconciliationStatement
  <2>3. st.status = "EXACT_RECEIPT" => st.receipt = ReceiptOf(c) /\ HasReceipt(c)
    BY <2>1 DEF makeReconciliationStatement
  <2>4. HasReceipt(c) => ReceiptOf(c) \in receipts /\ ReceiptOf(c).digest = c
    BY DEF HasReceipt, ReceiptOf
  <2>5. st.status = "NOT_FOUND" => ~HasReceipt(c)
    BY <2>1 DEF makeReconciliationStatement
  <2>6. ~HasReceipt(c) => c \notin asked[n]
    BY <1>2 DEF HasReceipt, AttestedInv, AskedInv
  <2>7. StaysTrue(st)
    BY <1>2, <2>2, <2>3, <2>4, <2>5, <2>6 DEF StaysTrue
  <2>8. Grows
    BY <1>1 DEF Grows, vars
  <2>9. ToSign(s, st)
    BY <1>3, <2>1
  <2> QED
    BY <1>1, <2>7, <2>8, <2>9, StatementsLast, ToSignStep, TablesUnchanged
<1>4. CASE Answer(s, Diagnostic)
  BY <1>1, <1>4, AnswerStep, DiagnosticIsTrue
<1> QED
  BY <1>3, <1>4 DEF Reconcile

LEMMA SignStep ==
  ASSUME AttestedInv, NEW s \in Slots, Sign(s) \/ SignFails(s) \/ PrepareFails(s)
  PROVE  AttestedInv'
<1>1. UNCHANGED <<vars, env, config, made, request, objects, asked>>
  BY DEF Sign, SignFails, PrepareFails
<1>2. CASE /\ calls[s].pc = "sign"
           /\ Answer(s, encodeResultAttestationEnvelope(calls[s].statement, config.own))
  <2>1. PICK bytes : bytes = encodeResultAttestationEnvelope(calls[s].statement, config.own)
    OBVIOUS
  <2>2. StaysTrue(calls[s].statement)
    BY <1>2 DEF AttestedInv, CallInv, CallIsTrue
  <2>3. BytesAreTrue(bytes)
    BY <2>1, <2>2 DEF BytesAreTrue, encodeResultAttestationEnvelope
  <2>4. Grows
    BY <1>1 DEF Grows, vars
  <2>5. Answer(s, bytes)
    BY <1>2, <2>1
  <2> QED
    BY <1>1, <2>3, <2>4, <2>5, BytesLast, AnswerStep
<1>3. CASE Answer(s, Diagnostic)
  BY <1>1, <1>3, AnswerStep, DiagnosticIsTrue
<1> QED
  BY <1>2, <1>3 DEF Sign, SignFails, PrepareFails

\* Whoever waited for the object hears nothing.
LEMMA RestartStep ==
  ASSUME AttestedInv, NEW cfg, Restart(cfg)
  PROVE  AttestedInv'
<1> USE DEF AttestedInv
<1>1. UNCHANGED <<vars, env, made, request, objects, asked>>
  BY DEF Restart
<1>2. Grows
  BY <1>1 DEF Grows, vars
<1>3. CallInv'
  <2>1. DOMAIN calls' = Slots
    BY DEF Restart
  <2>2. ASSUME NEW s \in Slots
        PROVE  CallIsTrue(calls[s])'
    <3>1. CASE calls[s].pc \in {"ready", "sign"}
      <4>1. calls'[s].pc = "answer" /\ calls'[s].bytes = Diagnostic
        BY <3>1 DEF Restart
      <4> QED
        BY <4>1, DiagnosticIsTrue DEF CallIsTrue
    <3>2. CASE calls[s].pc \notin {"ready", "sign"}
      <4>1. calls'[s] = calls[s]
        BY <3>2 DEF Restart
      <4> QED
        BY <4>1, <1>2, CallsLast DEF CallInv
    <3> QED
      BY <3>1, <3>2
  <2> QED
    BY <2>1, <2>2 DEF CallInv
<1>4. ObjectInv' /\ AskedInv'
  BY <1>1, <1>2, BytesLast DEF ObjectInv, AskedInv, vars
<1> QED
  BY <1>1, <1>3, <1>4, TablesUnchanged

\* The relay stores a diagnostic, the answer it was given, or what is there.
LEMMA PublishStep ==
  ASSUME AttestedInv, NEW s \in Slots, Publish(s) \/ Lose(s)
  PROVE  AttestedInv'
<1> USE DEF AttestedInv
<1>1. UNCHANGED <<vars, env, config, made, request, asked>> /\ calls' = [calls EXCEPT ![s] = Idle]
  BY DEF Publish, Lose
<1>2. Grows
  BY <1>1 DEF Grows, vars
<1>3. CallInv'
  <2>1. CallIsTrue(Idle)'
    BY DEF CallIsTrue, Idle
  <2> QED
    BY <1>1, <1>2, <2>1, CallsLast DEF CallInv
<1>4. ObjectInv'
  <2>1. CASE UNCHANGED objects
    BY <2>1, <1>2, BytesLast DEF ObjectInv
  <2>2. ASSUME NEW key, objects' = [objects EXCEPT ![key] = Stored(key, calls[s].bytes)],
               calls[s].pc = "answer"
        PROVE  ObjectInv'
    <3>1. BytesAreTrue(calls[s].bytes)
      BY <2>2 DEF CallInv, CallIsTrue
    <3>2. ASSUME NEW k \in ResultKeys
          PROVE  BytesAreTrue(objects[k])'
      <4>1. objects'[k] = objects[k] \/ objects'[k] = calls[s].bytes
        BY <2>2 DEF Stored, publishSignedEnvelope, ObjectInv
      <4>2. BytesAreTrue(objects[k])
        BY DEF ObjectInv
      <4> QED
        BY <1>2, <3>1, <4>1, <4>2, BytesLast
    <3> QED
      BY <2>2, <3>2 DEF ObjectInv
  <2> QED
    BY <2>1, <2>2 DEF Publish, Lose
<1>5. AskedInv'
  BY <1>1 DEF AskedInv, vars
<1> QED
  BY <1>1, <1>3, <1>4, <1>5, TablesUnchanged

\* The nonce was never drawn before, so nothing was said of it.
LEMMA AskStep ==
  ASSUME AttestedInv, NEW c \in Commands, NEW n \in Nonces, Ask(c, n)
  PROVE  AttestedInv'
<1> USE DEF AttestedInv
<1> DEFINE digests == {r.digest : r \in receipts}
<1>1. /\ UNCHANGED <<vars, env, config, made, calls, objects>> /\ asked[n] = None
      /\ asked' = [asked EXCEPT ![n] = digests]
      /\ request' \in {request, [digest |-> c, nonce |-> n]}
  BY DEF Ask
<1>2. digests # None
  <2>1. digests \in SUBSET Commands
    BY DEF LifecycleInv, HistoryInv
  <2> QED
    BY <2>1, NoneAssumption
<1>3. Grows
  BY <1>1 DEF Grows, vars, AskedInv
<1>4. CallInv' /\ ObjectInv'
  BY <1>1, <1>3, CallsLast, BytesLast DEF CallInv, ObjectInv
<1>5. AskedInv'
  <2>1. DOMAIN asked' = Nonces /\ asked'[n] = digests /\ receipts' = receipts
    BY <1>1 DEF AskedInv, vars
  <2>2. \A m \in Nonces : m # n => asked'[m] = asked[m]
    BY <1>1 DEF AskedInv
  <2>3. request' # None => /\ request'.digest \in Commands
                           /\ request'.nonce \in Nonces /\ asked'[request'.nonce] # None
    <3> HIDE DEF digests
    <3> QED
      BY <1>1, <1>2, <2>1, <2>2 DEF AskedInv
  <2> QED
    BY <2>1, <2>2, <2>3 DEF AskedInv
<1> QED
  BY <1>1, <1>4, <1>5, TablesUnchanged

\* The authority's time moves.
LEMMA AuthorityTimeStep ==
  ASSUME AttestedInv, Admit \/ Tick, UNCHANGED attested
  PROVE  AttestedInv'
<1> USE DEF AttestedInv
<1>1. UNCHANGED <<env, config, made, calls, request, objects, asked, receipts, mutations>>
  BY DEF attested, Admit, Tick
<1>2. Grows
  BY <1>1 DEF Grows
<1>3. LifecycleInv'
  BY TimeStep
<1>4. CallInv' /\ ObjectInv' /\ AskedInv'
  BY <1>1, <1>2, CallsLast, BytesLast DEF CallInv, ObjectInv, AskedInv
<1> QED
  BY <1>1, <1>3, <1>4

LEMMA AttestedNextStep ==
  ASSUME AttestedInv, [AttestedNext]_allVars
  PROVE  AttestedInv'
<1>1. CASE UNCHANGED allVars
  <2>1. UNCHANGED <<vars, env, config, made, calls, request, objects, asked>>
    BY <1>1 DEF allVars, attested
  <2>2. Grows
    BY <2>1 DEF Grows, vars
  <2>3. CallInv' /\ ObjectInv' /\ AskedInv'
    BY <2>1, <2>2, CallsLast, BytesLast DEF AttestedInv, CallInv, ObjectInv, AskedInv, vars
  <2> QED
    BY <2>1, <2>3, TablesUnchanged DEF AttestedInv
<1>2. ASSUME NEW s \in Slots, NEW c \in Commands, Submit(s, c) \/ Probe(s, c)
      PROVE  AttestedInv'
  BY <1>2, BeginStep DEF Submit, Probe
<1>3. ASSUME NEW s \in Slots, Observe(s)
      PROVE  AttestedInv'
  BY <1>3, BeginStep DEF Observe, AttestedInv, AskedInv
<1>4. CASE AttestedNext
  BY <1>2, <1>3, <1>4, AuthorityTimeStep, SignStep, MutateStep, RecoverStep, ReconcileStep, PublishStep,
     RestartStep, AskStep DEF AttestedNext, observeReconciliation, observeStagingReconciliation
<1> QED
  BY <1>1, <1>4

\* Init, or a release from before there were receipts.
LEMMA AttestedStart == AttestedInit => AttestedInv
<1> SUFFICES ASSUME AttestedInit PROVE AttestedInv
  OBVIOUS
<1>1. LifecycleInv /\ mutations = <<>> /\ receipts = {}
  <2>1. CASE Init
    BY <2>1, EmptyLifecycle DEF Init
  <2>2. CASE /\ clock = 0 /\ lastNow = 0
             /\ releases = {[id |-> Legacy.id, key |-> Legacy.key, activated |-> 0, retired |-> NoTime]}
             /\ receipts = {} /\ mutations = <<>>
    <3>1. TimesInv /\ Initialized /\ Len(mutations) = 0
      BY <2>2 DEF TimesInv, Initialized, NoTime
    <3>2. HistoryInv
      BY <2>2, <3>1, FS_EmptySet, LifecycleTimesAssumption DEF HistoryInv, ReceiptsAreTheHistory
    <3>3. OneRow
      <4> DEFINE row == [id |-> Legacy.id, key |-> Legacy.key, activated |-> 0, retired |-> NoTime]
      <4>1. releases = {row}
        BY <2>2
      <4>2. IsRow(row) /\ row.retired = NoTime /\ row.activated <= lastNow
        BY <2>2 DEF IsRow, NoTime
      <4> HIDE DEF row
      <4> QED
        BY <3>1, <4>1, <4>2 DEF OneRow, IsRow
    <3> QED
      BY <2>2, <3>1, <3>2, <3>3 DEF LifecycleInv, RowsInv
  <2> QED
    BY <2>1, <2>2 DEF AttestedInit
<1>2. CallInv
  <2>1. CallIsTrue(Idle)
    BY DEF CallIsTrue, Idle
  <2> QED
    BY <2>1 DEF AttestedInit, CallInv
<1>3. ObjectInv
  BY DEF AttestedInit, ObjectInv, BytesAreTrue
<1>4. AskedInv
  BY DEF AttestedInit, AskedInv
<1>5. env \in {"production", "staging"}
  BY DEF AttestedInit
<1> QED
  BY <1>1, <1>2, <1>3, <1>4, <1>5 DEF AttestedInv

THEOREM AttestedInvariance == AttestedSpec => []AttestedInv
<1>1. AttestedInv /\ [AttestedNext]_allVars => AttestedInv'
  BY AttestedNextStep
<1> QED
  BY AttestedStart, <1>1, PTL DEF AttestedSpec

-----------------------------------------------------------------------------
(* What the operator reads.                                                 *)

LEMMA PairCardinality ==
  ASSUME NEW a, NEW b, a # b
  PROVE  Cardinality({a, b}) = 2
<1>1. IsFiniteSet({a}) /\ Cardinality({a}) = 1 /\ b \notin {a}
  BY FS_Singleton
<1>2. Cardinality({a} \union {b}) = Cardinality({a}) + 1
  BY <1>1, FS_AddElement
<1>3. {a} \union {b} = {a, b}
  OBVIOUS
<1> QED
  BY <1>1, <1>2, <1>3

\* One row or two: what validateReleaseRows() asks of the snapshot.
LEMMA RowsAreValid ==
  ASSUME AttestedInv
  PROVE  validateReleaseRows(releases, Initialized, env)
<1> USE DEF AttestedInv, LifecycleInv
<1>1. CASE ~Initialized /\ releases = {}
  BY <1>1, FS_EmptySet DEF validateReleaseRows
<1>2. CASE OneRow
  <2>1. PICK cur \in releases : releases = {cur} /\ cur.retired = NoTime
    BY <1>2 DEF OneRow
  <2>2. Cardinality(releases) = 1 /\ Initialized
    BY <1>2, <2>1, FS_Singleton DEF OneRow
  <2>3. Cardinality(releases) \in 1 .. (IF env = "staging" THEN 1 ELSE 2)
    BY <2>2
  <2>4. \A old \in releases \ {cur} : FALSE
    BY <2>1
  <2>5. \A a, b \in releases : a = b
    BY <2>1
  <2> QED
    BY <2>1, <2>2, <2>3, <2>4, <2>5 DEF validateReleaseRows
<1>3. CASE TwoRows
  <2>1. PICK old \in releases, cur \in releases :
          /\ releases = {old, cur} /\ IsRow(old) /\ IsRow(cur)
          /\ old.id # cur.id /\ old.key # cur.key
          /\ old.retired # NoTime /\ cur.retired = NoTime
          /\ old.activated <= cur.activated
          /\ old.retired - cur.activated \in 1 .. Overlap
    BY <1>3 DEF TwoRows
  <2>2. Cardinality(releases) = 2 /\ Initialized /\ env # "staging"
    <3>1. Cardinality({old, cur}) = 2
      BY <2>1, PairCardinality
    <3>2. Initialized /\ env # "staging"
      BY <1>3 DEF TwoRows, TimesInv
    <3> QED
      BY <2>1, <3>1, <3>2
  <2>3. \A a, b \in releases : a.id = b.id \/ a.key = b.key => a = b
    BY <2>1
  <2>4. \A x \in releases \ {cur} : x = old
    BY <2>1
  <2>5. old.retired > old.activated
    <3>1. old.retired \in Int /\ old.activated \in Int /\ cur.activated \in Int
      BY <2>1 DEF IsRow, NoTime
    <3>2. old.retired - cur.activated >= 1 /\ old.activated <= cur.activated
      BY <2>1, LifecycleTimesAssumption
    <3> QED
      BY <3>1, <3>2
  <2> QED
    BY <2>1, <2>2, <2>3, <2>4, <2>5 DEF validateReleaseRows
<1> QED
  BY <1>1, <1>2, <1>3 DEF RowsInv

\* A receipt is one the authority can have written, and with one row it is the
\* initialization's.
LEMMA ReceiptsAreValid ==
  ASSUME AttestedInv, NEW r \in receipts
  PROVE  validateReceipt(r, r.digest, env) /\ assertOneRowReceiptCoherence(r, releases)
<1> USE DEF AttestedInv, LifecycleInv
<1> DEFINE c == r.digest
           n == Len(mutations)
<1>1. /\ r.sequence \in 1 .. n /\ c = mutations[r.sequence] /\ n \in Nat /\ n <= Capacity
      /\ c \in Commands /\ Within(r.applied, c.activates)
      /\ c.op = "initialize" <=> r.sequence = 1
  BY ReceiptsByNumber DEF TimesInv, HistoryInv
<1>2. Signable(c)
  BY <1>1, CommandsAssumption
<1>3. validateReceipt(r, c, env)
  <2>1. r.sequence \in 1 .. Capacity
    BY <1>1, LifecycleTimesAssumption
  <2>2. c.op = "rotate-release" => env = "production" /\ r.sequence >= 2
    BY <1>1
  <2> QED
    BY <1>1, <1>2, <2>1, <2>2 DEF validateReceipt, Signable
<1>4. assertOneRowReceiptCoherence(r, releases)
  <2> SUFFICES ASSUME Cardinality(releases) = 1
               PROVE  c.op = "initialize" /\ r.sequence = 1 /\ releases = {NewRelease(c)}
    BY DEF assertOneRowReceiptCoherence
  <2>1. ~TwoRows
    <3> SUFFICES ASSUME TwoRows PROVE FALSE
      OBVIOUS
    <3>1. PICK old \in releases, cur \in releases : releases = {old, cur} /\ old.id # cur.id
      BY DEF TwoRows
    <3>2. old # cur
      BY <3>1
    <3>3. Cardinality({old, cur}) = 2
      BY <3>2, PairCardinality
    <3> QED
      BY <3>1, <3>3
  <2>2. OneRow
    BY <1>1, <2>1 DEF RowsInv
  <2>3. n = 1 /\ r.sequence = 1 /\ c = mutations[1]
    <3>1. n <= 1
      BY <2>2 DEF OneRow
    <3>2. r.sequence \in 1 .. n /\ n \in Nat
      BY <1>1
    <3>3. ASSUME NEW m \in Nat, NEW i \in 1 .. m, m <= 1
          PROVE  i = 1 /\ m = 1
      BY <3>3
    <3>4. r.sequence = 1 /\ n = 1
      BY <3>1, <3>2, <3>3
    <3> QED
      BY <1>1, <3>4
  <2> QED
    BY <1>1, <2>2, <2>3 DEF OneRow
<1> QED
  BY <1>3, <1>4

LEMMA StatesAreSignable ==
  ASSUME AttestedInv
  PROVE  EveryStateIsSignable
<1> SUFFICES ASSUME NEW c \in Commands
             PROVE  validateResultStatement(makeReconciliationStatement(c, None, config.own))
  BY DEF EveryStateIsSignable
<1>1. PICK st : st = makeReconciliationStatement(c, None, config.own)
  OBVIOUS
<1>2. /\ st.kind = "reconciliation" /\ st.env = env /\ st.digest = c /\ st.releases = releases
      /\ st.initialized = Initialized
  BY <1>1 DEF makeReconciliationStatement
<1>3. validateReleaseRows(st.releases, st.initialized, st.env)
  BY <1>2, RowsAreValid
<1>4. HasReceipt(c) => Covered /\ Initialized
  <2> SUFFICES ASSUME HasReceipt(c) PROVE Covered /\ Initialized
    OBVIOUS
  <2>1. PICK r \in receipts : r.digest = c
    BY DEF HasReceipt
  <2>2. r.sequence \in 1 .. Len(mutations) /\ mutations \in Seq(Commands)
    BY ReceiptsByNumber DEF AttestedInv, LifecycleInv, TimesInv
  <2>3. mutations # <<>>
    BY <2>2
  <2> QED
    BY <2>1, <2>3 DEF Covered, AttestedInv, LifecycleInv, RowsInv, OneRow, TwoRows
<1>5. CASE HasReceipt(c)
  <2>1. ReceiptOf(c) \in receipts /\ ReceiptOf(c).digest = c
    BY <1>5 DEF HasReceipt, ReceiptOf
  <2>2. st.status = "EXACT_RECEIPT" /\ st.coverage = "COMPLETE" /\ st.receipt = ReceiptOf(c)
    BY <1>1, <1>4, <1>5 DEF makeReconciliationStatement
  <2>3. validateReceipt(st.receipt, st.digest, st.env) /\ assertOneRowReceiptCoherence(st.receipt, st.releases)
    BY <1>2, <2>1, <2>2, ReceiptsAreValid
  <2>4. st.initialized = TRUE
    BY <1>2, <1>4, <1>5 DEF Initialized
  <2> QED
    BY <1>1, <1>2, <1>3, <2>2, <2>3, <2>4 DEF validateResultStatement
<1>6. CASE ~HasReceipt(c) /\ Initialized /\ ~Covered
  <2>1. st.status = "HISTORY_INCOMPLETE" /\ st.coverage = "INCOMPLETE" /\ st.receipt = None
    BY <1>1, <1>6 DEF makeReconciliationStatement
  <2>2. st.initialized = TRUE
    BY <1>2, <1>6 DEF Initialized
  <2> QED
    BY <1>1, <1>2, <1>3, <2>1, <2>2 DEF validateResultStatement
<1>7. CASE ~HasReceipt(c) /\ (~Initialized \/ Covered)
  <2>1. st.status = "NOT_FOUND" /\ st.coverage = "COMPLETE" /\ st.receipt = None
    BY <1>1, <1>7 DEF makeReconciliationStatement
  <2>2. st.initialized = TRUE \/ st.initialized = FALSE
    BY <1>2 DEF Initialized
  <2> QED
    BY <1>1, <1>2, <1>3, <2>1, <2>2 DEF validateResultStatement
<1> QED
  BY <1>5, <1>6, <1>7

\* What the reader believes is an envelope that was answered or stored, and its
\* statement is about the question.
LEMMA VerifiedIsTrue ==
  ASSUME AttestedInv, NEW bytes \in Readable, NEW kind, NEW c, NEW n, NEW now,
         verifyAuthoritySignedStatement(bytes, kind, c, n, now)
  PROVE  /\ StaysTrue(bytes.statement) /\ validateResultStatement(bytes.statement)
         /\ bytes.statement.kind = kind /\ bytes.statement.digest = c
         /\ kind = "reconciliation" => bytes.statement.nonce = n
<1>1. /\ bytes.form = "canonical" /\ validateResultStatement(bytes.statement)
      /\ bytes.statement.kind = kind /\ bytes.statement.digest = c
      /\ kind = "reconciliation" => bytes.statement.nonce = n
      /\ bytes = [form |-> "canonical", statement |-> bytes.statement, by |-> bytes.by]
  BY DEF verifyAuthoritySignedStatement, parseResultAttestationEnvelope, MeetsExpectations,
         encodeResultAttestationEnvelope
<1>2. bytes.by # None
  BY NoneAssumption DEF verifyAuthoritySignedStatement, selectAttestationTrustKey, verifyAttestationSignature
<1>3. PICK k \in ResultKeys : bytes = objects[k] /\ bytes # None
  <2> DEFINE signed == {o \in {objects[k] : k \in ResultKeys} : o # None /\ o.form = "canonical"}
             altered == {[o EXCEPT !.form = f] : o \in signed, f \in {"re-encoded", "malformed"}}
             Made(c1) == makeLifecycleStatement(
                            [digest |-> c1, sequence |-> 1, applied |-> c1.activates], clock, Current[env])
             unsigned == {encodeResultAttestationEnvelope(Made(c1), None) : c1 \in Commands}
  <2>1. bytes \in signed \/ bytes \in altered \/ bytes \in unsigned
    BY DEF Readable
  <2>2. CASE bytes \in signed
    BY <2>2
  <2>3. bytes \notin altered
    <3> SUFFICES ASSUME NEW o \in signed, NEW f \in {"re-encoded", "malformed"}, bytes = [o EXCEPT !.form = f]
                 PROVE  FALSE
      OBVIOUS
    <3>1. bytes.form = f
      <4>1. "form" \in DOMAIN bytes
        BY <1>1
      <4>2. "form" \in DOMAIN o
        BY <4>1
      <4> QED
        BY <4>2
    <3> QED
      BY <1>1, <3>1
  <2>4. bytes \notin unsigned
    <3> HIDE DEF Made
    <3> QED
      BY <1>2 DEF encodeResultAttestationEnvelope
  <2> HIDE DEF signed, altered, unsigned
  <2> QED
    BY <2>1, <2>2, <2>3, <2>4
<1>4. StaysTrue(bytes.statement)
  BY <1>1, <1>3 DEF AttestedInv, ObjectInv, BytesAreTrue
<1> QED
  BY <1>1, <1>4

LEMMA PositivesAreDurable ==
  ASSUME AttestedInv
  PROVE  PositiveIsDurable
<1> SUFFICES ASSUME NEW bytes \in Readable, NEW c \in Commands, NEW now \in Now,
                    NEW cmd \in Commands \union {None}, NEW n \in Nonces,
                    NEW kind \in {"lifecycle", "reconciliation"},
                    readAuthorityResult(bytes, kind, c, n, cmd, now) = "POSITIVE"
             PROVE  HasReceipt(c) /\ (env = "production" => cmd = c)
  BY DEF PositiveIsDurable
<1> DEFINE st == bytes.statement
<1>1. verifyAuthoritySignedStatement(bytes, kind, c, n, now)
  BY DEF readAuthorityResult, readStagingAuthorityResult, readProductionAuthorityResult
<1>2. /\ StaysTrue(st) /\ validateResultStatement(st) /\ st.kind = kind /\ st.digest = c
  BY <1>1, VerifiedIsTrue
<1>3. st.kind # "lifecycle" => st.status # "POSITIVE"
  BY <1>2 DEF validateResultStatement
<1>4. PositiveCandidate(st) => st.receipt \in receipts /\ st.receipt.digest = c
  BY <1>2 DEF StaysTrue, PositiveCandidate
<1>5. PositiveCandidate(st)
  <2>1. CASE env = "staging"
    BY <1>1, <1>3, <2>1 DEF readAuthorityResult, readStagingAuthorityResult,
       composeStagingAuthorityResult, PositiveCandidate
  <2>2. CASE env # "staging"
    BY <1>1, <1>3, <2>2 DEF readAuthorityResult, readProductionAuthorityResult,
       composeProductionAuthorityResult, PositiveCandidate
  <2> QED
    BY <2>1, <2>2
<1>6. env = "production" => cmd = c
  BY <1>1, <1>5 DEF readAuthorityResult, readProductionAuthorityResult, composeProductionAuthorityResult
<1> QED
  BY <1>4, <1>5, <1>6 DEF HasReceipt

LEMMA MissingWasMissing ==
  ASSUME AttestedInv
  PROVE  MissingWasMissingWhenAsked
<1> SUFFICES ASSUME NEW bytes \in Readable, NEW c \in Commands, NEW n \in Nonces, NEW now \in Now,
                    readAuthorityResult(bytes, "reconciliation", c, n, None, now) = "NOT_FOUND"
             PROVE  c \notin asked[n]
  BY DEF MissingWasMissingWhenAsked
<1> DEFINE st == bytes.statement
<1>1. verifyAuthoritySignedStatement(bytes, "reconciliation", c, n, now)
  BY DEF readAuthorityResult, readStagingAuthorityResult, readProductionAuthorityResult
<1>2. /\ StaysTrue(st) /\ st.kind = "reconciliation" /\ st.digest = c /\ st.nonce = n
  BY <1>1, VerifiedIsTrue
<1>3. st.status = "NOT_FOUND"
  <2>1. CASE env = "staging"
    BY <1>1, <2>1 DEF readAuthorityResult, readStagingAuthorityResult, composeStagingAuthorityResult
  <2>2. CASE env # "staging"
    BY <1>1, <2>2 DEF readAuthorityResult, readProductionAuthorityResult, composeProductionAuthorityResult
  <2> QED
    BY <2>1, <2>2
<1> QED
  BY <1>2, <1>3 DEF StaysTrue

\* With the authority's calls, restarts and redeployments, its relays and the
\* operator around it, the authority's history and releases stay as safe.
THEOREM AttestedRotationStaysSafe == AttestedSpec => []RotationIsSafe
<1>1. AttestedInv => RotationIsSafe
  BY LifecycleInvImplies DEF AttestedInv
<1> QED
  BY AttestedInvariance, <1>1, PTL

\* However long calls, answers, requests and stored objects are delayed, lost or
\* misplaced: the authority can sign every state it reaches, a positive reading
\* is a durable receipt, and a missing one was missing when it was asked for.
THEOREM ResultsStayTrue == AttestedSpec => []ResultsAreTrue
<1>1. AttestedInv => ResultsAreTrue
  BY StatesAreSignable, PositivesAreDurable, MissingWasMissing DEF ResultsAreTrue
<1> QED
  BY AttestedInvariance, <1>1, PTL

-----------------------------------------------------------------------------
(* Provisioning of the signing key.                                         *)

\* What ProvisioningInv says of one tool.
ToolInv(t) ==
  /\ tool[t].pc \in {"create", "record", "put"} => tool[t].key \in Usable
  /\ tool[t].pc = "record" => custody.key = tool[t].key /\ custody.meta = NoKey
  /\ InOrder(tool[t].submitted)
  /\ tool[t].pc \in {"idle", "create", "record"} => tool[t].submitted = <<>> /\ tool[t].touched = {}
  /\ tool[t].pc = "put" => /\ Len(tool[t].submitted) < Len(Order)
                           /\ tool[t].touched = Range(tool[t].submitted)
  /\ tool[t].pc # "done" => tool[t].report = "none"
  /\ tool[t].pc = "put" /\ tool[t].alone =>
        \A i \in 1 .. Len(tool[t].submitted) : secrets[Order[i]] = tool[t].key
  /\ tool[t].report = "refused" => tool[t].touched = {}
  /\ tool[t].report \in {"stopped", "complete"} => tool[t].touched \subseteq Range(tool[t].submitted) \union {tool[t].stopped}
  /\ tool[t].report # "none" => Range(tool[t].submitted) \subseteq tool[t].touched
  /\ tool[t].report = "complete" /\ tool[t].alone => \A n \in Names : secrets[n] = tool[t].key

FilesOK ==
  /\ custody \in [key : Keys \union {NoKey}, meta : Keys \union {NoKey}]
  /\ CustodyIsOneKey
SecretsOK == DOMAIN secrets = Names /\ \A n \in Names : secrets[n] \in Usable \union {NoKey}
OneGeneration == \A t, u \in Tools : tool[t].pc = "record" /\ tool[u].pc = "record" => t = u

LEMMA ProvisioningParts ==
  ProvisioningInv <=> /\ tool \in [Tools -> Tool] /\ FilesOK /\ SecretsOK /\ OneGeneration
                      /\ \A t \in Tools : ToolInv(t)
BY DEF ProvisioningInv, FilesOK, SecretsOK, OneGeneration, ToolInv, GenerationInv, SubmissionInv,
       ReportsAreHonest, CompleteIsProvisioned

LEMMA ProvisioningPartsNext ==
  ASSUME tool' \in [Tools -> Tool], FilesOK', SecretsOK', OneGeneration', \A t \in Tools : ToolInv(t)'
  PROVE  ProvisioningInv'
BY DEF ProvisioningInv, FilesOK, SecretsOK, OneGeneration, ToolInv, GenerationInv, SubmissionInv,
       ReportsAreHonest, CompleteIsProvisioned, CustodyIsOneKey, Tool, InOrder, Names, Order, Usable, Range, VariableKinds

LEMMA OrderIsThree ==
  /\ Len(Order) = 3 /\ Order[1] = "fingerprint" /\ Order[2] = "public" /\ Order[3] = "private"
  /\ Names = {"fingerprint", "public", "private"}
<1>1. Len(Order) = 3 /\ Order[1] = "fingerprint" /\ Order[2] = "public" /\ Order[3] = "private"
      /\ DOMAIN Order = 1 .. 3
  BY DEF Order
<1>2. \A i \in 1 .. 3 : i = 1 \/ i = 2 \/ i = 3
  OBVIOUS
<1> QED
  BY <1>1, <1>2 DEF Names, Range

\* A tool that does nothing, while the files it is between and the secrets stay.
LEMMA ToolStays ==
  ASSUME NEW u \in Tools, ToolInv(u), tool'[u] = tool[u], UNCHANGED secrets,
         tool[u].pc = "record" => custody' = custody
  PROVE  ToolInv(u)'
BY DEF ToolInv, InOrder, Names, Order, Usable, Range

\* Tools that end, or begin again, without a trace.
LEMMA ToolStops ==
  ASSUME NEW t \in Tools, ToolInv(t), NEW q \in Tool, tool'[t] = q, q.pc \in {"idle", "done"},
         \/ q.submitted = <<>> /\ q.touched = {} /\ q.report \in {"none", "refused", "generated"}
         \/ q.submitted = tool[t].submitted /\ q.report = "none",
         q.pc = "idle" => q.submitted = <<>> /\ q.touched = {} /\ q.report = "none"
  PROVE  ToolInv(t)'
<1>1. InOrder(<<>>) /\ Range(<<>>) = {}
  BY DEF InOrder, Range, Order
<1>2. InOrder(q.submitted) /\ (q.report # "none" => q.touched = {} /\ Range(q.submitted) = {})
  BY <1>1 DEF ToolInv
<1>3. q.report \in {"none", "refused", "generated"}
  OBVIOUS
<1> QED
  BY <1>2, <1>3 DEF ToolInv, InOrder, Names, Order, Range

\* What is put next, and the order once it is appended.
LEMMA NextIsName ==
  ASSUME NEW t \in Tools, InOrder(tool[t].submitted), Len(tool[t].submitted) < Len(Order)
  PROVE  /\ NextName(t) \in Names
         /\ InOrder(Append(tool[t].submitted, NextName(t)))
         /\ Len(Append(tool[t].submitted, NextName(t))) = Len(tool[t].submitted) + 1
         /\ Range(Append(tool[t].submitted, NextName(t))) = Range(tool[t].submitted) \union {NextName(t)}
         /\ \A i \in 1 .. Len(tool[t].submitted) : Order[i] # NextName(t)
<1>1. PICK s : s = tool[t].submitted
  OBVIOUS
<1>2. PICK n : n = NextName(t)
  OBVIOUS
<1>3. s \in Seq(Names) /\ Len(s) \in Nat /\ Len(s) < 3 /\ \A i \in 1 .. Len(s) : s[i] = Order[i]
  BY <1>1, OrderIsThree DEF InOrder
<1>4. Len(s) + 1 \in 1 .. 3 /\ n = Order[Len(s) + 1]
  <2>1. n = Order[Len(s) + 1]
    BY <1>1, <1>2 DEF NextName
  <2>2. Len(s) + 1 \in 1 .. 3
    BY <1>3
  <2> QED
    BY <2>1, <2>2
<1>5. n \in Names
  BY <1>4, OrderIsThree
<1>6. /\ Append(s, n) \in Seq(Names) /\ Len(Append(s, n)) = Len(s) + 1
      /\ Append(s, n)[Len(s) + 1] = n
      /\ \A i \in 1 .. Len(s) : Append(s, n)[i] = s[i]
  BY <1>3, <1>5
<1>7. \A i \in 1 .. Len(s) + 1 : i \in 1 .. Len(s) \/ i = Len(s) + 1
  BY <1>3
<1>8. \A i \in 1 .. Len(s) + 1 : Append(s, n)[i] = Order[i]
  BY <1>3, <1>4, <1>6, <1>7
<1>9. InOrder(Append(s, n))
  BY <1>3, <1>4, <1>6, <1>8, OrderIsThree DEF InOrder
<1>10. \A i, j \in 1 .. 3 : i # j => Order[i] # Order[j]
  BY OrderIsThree
<1>11. \A i \in 1 .. Len(s) : i \in 1 .. 3 /\ i # Len(s) + 1
  BY <1>3
<1>12. \A i \in 1 .. Len(s) : Order[i] # n
  BY <1>4, <1>10, <1>11
<1>13. DOMAIN s = 1 .. Len(s) /\ DOMAIN Append(s, n) = 1 .. Len(s) + 1
  BY <1>3, <1>5, <1>6
<1>14. Range(Append(s, n)) = Range(s) \union {n}
  <2>1. \A x : x \in Range(Append(s, n)) => x \in Range(s) \union {n}
    BY <1>6, <1>7, <1>13 DEF Range
  <2>2. \A i \in 1 .. Len(s) : i \in 1 .. Len(s) + 1
    BY <1>3
  <2>3. Len(s) + 1 \in 1 .. Len(s) + 1
    BY <1>3
  <2>4. \A x : x \in Range(s) \union {n} => x \in Range(Append(s, n))
    BY <1>6, <1>13, <2>2, <2>3 DEF Range
  <2> QED
    BY <2>1, <2>4
<1> QED
  BY <1>1, <1>2, <1>5, <1>6, <1>9, <1>12, <1>14

LEMMA OneToolSteps ==
  ASSUME ProvisioningInv, NEW t \in Tools, NEW q \in Tool, Step(t, q)
  PROVE  /\ tool' \in [Tools -> Tool] /\ tool'[t] = q
         /\ \A u \in Tools \ {t} : tool'[u] = tool[u]
BY DEF ProvisioningInv, Step

LEMMA IdleIsTool == IdleTool \in Tool
BY DEF IdleTool, Tool, Names

\* A tool stops or begins again: the files and the secrets stay.
LEMMA StopStep ==
  ASSUME ProvisioningInv, NEW t \in Tools, NEW q \in Tool, Step(t, q), q.pc \in {"idle", "done"},
         \/ q.submitted = <<>> /\ q.touched = {} /\ q.report \in {"none", "refused", "generated"}
         \/ q.submitted = tool[t].submitted /\ q.report = "none",
         q.pc = "idle" => q.submitted = <<>> /\ q.touched = {} /\ q.report = "none",
         UNCHANGED <<custody, secrets>>
  PROVE  ProvisioningInv'
<1>1. /\ tool \in [Tools -> Tool] /\ FilesOK /\ SecretsOK /\ OneGeneration
      /\ \A u \in Tools : ToolInv(u)
  BY ProvisioningParts
<1>2. /\ tool' \in [Tools -> Tool] /\ tool'[t] = q
      /\ \A u \in Tools \ {t} : tool'[u] = tool[u]
  BY OneToolSteps
<1>3. \A u \in Tools : ToolInv(u)'
  BY <1>1, <1>2, ToolStays, ToolStops
<1>4. OneGeneration'
  BY <1>1, <1>2 DEF OneGeneration
<1>5. FilesOK' /\ SecretsOK'
  BY <1>1 DEF FilesOK, SecretsOK, CustodyIsOneKey, Names, Range, Order, Usable
<1> QED
  BY <1>2, <1>3, <1>4, <1>5, ProvisioningPartsNext

\* Reports that name nothing, of a tool that is where it was.
LEMMA ReportStep ==
  ASSUME ProvisioningInv, NEW t \in Tools, NEW q \in Tool, NEW r \in {"none", "refused", "generated"}, Report(t, q, r),
         \/ q.submitted = <<>> /\ q.touched = {}
         \/ q.submitted = tool[t].submitted /\ r = "none",
         UNCHANGED <<custody, secrets>>
  PROVE  ProvisioningInv'
<1>1. PICK p : p = [q EXCEPT !.pc = "done", !.report = r]
  OBVIOUS
<1>2. p \in Tool /\ p.pc = "done" /\ p.report = r /\ p.submitted = q.submitted /\ p.touched = q.touched
  BY <1>1 DEF Tool
<1>3. Step(t, p)
  BY <1>1 DEF Report
<1> QED
  BY <1>2, <1>3, StopStep

LEMMA IdleReports ==
  /\ IdleTool \in Tool /\ IdleTool.pc = "idle" /\ IdleTool.submitted = <<>> /\ IdleTool.touched = {}
  /\ IdleTool.report = "none" /\ IdleTool.stopped = "none"
BY IdleIsTool DEF IdleTool

\* The two reports of which a tool's steps are made.
LEMMA IdleReportStep ==
  ASSUME ProvisioningInv, NEW t \in Tools, Report(t, IdleTool, "refused"), UNCHANGED <<custody, secrets>>
  PROVE  ProvisioningInv'
<1>1. PICK q : q = IdleTool
  OBVIOUS
<1>2. q \in Tool /\ q.submitted = <<>> /\ q.touched = {}
  BY <1>1, IdleReports
<1>3. Report(t, q, "refused")
  BY <1>1
<1>4. "refused" \in {"none", "refused", "generated"}
  OBVIOUS
<1> QED
  BY <1>2, <1>3, <1>4, ReportStep

LEMMA OwnReportStep ==
  ASSUME ProvisioningInv, NEW t \in Tools, NEW r \in {"none", "refused"}, Report(t, tool[t], r),
         \/ tool[t].submitted = <<>> /\ tool[t].touched = {}
         \/ r = "none",
         UNCHANGED <<custody, secrets>>
  PROVE  ProvisioningInv'
<1>1. PICK q : q = tool[t]
  OBVIOUS
<1>2. /\ q \in Tool
      /\ \/ q.submitted = <<>> /\ q.touched = {}
         \/ q.submitted = tool[t].submitted /\ r = "none"
  BY <1>1, ProvisioningParts
<1>3. Report(t, q, r) /\ r \in {"none", "refused", "generated"}
  BY <1>1
<1> QED
  BY <1>2, <1>3, ReportStep

\* A generation that goes on to its next file.
LEMMA GenerationStep ==
  ASSUME ProvisioningInv, NEW t \in Tools, NEW q \in Tool, Step(t, q), q.pc \in {"create", "record", "done"},
         q.submitted = <<>>, q.touched = {}, q.report \in {"none", "generated", "refused"},
         q.pc \in {"create", "record"} => q.key \in Usable /\ q.report = "none",
         q.pc = "record" => custody'.key = q.key /\ custody'.meta = NoKey,
         \A u \in Tools \ {t} : tool[u].pc = "record" => custody' = custody /\ q.pc # "record",
         FilesOK', UNCHANGED secrets
  PROVE  ProvisioningInv'
<1>1. /\ tool \in [Tools -> Tool] /\ FilesOK /\ SecretsOK /\ OneGeneration
      /\ \A u \in Tools : ToolInv(u)
  BY ProvisioningParts
<1>2. /\ tool' \in [Tools -> Tool] /\ tool'[t] = q
      /\ \A u \in Tools \ {t} : tool'[u] = tool[u]
  BY OneToolSteps
<1>3. ToolInv(t)'
  <2>1. InOrder(q.submitted) /\ Range(q.submitted) = {}
    BY DEF InOrder, Range, Order
  <2> QED
    BY <1>2, <2>1 DEF ToolInv, InOrder, Names, Order, Range, Usable
<1>4. \A u \in Tools \ {t} : ToolInv(u)'
  BY <1>1, <1>2, ToolStays
<1>5. OneGeneration'
  BY <1>1, <1>2 DEF OneGeneration
<1>6. SecretsOK'
  BY <1>1 DEF SecretsOK, Names, Range, Order, Usable
<1> QED
  BY <1>2, <1>3, <1>4, <1>5, <1>6, ProvisioningPartsNext

LEMMA GenerateKeyStep ==
  ASSUME ProvisioningInv, NEW t \in Tools, NEW k \in Fresh, GenerateKey(t, k)
  PROVE  ProvisioningInv'
<1>1. CASE Report(t, IdleTool, "refused")
  <2>1. UNCHANGED <<custody, secrets>>
    BY DEF GenerateKey
  <2> QED
    BY <1>1, <2>1, IdleReportStep
<1>2. CASE describeMaterial(k) /\ Step(t, [IdleTool EXCEPT !.pc = "create", !.key = k])
  <2>1. k \in Usable
    BY <1>2 DEF Fresh, describeMaterial, Usable
  <2>2. PICK q : q = [IdleTool EXCEPT !.pc = "create", !.key = k]
    OBVIOUS
  <2>3. /\ q \in Tool /\ q.pc = "create" /\ q.key = k /\ q.submitted = <<>> /\ q.touched = {} /\ q.report = "none"
    BY <2>1, <2>2, IdleReports DEF Tool, Usable
  <2>4. UNCHANGED <<custody, secrets>> /\ FilesOK'
    BY ProvisioningParts DEF GenerateKey, FilesOK, CustodyIsOneKey
  <2> QED
    BY <1>2, <2>1, <2>2, <2>3, <2>4, GenerationStep
<1> QED
  BY <1>1, <1>2 DEF GenerateKey

LEMMA CreateKeyFileStep ==
  ASSUME ProvisioningInv, NEW t \in Tools, CreateKeyFile(t)
  PROVE  ProvisioningInv'
<1>1. /\ tool[t] \in Tool /\ tool[t].pc = "create" /\ tool[t].key \in Usable
      /\ tool[t].submitted = <<>> /\ tool[t].touched = {} /\ tool[t].report = "none"
  BY ProvisioningParts DEF CreateKeyFile, ToolInv
<1>2. CASE custody.key = NoKey
  <2>1. PICK q : q = [tool[t] EXCEPT !.pc = "record"]
    OBVIOUS
  <2>2. q \in Tool /\ q.pc = "record" /\ q.key = tool[t].key
        /\ q.submitted = <<>> /\ q.touched = {} /\ q.report = "none"
    BY <1>1, <2>1 DEF Tool
  <2>3. /\ custody' = [custody EXCEPT !.key = tool[t].key] /\ Step(t, q) /\ UNCHANGED secrets
    BY <1>2, <2>1 DEF CreateKeyFile
  <2>4. custody.meta = NoKey /\ custody \in [key : Keys \union {NoKey}, meta : Keys \union {NoKey}]
    BY <1>2, ProvisioningParts DEF FilesOK, CustodyIsOneKey
  <2>5. /\ custody'.key = tool[t].key /\ custody'.meta = NoKey
        /\ custody' \in [key : Keys \union {NoKey}, meta : Keys \union {NoKey}]
    BY <1>1, <2>3, <2>4 DEF Usable
  <2>6. FilesOK'
    BY <2>5 DEF FilesOK, CustodyIsOneKey
  <2>7. \A u \in Tools : tool[u].pc # "record"
    BY <1>2, ProvisioningParts, KeysAssumption DEF ToolInv, Usable
  <2> QED
    BY <1>1, <2>2, <2>3, <2>5, <2>6, <2>7, GenerationStep
<1>3. CASE custody.key # NoKey
  <2>1. UNCHANGED <<custody, secrets>> /\ Report(t, tool[t], "refused")
    BY <1>3 DEF CreateKeyFile
  <2> QED
    BY <1>1, <2>1, OwnReportStep
<1> QED
  BY <1>2, <1>3

LEMMA WriteRecordStep ==
  ASSUME ProvisioningInv, NEW t \in Tools, WriteRecord(t)
  PROVE  ProvisioningInv'
<1>1. /\ tool[t] \in Tool /\ tool[t].pc = "record" /\ tool[t].key \in Usable
      /\ tool[t].submitted = <<>> /\ tool[t].touched = {}
      /\ custody.key = tool[t].key /\ custody.meta = NoKey
      /\ custody \in [key : Keys \union {NoKey}, meta : Keys \union {NoKey}]
  BY ProvisioningParts DEF WriteRecord, ToolInv, FilesOK
<1>2. \A u \in Tools \ {t} : tool[u].pc # "record"
  BY <1>1, ProvisioningParts DEF OneGeneration
<1>3. UNCHANGED secrets
  BY DEF WriteRecord
<1>4. ASSUME NEW r \in {"generated", "refused"}, Report(t, tool[t], r), FilesOK'
      PROVE  ProvisioningInv'
  <2>1. PICK q : q = [tool[t] EXCEPT !.pc = "done", !.report = r]
    OBVIOUS
  <2>2. q \in Tool /\ q.pc = "done" /\ q.submitted = <<>> /\ q.touched = {} /\ q.report = r
    BY <1>1, <2>1 DEF Tool
  <2>3. Step(t, q)
    BY <1>4, <2>1 DEF Report
  <2> QED
    BY <1>2, <1>3, <1>4, <2>2, <2>3, GenerationStep
<1>5. CASE custody' = [custody EXCEPT !.meta = tool[t].key] /\ Report(t, tool[t], "generated")
  <2>1. custody'.key = tool[t].key /\ custody'.meta = tool[t].key
        /\ custody' \in [key : Keys \union {NoKey}, meta : Keys \union {NoKey}]
    BY <1>1, <1>5 DEF Usable
  <2>2. FilesOK'
    BY <2>1 DEF FilesOK, CustodyIsOneKey
  <2> QED
    BY <1>4, <1>5, <2>2
<1>6. CASE custody' = [custody EXCEPT !.key = NoKey] /\ Report(t, tool[t], "refused")
  <2>1. custody'.key = NoKey /\ custody'.meta = NoKey
        /\ custody' \in [key : Keys \union {NoKey}, meta : Keys \union {NoKey}]
    BY <1>1, <1>6
  <2>2. FilesOK'
    BY <2>1 DEF FilesOK, CustodyIsOneKey
  <2> QED
    BY <1>4, <1>6, <2>2
<1> QED
  BY <1>5, <1>6 DEF WriteRecord

\* What a submission begins with passed custody.
LEMMA DeriveStep ==
  ASSUME ProvisioningInv, NEW t \in Tools, NEW shell \in Shells, Derive(t, shell)
  PROVE  ProvisioningInv'
<1>1. CASE Report(t, IdleTool, "refused")
  <2>1. UNCHANGED <<custody, secrets>>
    BY DEF Derive
  <2> QED
    BY <1>1, <2>1, IdleReportStep
<1>2. CASE /\ Derivable(shell)
           /\ Step(t, [IdleTool EXCEPT !.pc = "put", !.key = custody.key, !.child = buildWranglerChildEnvironment(shell)])
  <2>1. /\ tool \in [Tools -> Tool] /\ FilesOK /\ SecretsOK /\ OneGeneration
        /\ \A u \in Tools : ToolInv(u)
    BY ProvisioningParts
  <2>2. custody.key \in Usable
    BY <1>2, <2>1 DEF Derivable, loadVerified, describeMaterial, Usable, FilesOK
  <2>3. PICK child : child = buildWranglerChildEnvironment(shell)
    OBVIOUS
  <2>4. child \in SUBSET VariableKinds
    BY <2>3, ShellsAssumption DEF buildWranglerChildEnvironment, VariableKinds
  <2>5. PICK q : q = [IdleTool EXCEPT !.pc = "put", !.key = custody.key, !.child = child]
    OBVIOUS
  <2>6. /\ q \in Tool /\ q.pc = "put" /\ q.key = custody.key /\ q.submitted = <<>> /\ q.touched = {} /\ q.report = "none"
    BY <2>2, <2>4, <2>5, IdleReports DEF Tool, Usable
  <2>7. Step(t, q)
    BY <1>2, <2>3, <2>5
  <2>8. /\ tool' \in [Tools -> Tool] /\ tool'[t] = q
        /\ \A u \in Tools \ {t} : tool'[u] = tool[u]
    BY <2>6, <2>7, OneToolSteps
  <2>9. UNCHANGED <<custody, secrets>>
    BY DEF Derive
  <2>10. ToolInv(t)'
    <3>1. InOrder(q.submitted) /\ Range(q.submitted) = {} /\ Len(q.submitted) = 0 /\ Len(Order) = 3
      BY <2>6 DEF InOrder, Range, Order
    <3>2. Len(q.submitted) < Len(Order) /\ \A i \in 1 .. Len(q.submitted) : FALSE
      BY <3>1
    <3>3. InOrder(q.submitted)'
      BY <3>1 DEF InOrder, Names, Order, Range
    <3>4. q.touched = Range(q.submitted) /\ Len(q.submitted) < Len(Order)
          /\ \A i \in 1 .. Len(q.submitted) : secrets'[Order[i]] = q.key
      BY <2>6, <3>1, <3>2
    <3> QED
      BY <2>2, <2>6, <2>8, <3>3, <3>4 DEF ToolInv, Usable
  <2>11. \A u \in Tools \ {t} : ToolInv(u)'
    BY <2>1, <2>8, <2>9, ToolStays
  <2>12. OneGeneration'
    BY <2>1, <2>6, <2>8 DEF OneGeneration
  <2>13. FilesOK' /\ SecretsOK'
    BY <2>1, <2>9 DEF FilesOK, SecretsOK, CustodyIsOneKey, Names, Range, Order, Usable
  <2> QED
    BY <2>8, <2>10, <2>11, <2>12, <2>13, ProvisioningPartsNext
<1> QED
  BY <1>1, <1>2 DEF Derive

\* Stops before the next put.
LEMMA StopsStep ==
  ASSUME ProvisioningInv, NEW t \in Tools, Stops(t)
  PROVE  ProvisioningInv'
<1>1. /\ tool \in [Tools -> Tool] /\ FilesOK /\ SecretsOK /\ OneGeneration
      /\ \A u \in Tools : ToolInv(u)
  BY ProvisioningParts
<1>2. /\ tool[t] \in Tool /\ tool[t].pc = "put" /\ InOrder(tool[t].submitted)
      /\ tool[t].touched = Range(tool[t].submitted) /\ Len(tool[t].submitted) < Len(Order)
      /\ UNCHANGED <<custody, secrets>>
  BY <1>1 DEF Stops, ToolInv
<1>3. CASE tool[t].submitted = <<>>
  <2>1. Report(t, tool[t], "refused")
    BY <1>3 DEF Stops, Refused
  <2>2. tool[t].touched = {}
    BY <1>2, <1>3 DEF Range
  <2> QED
    BY <1>2, <1>3, <2>1, <2>2, OwnReportStep
<1>4. CASE tool[t].submitted # <<>>
  <2>1. PICK q : q = [[tool[t] EXCEPT !.stopped = NextName(t)] EXCEPT !.pc = "done", !.report = "stopped"]
    OBVIOUS
  <2>2. Step(t, q)
    BY <1>4, <2>1 DEF Stops, Refused, Report
  <2>3. NextName(t) \in Names
    BY <1>2, NextIsName
  <2>4. /\ q \in Tool /\ q.pc = "done" /\ q.report = "stopped"
        /\ q.submitted = tool[t].submitted /\ q.touched = tool[t].touched
    BY <1>2, <2>1, <2>3 DEF Tool
  <2>5. /\ tool' \in [Tools -> Tool] /\ tool'[t] = q
        /\ \A u \in Tools \ {t} : tool'[u] = tool[u]
    BY <2>2, <2>4, OneToolSteps
  <2>6. ToolInv(t)'
    BY <1>2, <2>4, <2>5 DEF ToolInv, InOrder, Names, Order, Range
  <2>7. \A u \in Tools \ {t} : ToolInv(u)'
    BY <1>1, <1>2, <2>5, ToolStays
  <2>8. OneGeneration'
    BY <1>1, <2>4, <2>5 DEF OneGeneration
  <2>9. FilesOK' /\ SecretsOK'
    BY <1>1, <1>2 DEF FilesOK, SecretsOK, CustodyIsOneKey, Names, Range, Order, Usable
  <2> QED
    BY <2>5, <2>6, <2>7, <2>8, <2>9, ProvisioningPartsNext
<1> QED
  BY <1>3, <1>4

LEMMA KilledStep ==
  ASSUME ProvisioningInv, NEW t \in Tools, Killed(t)
  PROVE  ProvisioningInv'
<1>1. Report(t, tool[t], "none") /\ UNCHANGED <<custody, secrets>>
  BY DEF Killed
<1> QED
  BY <1>1, OwnReportStep

LEMMA AgainStep ==
  ASSUME ProvisioningInv, NEW t \in Tools, Again(t)
  PROVE  ProvisioningInv'
<1>1. PICK q : q = IdleTool
  OBVIOUS
<1>2. q \in Tool /\ q.pc = "idle" /\ q.submitted = <<>> /\ q.touched = {} /\ q.report = "none"
  BY <1>1, IdleReports
<1>3. Step(t, q) /\ UNCHANGED <<custody, secrets>>
  BY <1>1 DEF Again
<1> QED
  BY <1>2, <1>3, StopStep

\* The machine and the operator.
LEMMA OutsideStep ==
  ASSUME ProvisioningInv, ClearCustody \/ \E m \in Machines : MachineChanges(m)
  PROVE  ProvisioningInv'
<1>1. /\ tool \in [Tools -> Tool] /\ FilesOK /\ SecretsOK /\ OneGeneration
      /\ \A u \in Tools : ToolInv(u)
  BY ProvisioningParts
<1>2. UNCHANGED <<tool, secrets>>
  BY DEF ClearCustody, MachineChanges
<1>3. \A u \in Tools : tool[u].pc = "record" => custody' = custody
  BY DEF ClearCustody, MachineChanges
<1>4. \A u \in Tools : ToolInv(u)'
  BY <1>1, <1>2, <1>3, ToolStays
<1>5. FilesOK'
  BY <1>1 DEF ClearCustody, MachineChanges, FilesOK, CustodyIsOneKey
<1>6. SecretsOK' /\ OneGeneration' /\ tool' \in [Tools -> Tool]
  BY <1>1, <1>2 DEF SecretsOK, OneGeneration, Names, Range, Order, Usable
<1> QED
  BY <1>4, <1>5, <1>6, ProvisioningPartsNext

\* A tool whose put overlaps with another's: what it submitted counts no more.
LEMMA OverlappedTool ==
  ASSUME NEW u \in Tools, ToolInv(u), tool[u] \in Tool,
         tool'[u] = IF tool[u].pc \in {"put", "done"} THEN [tool[u] EXCEPT !.alone = FALSE] ELSE tool[u],
         custody' = custody
  PROVE  tool'[u] \in Tool /\ tool'[u].pc = tool[u].pc /\ ToolInv(u)'
<1>1. PICK p : p = tool'[u]
  OBVIOUS
<1>2. /\ p \in Tool /\ p.pc = tool[u].pc /\ p.key = tool[u].key /\ p.submitted = tool[u].submitted
      /\ p.touched = tool[u].touched /\ p.report = tool[u].report /\ p.stopped = tool[u].stopped
      /\ p.pc \in {"put", "done"} => p.alone = FALSE
  BY <1>1 DEF Tool
<1>3. p.pc # "done" => p.report = "none"
  BY <1>2 DEF ToolInv
<1> QED
  BY <1>1, <1>2, <1>3 DEF ToolInv, InOrder, Names, Order, Range, Usable

\* The order is a list of the three names.
LEMMA OrderCovers == \A n \in Names : \E i \in 1 .. 3 : n = Order[i]
BY OrderIsThree

\* What a put of t does: the record p it leaves, and the others it overlaps with.
LEMMA PutStep ==
  ASSUME ProvisioningInv, NEW t \in Tools, NEW p \in Tool, tool[t].pc = "put",
         tool' = [Overlapping(t) EXCEPT ![t] = p], custody' = custody, SecretsOK', ToolInv(t)', p.pc # "record"
  PROVE  ProvisioningInv'
<1>1. /\ tool \in [Tools -> Tool] /\ FilesOK /\ SecretsOK /\ OneGeneration
      /\ \A u \in Tools : ToolInv(u)
  BY ProvisioningParts
<1>2. /\ DOMAIN Overlapping(t) = Tools
      /\ \A u \in Tools \ {t} : Overlapping(t)[u] = IF tool[u].pc \in {"put", "done"} THEN [tool[u] EXCEPT !.alone = FALSE]
                                                     ELSE tool[u]
  BY DEF Overlapping
<1>3. /\ DOMAIN tool' = Tools /\ tool'[t] = p
      /\ tool' = [u \in Tools |-> tool'[u]]
      /\ \A u \in Tools \ {t} : tool'[u] = IF tool[u].pc \in {"put", "done"} THEN [tool[u] EXCEPT !.alone = FALSE]
                                         ELSE tool[u]
  BY <1>2 DEF Overlapping
<1>4. \A u \in Tools \ {t} : tool'[u] \in Tool /\ tool'[u].pc = tool[u].pc /\ ToolInv(u)'
  BY <1>1, <1>3, OverlappedTool
<1>5. \A u \in Tools : tool'[u] \in Tool
  BY <1>3, <1>4
<1>6. tool' \in [Tools -> Tool]
  BY <1>3, <1>5
<1>7. \A u \in Tools : ToolInv(u)'
  BY <1>4
<1>8. OneGeneration'
  BY <1>1, <1>3, <1>4 DEF OneGeneration
<1>9. FilesOK'
  BY <1>1 DEF FilesOK, CustodyIsOneKey
<1> QED
  BY <1>6, <1>7, <1>8, <1>9, ProvisioningPartsNext

LEMMA PutSecretStep ==
  ASSUME ProvisioningInv, NEW t \in Tools, NEW applied \in BOOLEAN, NEW exit \in {"zero", "failed"},
         PutSecret(t, applied, exit)
  PROVE  ProvisioningInv'
<1>1. /\ tool \in [Tools -> Tool] /\ FilesOK /\ SecretsOK /\ ToolInv(t)
      /\ tool[t].pc = "put" /\ custody' = custody /\ tool[t] \in Tool
  BY ProvisioningParts DEF PutSecret
<1>2. PICK n : n = NextName(t)
  OBVIOUS
<1>3. PICK s : s = tool[t].submitted
  OBVIOUS
<1>4. PICK k : k = tool[t].key
  OBVIOUS
<1>5. /\ InOrder(s) /\ Len(s) < Len(Order) /\ tool[t].touched = Range(s) /\ k \in Usable /\ tool[t].report = "none"
      /\ tool[t].alone => \A i \in 1 .. Len(s) : secrets[Order[i]] = k
  BY <1>1, <1>3, <1>4 DEF ToolInv
<1>6. /\ n \in Names /\ InOrder(Append(s, n)) /\ Len(Append(s, n)) = Len(s) + 1
      /\ Range(Append(s, n)) = Range(s) \union {n} /\ \A i \in 1 .. Len(s) : Order[i] # n
  BY <1>2, <1>3, <1>5, NextIsName
<1>7. s \in Seq(Names) /\ Append(s, n) \in Seq(Names) /\ Len(s) \in Nat /\ Len(s) < 3 /\ Len(Order) = 3
  BY <1>5, <1>6, OrderIsThree DEF InOrder
<1>8. secrets' = IF applied THEN [secrets EXCEPT ![n] = k] ELSE secrets
  BY <1>2, <1>4 DEF PutSecret
<1>9. SecretsOK'
  <2>1. DOMAIN secrets = Names /\ \A m \in Names : secrets[m] \in Usable \union {NoKey}
    BY <1>1 DEF SecretsOK
  <2>2. DOMAIN secrets' = Names /\ \A m \in Names : secrets'[m] \in Usable \union {NoKey}
    BY <1>5, <1>8, <2>1
  <2> QED
    BY <2>2 DEF SecretsOK, Names, Range, Order, Usable
<1>10. PICK a : a = (tool[t].alone /\ \A u \in Tools \ {t} : tool[u].pc # "put")
  OBVIOUS
<1>11. a \in BOOLEAN /\ (a => tool[t].alone)
  BY <1>1, <1>10 DEF Tool
<1>12. PICK touch : touch = IF applied THEN Range(s) \union {n} ELSE Range(s)
  OBVIOUS
<1>13. Range(s) \subseteq Names
  BY <1>7 DEF Range
<1>14. touch \in SUBSET Names
  BY <1>6, <1>12, <1>13
<1>15. CASE exit # "zero"
  <2>1. PICK p : p = [tool[t] EXCEPT !.touched = touch, !.stopped = n, !.alone = a, !.pc = "done", !.report = "stopped"]
    OBVIOUS
  <2>2. /\ p \in Tool /\ p.pc = "done" /\ p.report = "stopped" /\ p.submitted = s /\ p.touched = touch /\ p.stopped = n
    BY <1>1, <1>3, <1>6, <1>11, <1>14, <2>1 DEF Tool
  <2>3. tool' = [Overlapping(t) EXCEPT ![t] = p]
    BY <1>2, <1>3, <1>5, <1>10, <1>12, <1>15, <2>1 DEF PutSecret, Spawned
  <2>4. tool'[t] = p
    BY <2>3 DEF Overlapping
  <2>5. ToolInv(t)'
    BY <1>5, <1>12, <2>2, <2>4 DEF ToolInv, InOrder, Names, Order, Range
  <2> QED
    BY <1>1, <1>9, <2>2, <2>3, <2>5, PutStep
<1>16. CASE exit = "zero"
  <2>1. applied /\ touch = Range(s) \union {n} /\ secrets' = [secrets EXCEPT ![n] = k]
    BY <1>8, <1>12, <1>16 DEF PutSecret
  <2>2. PICK s1 : s1 = Append(s, n)
    OBVIOUS
  <2>3. /\ s1 \in Seq(Names) /\ InOrder(s1) /\ Len(s1) = Len(s) + 1 /\ Range(s1) = touch
    BY <1>6, <1>7, <2>1, <2>2
  <2>4. PICK q : q = [tool[t] EXCEPT !.touched = touch, !.submitted = s1, !.stopped = "none", !.alone = a]
    OBVIOUS
  <2>5. /\ q \in Tool /\ q.pc = "put" /\ q.report = "none" /\ q.submitted = s1 /\ q.touched = touch /\ q.key = k
        /\ q.alone = a
    BY <1>1, <1>4, <1>5, <1>11, <1>14, <2>3, <2>4 DEF Tool
  <2>6. a => \A i \in 1 .. Len(s) + 1 : secrets'[Order[i]] = k
    <3>1. DOMAIN secrets = Names
      BY <1>1 DEF SecretsOK
    <3>2. \A i \in 1 .. Len(s) + 1 : i \in 1 .. Len(s) \/ i = Len(s) + 1
      BY <1>7
    <3>3. Order[Len(s) + 1] = n
      BY <1>2, <1>3 DEF NextName
    <3>4. \A i \in 1 .. Len(s) : i \in 1 .. 3
      BY <1>7
    <3>5. \A i \in 1 .. 3 : Order[i] \in Names
      BY OrderIsThree
    <3>6. secrets'[n] = k /\ \A m \in Names : m # n => secrets'[m] = secrets[m]
      BY <1>6, <2>1, <3>1
    <3>7. ASSUME a, NEW i \in 1 .. Len(s)
          PROVE  secrets'[Order[i]] = k
      <4>1. Order[i] \in Names /\ Order[i] # n /\ secrets[Order[i]] = k
        BY <1>5, <1>6, <1>11, <3>4, <3>5, <3>7
      <4> QED
        BY <3>6, <4>1
    <3> QED
      BY <3>2, <3>3, <3>6, <3>7
  <2>7. tool' = [Overlapping(t) EXCEPT ![t] = IF Len(s1) = Len(Order) THEN [q EXCEPT !.pc = "done", !.report = "complete"]
                                              ELSE q]
    <3>1. q = [tool[t] EXCEPT !.touched = IF applied THEN @ \union {NextName(t)} ELSE @,
                              !.submitted = IF exit = "zero" THEN Append(@, NextName(t)) ELSE @,
                              !.stopped = IF exit = "zero" THEN "none" ELSE NextName(t),
                              !.alone = @ /\ \A u \in Tools \ {t} : tool[u].pc # "put"]
      BY <1>2, <1>3, <1>5, <1>10, <1>16, <2>1, <2>2, <2>4
    <3>2. Spawned(t, applied, exit)
      BY DEF PutSecret
    <3> QED
      BY <1>16, <2>5, <3>1, <3>2 DEF Spawned
  <2>8. CASE Len(s1) = Len(Order)
    <3>1. PICK p : p = [q EXCEPT !.pc = "done", !.report = "complete"]
      OBVIOUS
    <3>2. /\ p \in Tool /\ p.pc = "done" /\ p.report = "complete" /\ p.submitted = s1 /\ p.touched = touch
          /\ p.key = k /\ p.alone = a
      BY <2>5, <3>1 DEF Tool
    <3>3. tool' = [Overlapping(t) EXCEPT ![t] = p]
      BY <2>7, <2>8, <3>1
    <3>4. tool'[t] = p
      BY <3>3 DEF Overlapping
    <3>5. Len(s) + 1 = 3
      BY <1>7, <2>3, <2>8
    <3>6. a => \A m \in Names : secrets'[m] = k
      BY <2>6, <3>5, OrderCovers
    <3>7. ToolInv(t)'
      BY <2>3, <3>2, <3>4, <3>6 DEF ToolInv, InOrder, Names, Order, Range
    <3> QED
      BY <1>1, <1>9, <3>2, <3>3, <3>7, PutStep
  <2>9. CASE Len(s1) # Len(Order)
    <3>1. tool' = [Overlapping(t) EXCEPT ![t] = q]
      BY <2>7, <2>9
    <3>2. tool'[t] = q
      BY <3>1 DEF Overlapping
    <3>3. Len(s1) < Len(Order)
      BY <1>7, <2>3, <2>9
    <3>4. a => \A i \in 1 .. Len(s1) : secrets'[Order[i]] = k
      BY <2>3, <2>6
    <3>5. ToolInv(t)'
      BY <1>5, <2>3, <2>5, <3>2, <3>3, <3>4 DEF ToolInv, InOrder, Names, Order, Range, Usable
    <3> QED
      BY <1>1, <1>9, <2>5, <3>1, <3>5, PutStep
  <2> QED
    BY <2>8, <2>9
<1> QED
  BY <1>15, <1>16

LEMMA ProvisioningInitially == ProvisioningInit => ProvisioningInv
<1> SUFFICES ASSUME ProvisioningInit
             PROVE  ProvisioningInv
  OBVIOUS
<1>1. tool \in [Tools -> Tool] /\ \A t \in Tools : tool[t] = IdleTool
  BY IdleReports DEF ProvisioningInit
<1>2. FilesOK /\ SecretsOK
  BY DEF ProvisioningInit, FilesOK, SecretsOK, CustodyIsOneKey
<1>3. OneGeneration /\ \A t \in Tools : ToolInv(t)
  <2>1. InOrder(<<>>) /\ Range(<<>>) = {}
    BY DEF InOrder, Range, Order
  <2> QED
    BY <1>1, <2>1, IdleReports DEF OneGeneration, ToolInv
<1> QED
  BY <1>1, <1>2, <1>3, ProvisioningParts

LEMMA ProvisioningInvStays == ProvisioningInv /\ [ProvisioningNext]_provisioning => ProvisioningInv'
<1> SUFFICES ASSUME ProvisioningInv, [ProvisioningNext]_provisioning
             PROVE  ProvisioningInv'
  OBVIOUS
<1>1. CASE ProvisioningNext
  BY <1>1, GenerateKeyStep, CreateKeyFileStep, WriteRecordStep, DeriveStep, StopsStep, KilledStep, AgainStep,
     PutSecretStep, OutsideStep DEF ProvisioningNext
<1>2. CASE UNCHANGED provisioning
  <2>1. UNCHANGED <<tool, secrets, custody>>
    BY <1>2 DEF provisioning
  <2>2. /\ tool \in [Tools -> Tool] /\ FilesOK /\ SecretsOK /\ OneGeneration
        /\ \A u \in Tools : ToolInv(u)
    BY ProvisioningParts
  <2>3. \A u \in Tools : ToolInv(u)'
    BY <2>1, <2>2, ToolStays
  <2>4. FilesOK' /\ SecretsOK' /\ OneGeneration' /\ tool' \in [Tools -> Tool]
    BY <2>1, <2>2 DEF FilesOK, CustodyIsOneKey, SecretsOK, OneGeneration, Names, Range, Order, Usable
  <2> QED
    BY <2>3, <2>4, ProvisioningPartsNext
<1> QED
  BY <1>1, <1>2

LEMMA ProvisioningInvImplies == ProvisioningInv => ProvisioningIsSafe
<1> SUFFICES ASSUME ProvisioningInv
             PROVE  ProvisioningIsSafe
  OBVIOUS
<1>1. ReportsAreHonest /\ CompleteIsProvisioned /\ CustodyIsOneKey
  BY DEF ProvisioningInv, GenerationInv
<1>2. SignerIsOneKey
  <2>1. "private" \in Names
    BY OrderIsThree
  <2> QED
    BY <2>1 DEF ProvisioningInv, SubmissionInv, SignerIsOneKey, AuthoritySigns, present, Usable
<1> QED
  BY <1>1, <1>2 DEF ProvisioningIsSafe

(***************************************************************************)
(* However two invocations of the custody tool and the secret engine       *)
(* overlap, are killed or fail halfway, the signer that gets ready holds   *)
(* one reviewed key, every report tells what was touched, and a completed  *)
(* undisturbed submission provisioned its key                              *)
(* (staging-attestation-secret-engine.ts:276-306 submit,                   *)
(* staging-attestation-key.ts:113-152 generate).                           *)
(***************************************************************************)
THEOREM ProvisioningStaysSafe == ProvisioningSpec => []ProvisioningIsSafe
<1>1. ProvisioningSpec => []ProvisioningInv
  BY ProvisioningInitially, ProvisioningInvStays, PTL DEF ProvisioningSpec
<1> QED
  BY <1>1, ProvisioningInvImplies, PTL
=============================================================================
