---------------------------- MODULE OutboxProofs ----------------------------
(***************************************************************************)
(* Proofs about the notification outbox, for any rows, workers, batch      *)
(* size, lease, retry policy and bounds.  One lemma per action shows that  *)
(* it preserves IInv; the safety properties follow from IInv.              *)
(***************************************************************************)
EXTENDS Outbox, TLAPS

\* A new row is neither locked nor held by anybody.
LEMMA EnqueueStep ==
  ASSUME IInv, NEW r0 \in Rows, Enqueue(r0)
  PROVE  IInv'
<1> USE RowsAssumption, OptionsAssumption, BoundsAssumption DEF IInv
<1>1. TypeOK'
  BY DEF TypeOK, Statuses, Stages, NoLease, Outcomes, Enqueue, worker, outside
<1>2. StageInv'
  BY DEF StageInv, TypeOK, Stages, Enqueue, worker, outside
<1>3. ClaimInv'
  BY DEF ClaimInv, Eligible, StageInv, TypeOK, Enqueue, worker, outside
<1>4. JobInv'
  BY DEF JobInv, Holds, StageInv, TypeOK, CallsAreCounted, Enqueue, worker, outside
<1>5. ResultInv'
  BY DEF ResultInv, StageInv, TypeOK, Outcomes, Enqueue, worker, outside
<1>6. CallsAreCounted'
  BY DEF CallsAreCounted, TypeOK, JobInv, Holds, Enqueue, worker, outside
<1>7. SentWasAccepted'
  BY DEF SentWasAccepted, TypeOK, ResultInv, StageInv, Enqueue, worker, outside
<1> QED
  BY <1>1, <1>2, <1>3, <1>4, <1>5, <1>6, <1>7 DEF IInv

\* An invocation that starts holds nothing and has read the clock.
LEMMA StartStep ==
  ASSUME IInv, NEW w0 \in Workers, Start(w0)
  PROVE  IInv'
<1> USE RowsAssumption, OptionsAssumption, BoundsAssumption DEF IInv
<1>1. TypeOK'
  BY DEF TypeOK, Statuses, Stages, NoLease, Outcomes, Start, table, outside
<1>2. StageInv'
  BY DEF StageInv, TypeOK, Stages, Start, table, outside
<1>3. ClaimInv'
  BY DEF ClaimInv, Eligible, StageInv, TypeOK, Start, table, outside
<1>4. JobInv'
  BY DEF JobInv, Holds, StageInv, TypeOK, CallsAreCounted, Start, table, outside
<1>5. ResultInv'
  BY DEF ResultInv, StageInv, TypeOK, Outcomes, Start, table, outside
<1>6. CallsAreCounted'
  BY DEF CallsAreCounted, TypeOK, JobInv, Holds, Start, table, outside
<1>7. SentWasAccepted'
  BY DEF SentWasAccepted, TypeOK, ResultInv, StageInv, Start, table, outside
<1> QED
  BY <1>1, <1>2, <1>3, <1>4, <1>5, <1>6, <1>7 DEF IInv

\* The candidates are eligible and no other open claim locks them.
LEMMA SelectCandidatesStep ==
  ASSUME IInv, NEW w0 \in Workers, SelectCandidates(w0)
  PROVE  IInv'
<1> USE RowsAssumption, OptionsAssumption, BoundsAssumption DEF IInv
<1>a. PICK C \in SUBSET Rows :
          /\ IsCandidateSet(C, now[w0])
          /\ batch' = [batch EXCEPT ![w0] = C]
          /\ pc' = [pc EXCEPT ![w0] = IF C = {} THEN "idle" ELSE "claiming"]
          /\ now' = IF C = {} THEN [now EXCEPT ![w0] = 0] ELSE now
  BY DEF SelectCandidates
<1>b. /\ pc[w0] = "started"
      /\ UNCHANGED <<clock, table, jobAttempts, current, result, outside,
                     late, crashes>>
  BY DEF SelectCandidates
<1>c. \A r \in C : Eligible(r, now[w0]) /\ ~RowLocked(r)
  BY <1>a DEF IsCandidateSet
<1>1. TypeOK'
  BY <1>a, <1>b DEF TypeOK, Statuses, Stages, NoLease, Outcomes, table, outside
<1>2. StageInv'
  <2> SUFFICES ASSUME NEW w \in Workers
               PROVE  /\ pc'[w] \in {"idle", "started"} => batch'[w] = {}
                      /\ pc'[w] # "recording" => current'[w] = {}
                      /\ pc'[w] = "recording" => \E r \in batch'[w] : current'[w] = {r}
                      /\ now'[w] <= clock'
    BY DEF StageInv
  <2>1. /\ pc[w] \in {"idle", "started"} => batch[w] = {}
        /\ pc[w] # "recording" => current[w] = {}
        /\ pc[w] = "recording" => \E r \in batch[w] : current[w] = {r}
        /\ now[w] <= clock /\ clock \in Nat /\ 0 <= clock
    BY DEF StageInv, TypeOK
  <2>2. CASE w = w0
    BY <1>a, <1>b, <2>1, <2>2 DEF TypeOK
  <2>3. CASE w # w0
    BY <1>a, <1>b, <2>1, <2>3 DEF TypeOK
  <2> QED
    BY <2>2, <2>3
<1>3. ClaimInv'
  <2> SUFFICES ASSUME NEW w \in Workers, NEW r \in batch'[w], pc'[w] = "claiming"
               PROVE  /\ Eligible(r, now[w])'
                      /\ \A v \in Workers :
                            pc'[v] = "claiming" /\ r \in batch'[v] => v = w
    BY DEF ClaimInv
  <2>1. CASE w = w0
    <3>1. C # {} /\ r \in C /\ now' = now
      BY <1>a, <1>b, <2>1 DEF TypeOK
    <3> QED
      BY <1>a, <1>b, <1>c, <2>1, <3>1 DEF Eligible, RowLocked, TypeOK, table
  <2>2. CASE w # w0
    <3>1. pc[w] = "claiming" /\ r \in batch[w] /\ now'[w] = now[w]
      BY <1>a, <1>b, <2>2 DEF TypeOK
    <3>2. r \notin C
      BY <1>c, <3>1 DEF RowLocked
    <3> QED
      BY <1>a, <1>b, <2>2, <3>1, <3>2 DEF ClaimInv, Eligible, TypeOK, table
  <2> QED
    BY <2>1, <2>2
<1>4. JobInv'
  BY DEF JobInv, Holds, StageInv, TypeOK, CallsAreCounted, SelectCandidates, table, outside
<1>5. ResultInv'
  BY DEF ResultInv, StageInv, TypeOK, Outcomes, SelectCandidates, table, outside
<1>6. CallsAreCounted'
  BY DEF CallsAreCounted, TypeOK, JobInv, Holds, SelectCandidates, table, outside
<1>7. SentWasAccepted'
  BY DEF SentWasAccepted, TypeOK, ResultInv, StageInv, SelectCandidates, table, outside
<1> QED
  BY <1>1, <1>2, <1>3, <1>4, <1>5, <1>6, <1>7 DEF IInv

\* A claim hands out an attempt number above every earlier one.
LEMMA CommitClaimStep ==
  ASSUME IInv, NEW w0 \in Workers, CommitClaim(w0)
  PROVE  IInv'
<1> USE RowsAssumption, OptionsAssumption, BoundsAssumption DEF IInv
<1>1. TypeOK'
  <2>1. attempts' \in [Rows -> Nat] /\ status' \in [Rows -> Statuses]
    BY DEF TypeOK, CommitClaim, Statuses
  <2>2. lockedUntil' \in [Rows -> Nat \union {NoLease}]
    BY DEF TypeOK, CommitClaim
  <2>3. jobAttempts' \in [Workers -> [Rows -> Nat]]
    <3>1. [r \in Rows |-> IF r \in batch[w0] THEN attempts[r] + 1 ELSE 0]
             \in [Rows -> Nat]
      BY DEF TypeOK
    <3> QED
      BY <3>1 DEF TypeOK, CommitClaim
  <2> QED
    BY <2>1, <2>2, <2>3 DEF TypeOK, CommitClaim, Stages, outside
<1>2. StageInv'
  BY DEF StageInv, TypeOK, Stages, CommitClaim, outside
<1>3. ClaimInv'
  BY DEF ClaimInv, Eligible, StageInv, TypeOK, CommitClaim, outside
<1>4. JobInv'
  <2> SUFFICES ASSUME NEW w \in Workers, NEW r \in Rows, Holds(w, r)'
               PROVE  /\ jobAttempts'[w][r] \in 1 .. attempts'[r]
                      /\ r \in current'[w] <=> <<r, jobAttempts'[w][r]>> \in called'
                      /\ \A v \in Workers :
                            Holds(v, r)' /\ jobAttempts'[v][r] = jobAttempts'[w][r]
                               => v = w
    BY DEF JobInv
  <2>1. /\ called' = called /\ current' = current /\ batch' = batch
        /\ attempts' = [x \in Rows |-> IF x \in batch[w0] THEN attempts[x] + 1
                                                       ELSE attempts[x]]
        /\ pc' = [pc EXCEPT ![w0] = "working"]
        /\ pc[w0] = "claiming" /\ current[w0] = {}
    BY DEF CommitClaim, outside, StageInv
  <2>2. \A v \in Workers : v # w0 =>
          /\ jobAttempts'[v] = jobAttempts[v]
          /\ Holds(v, r)' <=> Holds(v, r)
    BY <2>1 DEF CommitClaim, TypeOK, Holds
  <2>3. Holds(w0, r)' => /\ r \in batch[w0]
                         /\ jobAttempts'[w0][r] = attempts[r] + 1
                         /\ attempts'[r] = attempts[r] + 1
    BY <2>1 DEF CommitClaim, TypeOK, Holds
  <2>4. ASSUME NEW v \in Workers, Holds(v, r)
        PROVE  /\ jobAttempts[v][r] \in Nat /\ jobAttempts[v][r] >= 1
               /\ jobAttempts[v][r] <= attempts[r]
    <3>1. jobAttempts[v][r] \in 1 .. attempts[r]
      BY <2>4 DEF JobInv
    <3>2. attempts[r] \in Nat /\ jobAttempts[v][r] \in Nat
      BY DEF TypeOK
    <3> QED
      BY <3>1, <3>2
  <2>5. <<r, attempts[r] + 1>> \notin called
    BY DEF CallsAreCounted, TypeOK
  <2>6. attempts[r] \in Nat /\ attempts'[r] \in Nat /\ attempts[r] <= attempts'[r]
    BY <2>1 DEF TypeOK
  <2>7. CASE w = w0
    <3>1. jobAttempts'[w][r] = attempts[r] + 1 /\ attempts'[r] = attempts[r] + 1
      BY <2>3, <2>7
    <3>2. \A v \in Workers : v # w0 /\ Holds(v, r)' => jobAttempts'[v][r] <= attempts[r]
      BY <2>2, <2>4
    <3>3. \A v \in Workers : Holds(v, r)' /\ jobAttempts'[v][r] = attempts[r] + 1 => v = w
      BY <2>6, <2>7, <3>2
    <3> QED
      BY <2>1, <2>5, <2>6, <2>7, <3>1, <3>3
  <2>8. CASE w # w0
    <3>1. Holds(w, r) /\ jobAttempts'[w] = jobAttempts[w]
      BY <2>2, <2>8
    <3>2. jobAttempts[w][r] \in 1 .. attempts'[r]
      BY <2>4, <2>6, <3>1
    <3>3. ASSUME NEW v \in Workers, Holds(v, r)',
                 jobAttempts'[v][r] = jobAttempts[w][r]
          PROVE  v = w
      <4>1. v # w0
        BY <2>3, <2>4, <2>6, <3>1, <3>3
      <4> QED
        BY <2>2, <3>1, <3>3, <4>1 DEF JobInv
    <3> QED
      BY <2>1, <3>1, <3>2, <3>3 DEF JobInv
  <2> QED
    BY <2>7, <2>8
<1>5. ResultInv'
  BY DEF ResultInv, StageInv, TypeOK, Outcomes, CommitClaim, outside
<1>6. CallsAreCounted'
  <2>1. /\ called' = called
        /\ \A r \in Rows : /\ attempts'[r] = IF r \in batch[w0] THEN attempts[r] + 1
                                                              ELSE attempts[r]
                           /\ status'[r] = IF r \in batch[w0] THEN "processing"
                                                              ELSE status[r]
    BY DEF CommitClaim, outside
  <2>2. ASSUME NEW c \in called PROVE c[2] \in 1 .. attempts'[c[1]]
    <3>1. c[1] \in Rows /\ c[2] \in Nat
      BY DEF TypeOK
    <3>2. attempts[c[1]] \in Nat /\ c[2] \in 1 .. attempts[c[1]]
      BY <3>1 DEF CallsAreCounted, TypeOK
    <3> QED
      BY <2>1, <3>1, <3>2
  <2>3. ASSUME NEW r \in Rows
        PROVE  status'[r] \in {"absent", "pending"} <=> attempts'[r] = 0
    <3>1. attempts[r] \in Nat /\ (status[r] \in {"absent", "pending"} <=> attempts[r] = 0)
      BY DEF CallsAreCounted, TypeOK
    <3>2. CASE r \in batch[w0]
      <4>1. status'[r] = "processing" /\ attempts'[r] = attempts[r] + 1
        BY <2>1, <3>2
      <4> QED
        BY <3>1, <4>1
    <3>3. CASE r \notin batch[w0]
      <4>1. status'[r] = status[r] /\ attempts'[r] = attempts[r]
        BY <2>1, <3>3
      <4> QED
        BY <3>1, <4>1
    <3> QED
      BY <3>2, <3>3
  <2> QED
    BY <2>1, <2>2, <2>3 DEF CallsAreCounted
<1>7. SentWasAccepted'
  BY DEF SentWasAccepted, TypeOK, ResultInv, StageInv, CommitClaim, outside
<1> QED
  BY <1>1, <1>2, <1>3, <1>4, <1>5, <1>6, <1>7 DEF IInv

\* Whatever the provider answers, the adapter reports one of the outcomes, and
\* reports a delivery only of a message that was accepted.
LEMMA DeliveriesAreSound ==
  ASSUME NEW d \in Deliveries
  PROVE  d.outcome \in Outcomes /\ d.got \in BOOLEAN /\ (d.outcome = "delivered" => d.got)
<1>1. PICK reply \in Replies : d = [outcome |-> deliver(reply).outcome, got |-> reply.took]
  BY DEF Deliveries
<1>2. CASE reply.kind = "ok"
  BY <1>1, <1>2 DEF Replies, deliver, Failure, Outcomes
<1>3. CASE reply.kind = "error"
  <2>1. deliver(reply).outcome \in {"retryable_failure", "permanent_failure"}
    BY <1>3 DEF deliver, classifyProviderFailure, Failure
  <2> QED
    BY <1>1, <1>3, <2>1 DEF Replies, Outcomes
<1>4. CASE reply.kind = "thrown"
  <2>1. deliver(reply).outcome = "retryable_failure"
    BY <1>4 DEF deliver, classifyThrownFailure, Failure
  <2> QED
    BY <1>1, <1>4, <2>1 DEF Replies, Outcomes
<1> QED
  BY <1>2, <1>3, <1>4 DEF Replies

\* The adapter call is recorded under an attempt number of its own.
LEMMA DeliverStep ==
  ASSUME IInv, NEW w0 \in Workers, NEW r0 \in Rows, Deliver(w0, r0)
  PROVE  IInv'
<1> USE RowsAssumption, OptionsAssumption, BoundsAssumption DEF IInv
<1>d. PICK d \in Deliveries :
          /\ accepted' = IF d.got THEN accepted \union {r0} ELSE accepted
          /\ result' = [result EXCEPT ![w0] = d.outcome]
  BY DEF Deliver
<1>a. PICK o \in Outcomes, got \in BOOLEAN :
          /\ o = "delivered" => got
          /\ accepted' = IF got THEN accepted \union {r0} ELSE accepted
          /\ result' = [result EXCEPT ![w0] = o]
  BY <1>d, DeliveriesAreSound
<1>1. TypeOK'
  <2>1. jobAttempts[w0][r0] \in Nat
    BY DEF TypeOK
  <2>2. accepted' \in SUBSET Rows /\ result' \in [Workers -> Outcomes \union {"none"}]
    BY <1>a DEF TypeOK
  <2>3. called' \in SUBSET (Rows \X Nat)
    BY <2>1 DEF TypeOK, Deliver
  <2>4. pc' \in [Workers -> Stages] /\ current' \in [Workers -> SUBSET Rows]
    BY DEF TypeOK, Deliver, Stages
  <2> QED
    BY <2>2, <2>3, <2>4 DEF TypeOK, Deliver, table
<1>2. StageInv'
  BY DEF StageInv, TypeOK, Stages, Deliver, table
<1>3. ClaimInv'
  BY DEF ClaimInv, Eligible, StageInv, TypeOK, Deliver, table
<1>4. JobInv'
  <2> SUFFICES ASSUME NEW w \in Workers, NEW r \in Rows, Holds(w, r)'
               PROVE  /\ jobAttempts[w][r] \in 1 .. attempts[r]
                      /\ r \in current'[w] <=> <<r, jobAttempts[w][r]>> \in called'
                      /\ \A v \in Workers :
                            Holds(v, r)' /\ jobAttempts[v][r] = jobAttempts[w][r]
                               => v = w
    BY DEF JobInv, Deliver, table
  <2>1. \A v \in Workers : Holds(v, r)' <=> Holds(v, r)
    BY DEF Holds, Deliver, TypeOK
  <2>2. /\ called' = called \union {<<r0, jobAttempts[w0][r0]>>}
        /\ current' = [current EXCEPT ![w0] = {r0}]
        /\ current[w0] = {} /\ Holds(w0, r0)
    BY DEF Deliver, StageInv, Holds
  <2>3. /\ jobAttempts[w][r] \in 1 .. attempts[r]
        /\ r \in current[w] <=> <<r, jobAttempts[w][r]>> \in called
        /\ \A v \in Workers : Holds(v, r) /\ jobAttempts[v][r] = jobAttempts[w][r]
                                => v = w
    BY <2>1 DEF JobInv
  <2>4. <<r, jobAttempts[w][r]>> = <<r0, jobAttempts[w0][r0]>> => w = w0 /\ r = r0
    BY <2>2, <2>3
  <2>5. r \in current'[w] <=> r \in current[w] \/ (w = w0 /\ r = r0)
    BY <2>2 DEF TypeOK
  <2> QED
    BY <2>1, <2>2, <2>3, <2>4, <2>5
<1>5. ResultInv'
  BY <1>a DEF ResultInv, StageInv, TypeOK, Outcomes, Deliver, table
<1>6. CallsAreCounted'
  BY DEF CallsAreCounted, TypeOK, JobInv, Holds, Deliver, table
<1>7. SentWasAccepted'
  BY <1>a DEF SentWasAccepted, TypeOK, ResultInv, StageInv, Deliver, table
<1> QED
  BY <1>1, <1>2, <1>3, <1>4, <1>5, <1>6, <1>7 DEF IInv

\* Only the decided row changes, it is not locked, and it was attempted.
LEMMA MarkSentStep ==
  ASSUME IInv, NEW w0 \in Workers, NEW r0 \in Rows, MarkSent(w0, r0)
  PROVE  IInv'
<1> USE RowsAssumption, OptionsAssumption, BoundsAssumption DEF IInv
<1>a. /\ pc[w0] = "recording" /\ current[w0] = {r0} /\ r0 \in batch[w0]
      /\ ~RowLocked(r0)
      /\ jobAttempts[w0][r0] \in 1 .. attempts[r0]
  <2>1. pc[w0] = "recording" /\ r0 \in current[w0] /\ ~RowLocked(r0)
    BY DEF MarkSent
  <2>2. current[w0] = {r0} /\ r0 \in batch[w0]
    BY <2>1 DEF StageInv
  <2>3. Holds(w0, r0)
    BY <2>1, <2>2 DEF Holds
  <2> QED
    BY <2>1, <2>2, <2>3 DEF JobInv
<1>b. \A r \in Rows : r # r0 => /\ status'[r] = status[r]
                                /\ availableAt'[r] = availableAt[r]
                                /\ lockedUntil'[r] = lockedUntil[r]
  BY DEF MarkSent, TypeOK
<1>c. /\ attempts' = attempts
      /\ batch' = [batch EXCEPT ![w0] = @ \ {r0}]
      /\ jobAttempts' = [jobAttempts EXCEPT ![w0][r0] = 0]
      /\ current' = [current EXCEPT ![w0] = {}]
      /\ result' = [result EXCEPT ![w0] = "none"]
      /\ pc' = [pc EXCEPT ![w0] = IF batch[w0] = {r0} THEN "idle" ELSE "working"]
      /\ now' = IF batch[w0] = {r0} THEN [now EXCEPT ![w0] = 0] ELSE now
      /\ UNCHANGED <<clock, createdAt, accepted, called, late, crashes>>
  BY DEF MarkSent, NextJob, outside
<1>d. \/ status'[r0] = status[r0]
      \/ status[r0] = "processing" /\ status'[r0] \in {"sent", "failed", "retryable"}
  BY DEF MarkSent, OwnedLease, TypeOK
<1>1. TypeOK'
  <2>1. /\ status' \in [Rows -> Statuses]
        /\ lockedUntil' \in [Rows -> Nat \union {NoLease}]
    BY DEF MarkSent, TypeOK, Statuses
  <2>2. availableAt' \in [Rows -> Nat]
    BY DEF MarkSent, TypeOK
  <2>3. /\ jobAttempts' \in [Workers -> [Rows -> Nat]]
        /\ batch' \in [Workers -> SUBSET Rows]
        /\ current' \in [Workers -> SUBSET Rows]
        /\ result' \in [Workers -> Outcomes \union {"none"}]
    BY <1>c DEF TypeOK
  <2>4. pc' \in [Workers -> Stages] /\ now' \in [Workers -> Nat]
    BY <1>c DEF TypeOK, Stages
  <2> QED
    BY <1>c, <2>1, <2>2, <2>3, <2>4 DEF TypeOK
<1>2. StageInv'
  <2> SUFFICES ASSUME NEW w \in Workers
               PROVE  /\ pc'[w] \in {"idle", "started"} => batch'[w] = {}
                      /\ pc'[w] # "recording" => current'[w] = {}
                      /\ pc'[w] = "recording" => \E r \in batch'[w] : current'[w] = {r}
                      /\ now'[w] <= clock'
    BY DEF StageInv
  <2>1. /\ pc[w] \in {"idle", "started"} => batch[w] = {}
        /\ pc[w] # "recording" => current[w] = {}
        /\ pc[w] = "recording" => \E r \in batch[w] : current[w] = {r}
        /\ now[w] <= clock /\ clock \in Nat /\ 0 <= clock
    BY DEF StageInv, TypeOK
  <2>2. CASE w = w0
    BY <1>a, <1>c, <2>1, <2>2 DEF TypeOK
  <2>3. CASE w # w0
    BY <1>a, <1>c, <2>1, <2>3 DEF TypeOK
  <2> QED
    BY <2>2, <2>3
<1>3. ClaimInv'
  <2> SUFFICES ASSUME NEW w \in Workers, NEW r \in batch'[w], pc'[w] = "claiming"
               PROVE  /\ Eligible(r, now[w])'
                      /\ \A v \in Workers :
                            pc'[v] = "claiming" /\ r \in batch'[v] => v = w
    BY DEF ClaimInv
  <2>1. w # w0 /\ pc[w] = "claiming" /\ r \in batch[w] /\ now'[w] = now[w]
    BY <1>a, <1>c DEF TypeOK
  <2>2. r \in Rows /\ r # r0
    BY <1>a, <2>1 DEF RowLocked, TypeOK
  <2>3. Eligible(r, now[w])'
    BY <1>b, <2>1, <2>2 DEF ClaimInv, Eligible
  <2>4. ASSUME NEW v \in Workers, pc'[v] = "claiming", r \in batch'[v] PROVE v = w
    BY <1>c, <2>1, <2>4 DEF ClaimInv, TypeOK
  <2> QED
    BY <2>3, <2>4
<1>4. JobInv'
  <2> SUFFICES ASSUME NEW w \in Workers, NEW r \in Rows, Holds(w, r)'
               PROVE  /\ jobAttempts'[w][r] \in 1 .. attempts'[r]
                      /\ r \in current'[w] <=> <<r, jobAttempts'[w][r]>> \in called'
                      /\ \A v \in Workers :
                            Holds(v, r)' /\ jobAttempts'[v][r] = jobAttempts'[w][r]
                               => v = w
    BY DEF JobInv
  <2>1. \A v \in Workers : Holds(v, r)' =>
          /\ Holds(v, r)
          /\ jobAttempts'[v][r] = jobAttempts[v][r]
          /\ r \in current'[v] <=> r \in current[v]
    BY <1>a, <1>c DEF Holds, TypeOK
  <2> QED
    BY <1>c, <2>1 DEF JobInv
<1>5. ResultInv'
  BY <1>a, <1>c DEF ResultInv, StageInv, TypeOK, Outcomes
<1>6. CallsAreCounted'
  <2>1. attempts[r0] \in Nat \ {0}
    BY <1>a DEF TypeOK
  <2>2. \A r \in Rows : status'[r] \in {"absent", "pending"} <=> attempts'[r] = 0
    BY <1>b, <1>c, <1>d, <2>1 DEF CallsAreCounted
  <2> QED
    BY <1>c, <2>2 DEF CallsAreCounted
<1>7. SentWasAccepted'
  BY DEF SentWasAccepted, TypeOK, ResultInv, StageInv, MarkSent, NextJob, outside
<1> QED
  BY <1>1, <1>2, <1>3, <1>4, <1>5, <1>6, <1>7 DEF IInv

\* Only the decided row changes, it is not locked, and it was attempted.
LEMMA MarkFailureStep ==
  ASSUME IInv, NEW w0 \in Workers, NEW r0 \in Rows, MarkFailure(w0, r0)
  PROVE  IInv'
<1> USE RowsAssumption, OptionsAssumption, BoundsAssumption DEF IInv
<1>a. /\ pc[w0] = "recording" /\ current[w0] = {r0} /\ r0 \in batch[w0]
      /\ ~RowLocked(r0)
      /\ jobAttempts[w0][r0] \in 1 .. attempts[r0]
  <2>1. pc[w0] = "recording" /\ r0 \in current[w0] /\ ~RowLocked(r0)
    BY DEF MarkFailure
  <2>2. current[w0] = {r0} /\ r0 \in batch[w0]
    BY <2>1 DEF StageInv
  <2>3. Holds(w0, r0)
    BY <2>1, <2>2 DEF Holds
  <2> QED
    BY <2>1, <2>2, <2>3 DEF JobInv
<1>b. \A r \in Rows : r # r0 => /\ status'[r] = status[r]
                                /\ availableAt'[r] = availableAt[r]
                                /\ lockedUntil'[r] = lockedUntil[r]
  BY DEF MarkFailure, TypeOK
<1>c. /\ attempts' = attempts
      /\ batch' = [batch EXCEPT ![w0] = @ \ {r0}]
      /\ jobAttempts' = [jobAttempts EXCEPT ![w0][r0] = 0]
      /\ current' = [current EXCEPT ![w0] = {}]
      /\ result' = [result EXCEPT ![w0] = "none"]
      /\ pc' = [pc EXCEPT ![w0] = IF batch[w0] = {r0} THEN "idle" ELSE "working"]
      /\ now' = IF batch[w0] = {r0} THEN [now EXCEPT ![w0] = 0] ELSE now
      /\ UNCHANGED <<clock, createdAt, accepted, called, late, crashes>>
  BY DEF MarkFailure, NextJob, outside
<1>d. \/ status'[r0] = status[r0]
      \/ status[r0] = "processing" /\ status'[r0] \in {"sent", "failed", "retryable"}
  BY DEF MarkFailure, OwnedLease, TypeOK
<1>1. TypeOK'
  <2>1. /\ status' \in [Rows -> Statuses]
        /\ lockedUntil' \in [Rows -> Nat \union {NoLease}]
    BY DEF MarkFailure, TypeOK, Statuses
  <2>2. availableAt' \in [Rows -> Nat]
    <3>1. ASSUME HasAttemptsRemaining(w0, r0)
          PROVE  now[w0] + Delay[jobAttempts[w0][r0]] \in Nat
      BY <1>a, <3>1 DEF HasAttemptsRemaining, TypeOK
    <3> QED
      BY <3>1 DEF MarkFailure, TypeOK
  <2>3. /\ jobAttempts' \in [Workers -> [Rows -> Nat]]
        /\ batch' \in [Workers -> SUBSET Rows]
        /\ current' \in [Workers -> SUBSET Rows]
        /\ result' \in [Workers -> Outcomes \union {"none"}]
    BY <1>c DEF TypeOK
  <2>4. pc' \in [Workers -> Stages] /\ now' \in [Workers -> Nat]
    BY <1>c DEF TypeOK, Stages
  <2> QED
    BY <1>c, <2>1, <2>2, <2>3, <2>4 DEF TypeOK
<1>2. StageInv'
  <2> SUFFICES ASSUME NEW w \in Workers
               PROVE  /\ pc'[w] \in {"idle", "started"} => batch'[w] = {}
                      /\ pc'[w] # "recording" => current'[w] = {}
                      /\ pc'[w] = "recording" => \E r \in batch'[w] : current'[w] = {r}
                      /\ now'[w] <= clock'
    BY DEF StageInv
  <2>1. /\ pc[w] \in {"idle", "started"} => batch[w] = {}
        /\ pc[w] # "recording" => current[w] = {}
        /\ pc[w] = "recording" => \E r \in batch[w] : current[w] = {r}
        /\ now[w] <= clock /\ clock \in Nat /\ 0 <= clock
    BY DEF StageInv, TypeOK
  <2>2. CASE w = w0
    BY <1>a, <1>c, <2>1, <2>2 DEF TypeOK
  <2>3. CASE w # w0
    BY <1>a, <1>c, <2>1, <2>3 DEF TypeOK
  <2> QED
    BY <2>2, <2>3
<1>3. ClaimInv'
  <2> SUFFICES ASSUME NEW w \in Workers, NEW r \in batch'[w], pc'[w] = "claiming"
               PROVE  /\ Eligible(r, now[w])'
                      /\ \A v \in Workers :
                            pc'[v] = "claiming" /\ r \in batch'[v] => v = w
    BY DEF ClaimInv
  <2>1. w # w0 /\ pc[w] = "claiming" /\ r \in batch[w] /\ now'[w] = now[w]
    BY <1>a, <1>c DEF TypeOK
  <2>2. r \in Rows /\ r # r0
    BY <1>a, <2>1 DEF RowLocked, TypeOK
  <2>3. Eligible(r, now[w])'
    BY <1>b, <2>1, <2>2 DEF ClaimInv, Eligible
  <2>4. ASSUME NEW v \in Workers, pc'[v] = "claiming", r \in batch'[v] PROVE v = w
    BY <1>c, <2>1, <2>4 DEF ClaimInv, TypeOK
  <2> QED
    BY <2>3, <2>4
<1>4. JobInv'
  <2> SUFFICES ASSUME NEW w \in Workers, NEW r \in Rows, Holds(w, r)'
               PROVE  /\ jobAttempts'[w][r] \in 1 .. attempts'[r]
                      /\ r \in current'[w] <=> <<r, jobAttempts'[w][r]>> \in called'
                      /\ \A v \in Workers :
                            Holds(v, r)' /\ jobAttempts'[v][r] = jobAttempts'[w][r]
                               => v = w
    BY DEF JobInv
  <2>1. \A v \in Workers : Holds(v, r)' =>
          /\ Holds(v, r)
          /\ jobAttempts'[v][r] = jobAttempts[v][r]
          /\ r \in current'[v] <=> r \in current[v]
    BY <1>a, <1>c DEF Holds, TypeOK
  <2> QED
    BY <1>c, <2>1 DEF JobInv
<1>5. ResultInv'
  BY <1>a, <1>c DEF ResultInv, StageInv, TypeOK, Outcomes
<1>6. CallsAreCounted'
  <2>1. attempts[r0] \in Nat \ {0}
    BY <1>a DEF TypeOK
  <2>2. \A r \in Rows : status'[r] \in {"absent", "pending"} <=> attempts'[r] = 0
    BY <1>b, <1>c, <1>d, <2>1 DEF CallsAreCounted
  <2> QED
    BY <1>c, <2>2 DEF CallsAreCounted
<1>7. SentWasAccepted'
  BY DEF SentWasAccepted, TypeOK, ResultInv, StageInv, MarkFailure, NextJob, outside
<1> QED
  BY <1>1, <1>2, <1>3, <1>4, <1>5, <1>6, <1>7 DEF IInv

\* A killed invocation releases what it holds and changes no row.
LEMMA CrashStep ==
  ASSUME IInv, NEW w0 \in Workers, Crash(w0)
  PROVE  IInv'
<1> USE RowsAssumption, OptionsAssumption, BoundsAssumption DEF IInv
<1>1. TypeOK'
  BY DEF TypeOK, Statuses, Stages, NoLease, Outcomes, Crash, table, outside
<1>2. StageInv'
  BY DEF StageInv, TypeOK, Stages, Crash, table, outside
<1>3. ClaimInv'
  BY DEF ClaimInv, Eligible, StageInv, TypeOK, Crash, table, outside
<1>4. JobInv'
  BY DEF JobInv, Holds, StageInv, TypeOK, CallsAreCounted, Crash, table, outside
<1>5. ResultInv'
  BY DEF ResultInv, StageInv, TypeOK, Outcomes, Crash, table, outside
<1>6. CallsAreCounted'
  BY DEF CallsAreCounted, TypeOK, JobInv, Holds, Crash, table, outside
<1>7. SentWasAccepted'
  BY DEF SentWasAccepted, TypeOK, ResultInv, StageInv, Crash, table, outside
<1> QED
  BY <1>1, <1>2, <1>3, <1>4, <1>5, <1>6, <1>7 DEF IInv

\* Time passing changes no row and no worker.
LEMMA TickStep ==
  ASSUME IInv, Tick
  PROVE  IInv'
<1> USE RowsAssumption, OptionsAssumption, BoundsAssumption DEF IInv
<1>1. TypeOK'
  BY DEF TypeOK, Statuses, Stages, NoLease, Outcomes, Tick, table, worker, outside
<1>2. StageInv'
  BY DEF StageInv, TypeOK, Stages, Tick, table, worker, outside
<1>3. ClaimInv'
  BY DEF ClaimInv, Eligible, StageInv, TypeOK, Tick, table, worker, outside
<1>4. JobInv'
  BY DEF JobInv, Holds, StageInv, TypeOK, CallsAreCounted, Tick, table, worker, outside
<1>5. ResultInv'
  BY DEF ResultInv, StageInv, TypeOK, Outcomes, Tick, table, worker, outside
<1>6. CallsAreCounted'
  BY DEF CallsAreCounted, TypeOK, JobInv, Holds, Tick, table, worker, outside
<1>7. SentWasAccepted'
  BY DEF SentWasAccepted, TypeOK, ResultInv, StageInv, Tick, table, worker, outside
<1> QED
  BY <1>1, <1>2, <1>3, <1>4, <1>5, <1>6, <1>7 DEF IInv

\* The invariant holds in every reachable state.
THEOREM Invariance == Spec => []IInv
<1>1. Init => IInv
  BY RowsAssumption, OptionsAssumption, BoundsAssumption
     DEF Init, IInv, TypeOK, StageInv, ClaimInv, JobInv, ResultInv, Holds,
         CallsAreCounted, SentWasAccepted, Statuses, Stages, Outcomes, NoLease
<1>2. IInv /\ [Next]_vars => IInv'
  <2> SUFFICES ASSUME IInv, [Next]_vars PROVE IInv'
    OBVIOUS
  <2>1. CASE UNCHANGED vars
    BY <2>1 DEF vars, table, worker, outside, IInv, TypeOK, StageInv, ClaimInv,
                JobInv, ResultInv, Holds, Eligible, CallsAreCounted, SentWasAccepted
  <2>2. CASE Next
    BY <2>2, EnqueueStep, StartStep, SelectCandidatesStep, CommitClaimStep,
       DeliverStep, MarkSentStep, MarkFailureStep, CrashStep, TickStep
       DEF Next, WorkerStep
  <2> QED
    BY <2>1, <2>2
<1> QED
  BY <1>1, <1>2, PTL DEF Spec

\* Every variable keeps its type: columns, worker locals and bounds.
THEOREM TypeCorrect == Spec => []TypeOK
<1>1. IInv => TypeOK
  BY DEF IInv
<1> QED
  BY <1>1, Invariance, PTL

\* ownedLease() tells any two holders of a row apart, for any number of
\* workers, any lease and any interleaving of crashes and late results.
THEOREM LeasesAreExclusive == Spec => []LeaseExclusive
<1>1. IInv => LeaseExclusive
  BY DEF IInv, JobInv, LeaseExclusive, OwnedLease
<1> QED
  BY <1>1, Invariance, PTL

\* No interleaving records success for an e-mail the provider did not accept.
THEOREM NoFalseSuccess == Spec => []SentWasAccepted
<1>1. IInv => SentWasAccepted
  BY DEF IInv
<1> QED
  BY <1>1, Invariance, PTL

\* The attempts column covers every adapter call, and pending means untried.
THEOREM AttemptsCoverCalls == Spec => []CallsAreCounted
<1>1. IInv => CallsAreCounted
  BY DEF IInv
<1> QED
  BY <1>1, Invariance, PTL

\* sent and failed rows are never touched again, by claims or late results.
THEOREM TerminalRowsAreFinal == Spec => TerminalIsFinal
<1> DEFINE A == \A r \in Rows : status[r] \in Terminal =>
                  /\ status'[r] = status[r]
                  /\ attempts'[r] = attempts[r]
                  /\ availableAt'[r] = availableAt[r]
<1>1. IInv /\ [Next]_vars => [A]_vars
  <2> SUFFICES ASSUME IInv, Next PROVE A
    OBVIOUS
  <2> USE DEF Terminal
  <2>1. ASSUME NEW r \in Rows, Enqueue(r) PROVE A
    BY <2>1 DEF Enqueue, IInv, TypeOK
  <2>2. ASSUME NEW w \in Workers, CommitClaim(w) PROVE A
    <3>1. \A r \in batch[w] : r \in Rows /\ status[r] \notin Terminal
      BY <2>2 DEF CommitClaim, IInv, ClaimInv, Eligible, TypeOK
    <3> QED
      BY <2>2, <3>1 DEF CommitClaim
  <2>3. ASSUME NEW w \in Workers, NEW r \in Rows, MarkSent(w, r) PROVE A
    BY <2>3 DEF MarkSent, OwnedLease, IInv, TypeOK
  <2>4. ASSUME NEW w \in Workers, NEW r \in Rows, MarkFailure(w, r) PROVE A
    BY <2>4 DEF MarkFailure, OwnedLease, IInv, TypeOK
  <2>5. ASSUME UNCHANGED table PROVE A
    BY <2>5 DEF table
  <2> QED
    BY <2>1, <2>2, <2>3, <2>4, <2>5
       DEF Next, WorkerStep, Start, SelectCandidates, Deliver, Crash, Tick
<1> QED
  BY <1>1, Invariance, PTL DEF Spec, TerminalIsFinal

\* One attempt number makes one adapter call: calls are as many as attempts.
THEOREM AttemptsCallOnce == Spec => EachAttemptCallsOnce
<1> DEFINE A == \A w \in Workers : \A r \in Rows :
                  current[w] = {} /\ current'[w] = {r}
                      => <<r, jobAttempts[w][r]>> \notin called
<1>1. IInv /\ [Next]_vars => [A]_vars
  <2> SUFFICES ASSUME IInv, Next PROVE A
    OBVIOUS
  <2>1. ASSUME NEW w \in Workers, NEW r \in Rows, Deliver(w, r) PROVE A
    <3> SUFFICES ASSUME NEW v \in Workers, NEW s \in Rows,
                        current[v] = {}, current'[v] = {s}
                 PROVE  <<s, jobAttempts[v][s]>> \notin called
      OBVIOUS
    <3>1. v = w /\ s = r
      BY <2>1 DEF Deliver, IInv, TypeOK
    <3>2. Holds(w, r)
      BY <2>1 DEF Deliver, Holds
    <3> QED
      BY <3>1, <3>2 DEF IInv, JobInv
  <2>2. ASSUME \A w \in Workers : current'[w] = current[w] \/ current'[w] = {}
        PROVE  A
    BY <2>2
  <2>3. ASSUME NEW w \in Workers, NEW r \in Rows, NextJob(w, r)
        PROVE  \A v \in Workers : current'[v] = current[v] \/ current'[v] = {}
    BY <2>3 DEF NextJob, IInv, TypeOK
  <2>4. ASSUME NEW w \in Workers, Crash(w)
        PROVE  \A v \in Workers : current'[v] = current[v] \/ current'[v] = {}
    BY <2>4 DEF Crash, IInv, TypeOK
  <2>5. ASSUME UNCHANGED current PROVE A
    BY <2>5
  <2> QED
    BY <2>1, <2>2, <2>3, <2>4, <2>5
       DEF Next, WorkerStep, Enqueue, Start, SelectCandidates, CommitClaim,
           MarkSent, MarkFailure, Tick, worker
<1> QED
  BY <1>1, Invariance, PTL DEF Spec, EachAttemptCallsOnce

\* A row is decided only by the attempt that claimed it last.
THEOREM NewestAttemptDecides == Spec => OnlyNewestAttemptDecides
<1> DEFINE A == \A r \in Rows :
                  status[r] = "processing" /\ status'[r] # "processing"
                      => <<r, attempts[r]>> \in called
<1>1. IInv /\ [Next]_vars => [A]_vars
  <2> SUFFICES ASSUME IInv, Next PROVE A
    OBVIOUS
  <2>1. ASSUME NEW w \in Workers, NEW r \in Rows, pc[w] = "recording",
               r \in current[w], OwnedLease(w, r)
        PROVE  <<r, attempts[r]>> \in called
    <3>1. Holds(w, r)
      BY <2>1 DEF Holds, IInv, StageInv
    <3> QED
      BY <2>1, <3>1 DEF IInv, JobInv, OwnedLease
  <2>2. ASSUME NEW w \in Workers, NEW r \in Rows, MarkSent(w, r) PROVE A
    BY <2>1, <2>2 DEF MarkSent, IInv, TypeOK
  <2>3. ASSUME NEW w \in Workers, NEW r \in Rows, MarkFailure(w, r) PROVE A
    BY <2>1, <2>3 DEF MarkFailure, IInv, TypeOK
  <2>4. ASSUME NEW w \in Workers, CommitClaim(w) PROVE A
    BY <2>4 DEF CommitClaim, IInv, TypeOK
  <2>5. ASSUME NEW r \in Rows, Enqueue(r) PROVE A
    BY <2>5 DEF Enqueue, IInv, TypeOK
  <2>6. ASSUME UNCHANGED table PROVE A
    BY <2>6 DEF table
  <2> QED
    BY <2>2, <2>3, <2>4, <2>5, <2>6
       DEF Next, WorkerStep, Start, SelectCandidates, Deliver, Crash, Tick
<1> QED
  BY <1>1, Invariance, PTL DEF Spec, OnlyNewestAttemptDecides

\* A claim that replaces another one commits after that one's lease ended.
THEOREM LiveLeasesAreNotStolen == Spec => LiveLeaseNotStolen
<1> DEFINE A == \A r \in Rows :
                  status[r] = "processing" /\ attempts'[r] # attempts[r]
                      => lockedUntil[r] <= clock
<1>1. IInv /\ [Next]_vars => [A]_vars
  <2> SUFFICES ASSUME IInv, Next PROVE A
    OBVIOUS
  <2>1. ASSUME NEW w \in Workers, CommitClaim(w) PROVE A
    <3> SUFFICES ASSUME NEW r \in Rows, status[r] = "processing",
                        attempts'[r] # attempts[r]
                 PROVE  lockedUntil[r] <= clock
      OBVIOUS
    <3>1. pc[w] = "claiming" /\ r \in batch[w]
      BY <2>1 DEF CommitClaim, IInv, TypeOK
    <3>2. lockedUntil[r] <= now[w] /\ now[w] <= clock
      BY <3>1 DEF IInv, ClaimInv, Eligible, StageInv
    <3>3. lockedUntil[r] \in Int /\ now[w] \in Int /\ clock \in Int
      BY DEF IInv, TypeOK, NoLease
    <3> QED
      BY <3>2, <3>3
  <2>2. ASSUME UNCHANGED attempts PROVE A
    BY <2>2
  <2> QED
    BY <2>1, <2>2
       DEF Next, WorkerStep, Enqueue, Start, SelectCandidates, Deliver, MarkSent,
           MarkFailure, Crash, Tick, table
<1> QED
  BY <1>1, Invariance, PTL DEF Spec, LiveLeaseNotStolen

\* The claim/lease protocol implements NotificationPromise: every step is a
\* step of the promise or leaves what it talks about unchanged.
THEOREM OutboxKeepsPromise == Spec => KeepsPromise
<1>1. Init => Promise!Init
  BY DEF Init, Promise!Init, fate
<1>2. IInv /\ [Next]_vars => [Promise!Next]_(Promise!vars)
  <2> SUFFICES ASSUME IInv, [Next]_vars PROVE [Promise!Next]_(Promise!vars)
    OBVIOUS
  <2>t. /\ status \in [Rows -> Statuses]
        /\ accepted \subseteq Rows
    BY DEF IInv, TypeOK
  <2> USE DEF Promise!vars
  <2>1. ASSUME NEW r \in Rows, Enqueue(r) PROVE Promise!Queue(r)
    <3>1. fate[r] = "absent" /\ accepted' = accepted
      BY <2>1 DEF Enqueue, fate, outside
    <3>2. fate' = [fate EXCEPT ![r] = "queued"]
      BY <2>1, <2>t DEF Enqueue, fate
    <3> QED
      BY <3>1, <3>2 DEF Promise!Queue
  <2>2. ASSUME NEW w \in Workers, CommitClaim(w) PROVE UNCHANGED Promise!vars
    <3>1. \A r \in batch[w] : /\ r \in Rows
                              /\ status[r] \in {"pending", "retryable", "processing"}
      BY <2>2 DEF CommitClaim, IInv, ClaimInv, Eligible, TypeOK
    <3>2. fate' = fate
      BY <2>2, <3>1 DEF CommitClaim, fate
    <3> QED
      BY <2>2, <3>2 DEF CommitClaim, outside
  <2>3. ASSUME NEW w \in Workers, NEW r \in Rows, Deliver(w, r)
        PROVE  Promise!Accept(r) \/ UNCHANGED Promise!vars
    <3>1. Holds(w, r)
      BY <2>3 DEF Deliver, Holds
    <3>2. attempts[r] # 0
      <4>1. jobAttempts[w][r] \in 1 .. attempts[r]
        BY <3>1 DEF IInv, JobInv
      <4> QED
        BY <4>1
    <3>3. fate[r] # "absent"
      BY <3>2 DEF fate, IInv, CallsAreCounted
    <3>4. fate' = fate
      BY <2>3 DEF Deliver, table, fate
    <3> QED
      BY <2>3, <3>3, <3>4 DEF Deliver, Promise!Accept
  <2>4. ASSUME NEW w \in Workers, NEW r \in Rows, MarkSent(w, r)
        PROVE  Promise!Decide(r) \/ UNCHANGED Promise!vars
    <3>1. accepted' = accepted /\ r \in accepted
      BY <2>4 DEF MarkSent, NextJob, outside, IInv, ResultInv
    <3>2. CASE OwnedLease(w, r)
      <4>1. fate[r] = "queued"
        BY <3>2 DEF fate, OwnedLease
      <4>2. fate' = [fate EXCEPT ![r] = "sent"]
        BY <2>4, <3>2, <2>t DEF MarkSent, fate
      <4> QED
        BY <3>1, <4>1, <4>2 DEF Promise!Decide
    <3>3. CASE ~OwnedLease(w, r)
      BY <2>4, <3>1, <3>3 DEF MarkSent, fate
    <3> QED
      BY <3>2, <3>3
  <2>5. ASSUME NEW w \in Workers, NEW r \in Rows, MarkFailure(w, r)
        PROVE  Promise!Decide(r) \/ UNCHANGED Promise!vars
    <3>1. accepted' = accepted
      BY <2>5 DEF MarkFailure, NextJob, outside
    <3>2. CASE OwnedLease(w, r) /\ HasAttemptsRemaining(w, r)
      <4>1. status[r] = "processing" /\ status' = [status EXCEPT ![r] = "retryable"]
        BY <2>5, <3>2 DEF MarkFailure, OwnedLease
      <4>2. fate' = fate
        BY <4>1, <2>t DEF fate
      <4> QED
        BY <3>1, <4>2
    <3>3. CASE OwnedLease(w, r) /\ ~HasAttemptsRemaining(w, r)
      <4>1. status[r] = "processing" /\ status' = [status EXCEPT ![r] = "failed"]
        BY <2>5, <3>3 DEF MarkFailure, OwnedLease
      <4>2. fate[r] = "queued" /\ fate' = [fate EXCEPT ![r] = "failed"]
        BY <4>1, <2>t DEF fate
      <4> QED
        BY <3>1, <4>2 DEF Promise!Decide
    <3>4. CASE ~OwnedLease(w, r)
      BY <2>5, <3>1, <3>4 DEF MarkFailure, fate
    <3> QED
      BY <3>2, <3>3, <3>4
  <2>6. ASSUME UNCHANGED <<status, accepted>> PROVE UNCHANGED Promise!vars
    BY <2>6 DEF fate
  <2>7. CASE Next
    BY <2>1, <2>2, <2>3, <2>4, <2>5, <2>6, <2>7
       DEF Next, WorkerStep, Start, SelectCandidates, Crash, Tick, table, outside,
           Promise!Next
  <2>8. CASE UNCHANGED vars
    BY <2>6, <2>8 DEF vars, table, outside
  <2> QED
    BY <2>7, <2>8
<1> QED
  BY <1>1, <1>2, Invariance, PTL DEF Spec, KeepsPromise, Promise!Spec
-----------------------------------------------------------------------------
(* The retry budget.  BudgetInv is inductive relative to IInv: every attempt *)
(* beyond MaxAttempts is paid for by a late tick or by a killed worker.      *)

\* The numbers the budget is about.
LEMMA BudgetNumbers ==
  ASSUME IInv
  PROVE  /\ clock \in Nat /\ late \in Nat /\ crashes \in Nat
         /\ MaxAttempts \in Nat /\ MaxAttempts >= 1 /\ Lease \in Nat /\ Lease >= 1
         /\ Budget \in Nat
         /\ \A r \in Rows : attempts[r] \in Nat /\ availableAt[r] \in Nat /\ lockedUntil[r] \in Int
         /\ \A w \in Workers : now[w] \in Nat /\ Elapsed(w) \in Nat /\ now[w] <= clock
  BY OptionsAssumption, BoundsAssumption
     DEF IInv, TypeOK, StageInv, NoLease, Budget, Elapsed

\* A new row was never attempted, and only who reads the clock now can see it.
LEMMA EnqueueBudget ==
  ASSUME IInv, BudgetInv, NEW r0 \in Rows, Enqueue(r0)
  PROVE  BudgetInv'
<1> USE BudgetNumbers DEF BudgetInv
<1>1. /\ UNCHANGED <<clock, attempts, lockedUntil, pc, now, batch, jobAttempts, late, crashes>>
      /\ \A r \in Rows : r # r0 => status'[r] = status[r] /\ availableAt'[r] = availableAt[r]
      /\ status'[r0] = "pending" /\ availableAt'[r0] = clock
  BY DEF Enqueue, worker, IInv, TypeOK
<1>2. Budget' = Budget /\ \A w \in Workers : Elapsed(w)' = Elapsed(w)
  BY <1>1 DEF Budget, Elapsed
<1>3. ASSUME NEW w \in Workers, NEW r \in Rows, r # r0
      PROVE  /\ Pays(w, r) => Pays(w, r)'
             /\ Eligible(r, now[w])' <=> Eligible(r, now[w])
  BY <1>1, <1>2, <1>3 DEF Pays, Holds, OwnedLease, Eligible
<1>4. SpentInv'
  BY <1>1, <1>2, <1>3 DEF SpentInv
<1>5. LateInv'
  <2> SUFFICES ASSUME NEW w \in Workers, NEW r \in Rows
               PROVE  /\ Holds(w, r)' => Elapsed(w)' <= late'
                      /\ pc'[w] \in {"started", "claiming"} /\ Eligible(r, now[w])' =>
                            /\ Elapsed(w)' <= late'
                            /\ status'[r] = "processing" => attempts'[r] + Elapsed(w)' < Budget'
    BY DEF LateInv
  <2>1. CASE r = r0
    <3>1. Eligible(r, now[w])' => Elapsed(w) = 0
      BY <1>1, <2>1 DEF Eligible, Elapsed
    <3> QED
      BY <1>1, <1>2, <2>1, <3>1 DEF LateInv, Holds
  <2>2. CASE r # r0
    BY <1>1, <1>2, <1>3, <2>2 DEF LateInv, Holds
  <2> QED
    BY <2>1, <2>2
<1> QED
  BY <1>4, <1>5

\* A lease that has run out has cost at least one tick, so a worker that reads
\* the clock finds an attempt left in every row it may take over.
LEMMA StartBudget ==
  ASSUME IInv, BudgetInv, NEW w0 \in Workers, Start(w0)
  PROVE  BudgetInv'
<1> USE BudgetNumbers DEF BudgetInv
<1>1. /\ UNCHANGED <<clock, status, attempts, availableAt, lockedUntil, batch, jobAttempts,
                     late, crashes>>
      /\ pc[w0] = "idle" /\ pc'[w0] = "started" /\ now'[w0] = clock
      /\ \A w \in Workers : w # w0 => pc'[w] = pc[w] /\ now'[w] = now[w]
  BY DEF Start, table, IInv, TypeOK
<1>2. Budget' = Budget /\ Elapsed(w0)' = 0
      /\ \A w \in Workers : w # w0 => Elapsed(w)' = Elapsed(w)
  BY <1>1 DEF Budget, Elapsed
<1>3. ASSUME NEW w \in Workers, NEW r \in Rows
      PROVE  /\ Pays(w, r) => Pays(w, r)'
             /\ Holds(w, r)' => Holds(w, r) /\ w # w0
  BY <1>1, <1>2 DEF Pays, Holds, OwnedLease
<1>4. SpentInv'
  BY <1>1, <1>2, <1>3 DEF SpentInv
<1>5. ASSUME NEW r \in Rows, status[r] = "processing", lockedUntil[r] <= clock
      PROVE  attempts[r] < Budget
  <2>1. ASSUME NEW w \in Workers, Pays(w, r) PROVE attempts[r] < Budget
    BY <1>5, <2>1 DEF Pays, OwnedLease, Elapsed
  <2> QED
    BY <1>5, <2>1 DEF SpentInv
<1>6. LateInv'
  <2> SUFFICES ASSUME NEW w \in Workers, NEW r \in Rows
               PROVE  /\ Holds(w, r)' => Elapsed(w)' <= late'
                      /\ pc'[w] \in {"started", "claiming"} /\ Eligible(r, now[w])' =>
                            /\ Elapsed(w)' <= late'
                            /\ status'[r] = "processing" => attempts'[r] + Elapsed(w)' < Budget'
    BY DEF LateInv
  <2>1. CASE w = w0
    BY <1>1, <1>2, <1>3, <1>5, <2>1 DEF Eligible
  <2>2. CASE w # w0
    BY <1>1, <1>2, <1>3, <2>2 DEF LateInv, Eligible
  <2> QED
    BY <2>1, <2>2
<1> QED
  BY <1>4, <1>6

\* Choosing candidates changes no row and no clock of a worker that goes on.
LEMMA SelectBudget ==
  ASSUME IInv, BudgetInv, NEW w0 \in Workers, SelectCandidates(w0)
  PROVE  BudgetInv'
<1> USE BudgetNumbers DEF BudgetInv
<1>1. /\ UNCHANGED <<clock, status, attempts, availableAt, lockedUntil, jobAttempts,
                     late, crashes>>
      /\ pc[w0] = "started"
      /\ \A w \in Workers : w # w0 => /\ pc'[w] = pc[w] /\ now'[w] = now[w]
                                      /\ batch'[w] = batch[w]
      /\ pc'[w0] = "idle" \/ (pc'[w0] = "claiming" /\ now'[w0] = now[w0])
  BY DEF SelectCandidates, table, IInv, TypeOK
<1>2. Budget' = Budget
  BY <1>1 DEF Budget
<1>3. ASSUME NEW w \in Workers, NEW r \in Rows
      PROVE  /\ Pays(w, r) => Pays(w, r)'
             /\ Holds(w, r)' => Holds(w, r) /\ w # w0
             /\ w # w0 => Elapsed(w)' = Elapsed(w)
             /\ pc'[w] \in {"started", "claiming"} =>
                   pc[w] \in {"started", "claiming"} /\ now'[w] = now[w] /\ Elapsed(w)' = Elapsed(w)
  BY <1>1, <1>2 DEF Pays, Holds, OwnedLease, Elapsed
<1>4. SpentInv'
  BY <1>1, <1>2, <1>3 DEF SpentInv
<1>5. LateInv'
  BY <1>1, <1>2, <1>3 DEF LateInv, Eligible
<1> QED
  BY <1>4, <1>5
\* The claim costs the attempt that was left, and its worker pays for the next.
LEMMA ClaimBudget ==
  ASSUME IInv, BudgetInv, NEW w0 \in Workers, CommitClaim(w0)
  PROVE  BudgetInv'
<1> USE BudgetNumbers DEF BudgetInv
<1>1. /\ UNCHANGED <<clock, availableAt, now, batch, late, crashes>>
      /\ pc[w0] = "claiming" /\ pc'[w0] = "working" /\ batch[w0] \subseteq Rows
      /\ \A w \in Workers : w # w0 => pc'[w] = pc[w] /\ jobAttempts'[w] = jobAttempts[w]
      /\ \A r \in batch[w0] : /\ status'[r] = "processing" /\ attempts'[r] = attempts[r] + 1
                              /\ jobAttempts'[w0][r] = attempts[r] + 1
                              /\ lockedUntil'[r] = now[w0] + Lease
      /\ \A r \in Rows \ batch[w0] : /\ status'[r] = status[r] /\ attempts'[r] = attempts[r]
                                     /\ lockedUntil'[r] = lockedUntil[r]
  BY DEF CommitClaim, outside, IInv, TypeOK
<1>2. Budget' = Budget /\ \A w \in Workers : Elapsed(w)' = Elapsed(w)
  BY <1>1 DEF Budget, Elapsed
<1>3. ASSUME NEW r \in batch[w0]
      PROVE  attempts[r] + Elapsed(w0) < Budget /\ Elapsed(w0) <= late
  <2>1. r \in Rows /\ Eligible(r, now[w0])
    BY <1>1 DEF IInv, ClaimInv
  <2>2. status[r] \in {"pending", "retryable", "processing"} /\ Elapsed(w0) <= late
    BY <1>1, <2>1 DEF LateInv, Eligible
  <2>3. CASE status[r] = "pending"
    BY <2>1, <2>2, <2>3 DEF IInv, CallsAreCounted, Budget
  <2>4. CASE status[r] = "retryable"
    BY <2>1, <2>2, <2>4 DEF SpentInv, Budget
  <2>5. CASE status[r] = "processing"
    BY <1>1, <2>1, <2>5 DEF LateInv
  <2> QED
    BY <2>2, <2>3, <2>4, <2>5
<1>4. ASSUME NEW r \in Rows \ batch[w0], NEW w \in Workers, Pays(w, r)
      PROVE  Pays(w, r)'
  BY <1>1, <1>2, <1>4 DEF Pays, Holds, OwnedLease
<1>5. ASSUME NEW r \in batch[w0]
      PROVE  Pays(w0, r)'
  BY <1>1, <1>2, <1>3, <1>5 DEF Pays, Holds, OwnedLease
<1>6. SpentInv'
  <2> SUFFICES ASSUME NEW r \in Rows
               PROVE  /\ attempts'[r] <= Budget'
                      /\ status'[r] = "retryable" => attempts'[r] < MaxAttempts
                      /\ status'[r] = "processing" =>
                            attempts'[r] < Budget' \/ \E w \in Workers : Pays(w, r)'
    BY DEF SpentInv
  <2>1. CASE r \in batch[w0]
    BY <1>1, <1>2, <1>3, <1>5, <2>1
  <2>2. CASE r \notin batch[w0]
    BY <1>1, <1>2, <1>4, <2>2 DEF SpentInv
  <2> QED
    BY <2>1, <2>2
<1>7. LateInv'
  <2> SUFFICES ASSUME NEW w \in Workers, NEW r \in Rows
               PROVE  /\ Holds(w, r)' => Elapsed(w)' <= late'
                      /\ pc'[w] \in {"started", "claiming"} /\ Eligible(r, now[w])' =>
                            /\ Elapsed(w)' <= late'
                            /\ status'[r] = "processing" => attempts'[r] + Elapsed(w)' < Budget'
    BY DEF LateInv
  <2>1. Holds(w, r)' => Elapsed(w)' <= late'
    BY <1>1, <1>2, <1>3 DEF LateInv, Holds
  <2>2. CASE r \in batch[w0]
    <3>1. Eligible(r, now[w])' => Elapsed(w) < Elapsed(w0)
      BY <1>1, <2>2 DEF Eligible, Elapsed
    <3> QED
      BY <1>1, <1>2, <1>3, <2>1, <2>2, <3>1
  <2>3. CASE r \notin batch[w0]
    <3>1. Eligible(r, now[w])' <=> Eligible(r, now[w])
      BY <1>1, <2>3 DEF Eligible
    <3> QED
      BY <1>1, <1>2, <2>1, <2>3, <3>1 DEF LateInv
  <2> QED
    BY <2>2, <2>3
<1> QED
  BY <1>6, <1>7

\* A call changes neither rows nor clocks nor who holds what.
LEMMA DeliverBudget ==
  ASSUME IInv, BudgetInv, NEW w0 \in Workers, NEW r0 \in Rows, Deliver(w0, r0)
  PROVE  BudgetInv'
<1> USE BudgetNumbers DEF BudgetInv
<1>1. /\ UNCHANGED <<clock, status, attempts, availableAt, lockedUntil, now, batch,
                     jobAttempts, late, crashes>>
      /\ pc[w0] = "working" /\ pc'[w0] = "recording"
      /\ \A w \in Workers : w # w0 => pc'[w] = pc[w]
  BY DEF Deliver, table, IInv, TypeOK
<1>2. Budget' = Budget /\ \A w \in Workers : Elapsed(w)' = Elapsed(w)
  BY <1>1 DEF Budget, Elapsed
<1>3. ASSUME NEW w \in Workers, NEW r \in Rows
      PROVE  /\ Holds(w, r)' <=> Holds(w, r)
             /\ Pays(w, r) => Pays(w, r)'
             /\ pc'[w] \in {"started", "claiming"} => pc[w] = pc'[w]
  BY <1>1, <1>2 DEF Pays, Holds, OwnedLease
<1>4. SpentInv'
  BY <1>1, <1>2, <1>3 DEF SpentInv
<1>5. LateInv'
  BY <1>1, <1>2, <1>3 DEF LateInv, Eligible
<1> QED
  BY <1>4, <1>5

\* What recording a result leaves: the worker drops the row, and only a worker
\* whose claim was the newest changes it.
LEMMA RecordBudget ==
  ASSUME IInv, BudgetInv, NEW w0 \in Workers, NEW r0 \in Rows,
         pc[w0] = "recording", r0 \in current[w0], NextJob(w0, r0), UNCHANGED attempts,
         \A r \in Rows : r # r0 => /\ status'[r] = status[r] /\ lockedUntil'[r] = lockedUntil[r]
                                   /\ availableAt'[r] = availableAt[r],
         \/ ~OwnedLease(w0, r0) /\ UNCHANGED <<status, lockedUntil, availableAt>>
         \/ status'[r0] \in Terminal
         \/ /\ status'[r0] = "retryable" /\ attempts[r0] < MaxAttempts
            /\ availableAt'[r0] \in Nat /\ availableAt'[r0] >= now[w0]
  PROVE  BudgetInv'
<1> USE BudgetNumbers DEF BudgetInv
<1>1. /\ UNCHANGED <<clock, late, crashes>>
      /\ \A w \in Workers : w # w0 => /\ pc'[w] = pc[w] /\ now'[w] = now[w]
                                      /\ batch'[w] = batch[w] /\ jobAttempts'[w] = jobAttempts[w]
      /\ batch'[w0] = batch[w0] \ {r0}
      /\ \A r \in Rows : r # r0 => jobAttempts'[w0][r] = jobAttempts[w0][r]
      /\ pc'[w0] = IF batch[w0] = {r0} THEN "idle" ELSE "working"
      /\ batch[w0] # {r0} => now'[w0] = now[w0]
  BY DEF NextJob, outside, IInv, TypeOK
<1>2. /\ Budget' = Budget /\ \A w \in Workers : w # w0 => Elapsed(w)' = Elapsed(w)
      /\ Holds(w0, r0) /\ Elapsed(w0) <= late
  <2>1. Holds(w0, r0)
    BY DEF Holds, IInv, StageInv
  <2> QED
    BY <1>1, <2>1 DEF Budget, Elapsed, LateInv
<1>3. ASSUME NEW w \in Workers, NEW r \in Rows, Holds(w, r)'
      PROVE  Holds(w, r) /\ Elapsed(w)' = Elapsed(w)
  BY <1>1, <1>3 DEF Holds, Elapsed
<1>4. ASSUME NEW w \in Workers, NEW r \in Rows, Pays(w, r),
             r # r0 \/ (UNCHANGED <<status, lockedUntil>> /\ w # w0)
      PROVE  Pays(w, r)'
  <2>1. CASE w # w0
    BY <1>1, <1>2, <1>4, <2>1 DEF Pays, Holds, OwnedLease
  <2>2. CASE w = w0
    <3>1. r \in batch[w0] /\ r # r0 /\ batch[w0] # {r0}
      BY <1>4, <2>2 DEF Pays, Holds
    <3> QED
      BY <1>1, <1>2, <1>4, <2>2, <3>1 DEF Pays, Holds, OwnedLease, Elapsed
  <2> QED
    BY <2>1, <2>2
<1>5. SpentInv'
  <2> SUFFICES ASSUME NEW r \in Rows
               PROVE  /\ attempts'[r] <= Budget'
                      /\ status'[r] = "retryable" => attempts'[r] < MaxAttempts
                      /\ status'[r] = "processing" =>
                            attempts'[r] < Budget' \/ \E w \in Workers : Pays(w, r)'
    BY DEF SpentInv
  <2>1. CASE r # r0
    <3>1. \A w \in Workers : Pays(w, r) => Pays(w, r)'
      BY <1>4, <2>1
    <3>2. status'[r] = status[r] /\ attempts'[r] = attempts[r] /\ Budget' = Budget
      BY <1>2, <2>1
    <3> QED
      BY <3>1, <3>2 DEF SpentInv
  <2>2. CASE r = r0 /\ ~OwnedLease(w0, r0) /\ UNCHANGED <<status, lockedUntil, availableAt>>
    <3>1. \A w \in Workers : Pays(w, r) => Pays(w, r)'
      BY <1>4, <2>2 DEF Pays
    <3>2. status'[r] = status[r] /\ attempts'[r] = attempts[r] /\ Budget' = Budget
      BY <1>2, <2>2
    <3> QED
      BY <3>1, <3>2 DEF SpentInv
  <2>3. CASE r = r0 /\ status'[r0] \in Terminal
    BY <1>2, <2>3 DEF SpentInv, Terminal
  <2>4. CASE r = r0 /\ status'[r0] = "retryable" /\ attempts[r0] < MaxAttempts
    BY <1>2, <2>4 DEF SpentInv
  <2> QED
    BY <2>1, <2>2, <2>3, <2>4
<1>6. LateInv'
  <2> SUFFICES ASSUME NEW w \in Workers, NEW r \in Rows
               PROVE  /\ Holds(w, r)' => Elapsed(w)' <= late'
                      /\ pc'[w] \in {"started", "claiming"} /\ Eligible(r, now[w])' =>
                            /\ Elapsed(w)' <= late'
                            /\ status'[r] = "processing" => attempts'[r] + Elapsed(w)' < Budget'
    BY DEF LateInv
  <2>1. Holds(w, r)' => Elapsed(w)' <= late'
    BY <1>1, <1>3 DEF LateInv
  <2>2. pc'[w] \in {"started", "claiming"} => /\ w # w0 /\ pc[w] = pc'[w] /\ now'[w] = now[w]
                                              /\ Elapsed(w)' = Elapsed(w)
    BY <1>1, <1>2
  <2>3. CASE r # r0 \/ UNCHANGED <<status, lockedUntil, availableAt>>
    BY <1>1, <1>2, <2>1, <2>2, <2>3 DEF LateInv, Eligible
  <2>4. CASE r = r0 /\ status'[r0] \in Terminal
    BY <2>1, <2>4 DEF Eligible, Terminal
  <2>5. CASE r = r0 /\ status'[r0] = "retryable" /\ availableAt'[r0] \in Nat /\ availableAt'[r0] >= now[w0]
    <3>1. pc'[w] \in {"started", "claiming"} /\ Eligible(r, now[w])' => Elapsed(w) <= Elapsed(w0)
      BY <2>2, <2>5 DEF Eligible, Elapsed
    <3> QED
      BY <1>1, <1>2, <2>1, <2>2, <2>5, <3>1
  <2> QED
    BY <2>3, <2>4, <2>5
<1> QED
  BY <1>5, <1>6

\* A sent row costs nothing more; a stale result changes nothing.
LEMMA SentBudget ==
  ASSUME IInv, BudgetInv, NEW w0 \in Workers, NEW r0 \in Rows, MarkSent(w0, r0)
  PROVE  BudgetInv'
<1>1. /\ pc[w0] = "recording" /\ r0 \in current[w0] /\ NextJob(w0, r0) /\ UNCHANGED attempts
      /\ \A r \in Rows : r # r0 => /\ status'[r] = status[r] /\ lockedUntil'[r] = lockedUntil[r]
                                   /\ availableAt'[r] = availableAt[r]
  BY DEF MarkSent, IInv, TypeOK
<1>2. \/ ~OwnedLease(w0, r0) /\ UNCHANGED <<status, lockedUntil, availableAt>>
      \/ status'[r0] \in Terminal
  BY DEF MarkSent, IInv, TypeOK, Terminal
<1> QED
  BY <1>1, <1>2, RecordBudget

\* A failed attempt is retried only while attempts remain, and not before the
\* time its worker read the clock.
LEMMA FailureBudget ==
  ASSUME IInv, BudgetInv, NEW w0 \in Workers, NEW r0 \in Rows, MarkFailure(w0, r0)
  PROVE  BudgetInv'
<1>1. /\ pc[w0] = "recording" /\ r0 \in current[w0] /\ NextJob(w0, r0) /\ UNCHANGED attempts
      /\ \A r \in Rows : r # r0 => /\ status'[r] = status[r] /\ lockedUntil'[r] = lockedUntil[r]
                                   /\ availableAt'[r] = availableAt[r]
  BY DEF MarkFailure, IInv, TypeOK
<1>2. CASE OwnedLease(w0, r0) /\ HasAttemptsRemaining(w0, r0)
  <2>1. jobAttempts[w0][r0] \in 1 .. MaxAttempts /\ attempts[r0] < MaxAttempts
    <3>1. Holds(w0, r0)
      BY <1>1 DEF Holds, IInv, StageInv
    <3>2. jobAttempts[w0][r0] \in 1 .. attempts[r0] /\ attempts[r0] \in Nat
      BY <3>1 DEF IInv, JobInv, TypeOK
    <3> QED
      BY <1>2, <3>2, OptionsAssumption DEF OwnedLease, HasAttemptsRemaining
  <2>2. Delay[jobAttempts[w0][r0]] \in Nat
    BY <2>1, OptionsAssumption
  <2>3. status'[r0] = "retryable" /\ availableAt'[r0] = now[w0] + Delay[jobAttempts[w0][r0]]
    BY <1>2 DEF MarkFailure, IInv, TypeOK
  <2>4. now[w0] \in Nat
    BY BudgetNumbers
  <2>5. availableAt'[r0] \in Nat /\ availableAt'[r0] >= now[w0]
    BY <2>2, <2>3, <2>4
  <2> QED
    BY <1>1, <2>1, <2>3, <2>5, RecordBudget
<1>3. CASE OwnedLease(w0, r0) /\ ~HasAttemptsRemaining(w0, r0)
  <2>1. status'[r0] \in Terminal
    BY <1>3 DEF MarkFailure, IInv, TypeOK, Terminal
  <2> QED
    BY <1>1, <2>1, RecordBudget
<1>4. CASE ~OwnedLease(w0, r0)
  <2>1. UNCHANGED <<status, lockedUntil, availableAt>>
    BY <1>4 DEF MarkFailure
  <2> QED
    BY <1>1, <1>4, <2>1, RecordBudget
<1> QED
  BY <1>2, <1>3, <1>4

\* The killed invocation itself pays for the attempt its rows will need.
LEMMA CrashBudget ==
  ASSUME IInv, BudgetInv, NEW w0 \in Workers, Crash(w0)
  PROVE  BudgetInv'
<1> USE BudgetNumbers DEF BudgetInv
<1>1. /\ UNCHANGED <<clock, status, attempts, availableAt, lockedUntil, late>>
      /\ crashes' = crashes + 1 /\ pc'[w0] = "idle"
      /\ \A w \in Workers : w # w0 => /\ pc'[w] = pc[w] /\ now'[w] = now[w]
                                      /\ batch'[w] = batch[w] /\ jobAttempts'[w] = jobAttempts[w]
  BY DEF Crash, table, IInv, TypeOK
<1>2. Budget' = Budget + 1
  BY <1>1 DEF Budget
<1>3. SpentInv'
  BY <1>1, <1>2 DEF SpentInv
<1>4. LateInv'
  <2> SUFFICES ASSUME NEW w \in Workers, NEW r \in Rows
               PROVE  /\ Holds(w, r)' => Elapsed(w)' <= late'
                      /\ pc'[w] \in {"started", "claiming"} /\ Eligible(r, now[w])' =>
                            /\ Elapsed(w)' <= late'
                            /\ status'[r] = "processing" => attempts'[r] + Elapsed(w)' < Budget'
    BY DEF LateInv
  <2>1. CASE w = w0
    BY <1>1, <2>1 DEF Holds
  <2>2. CASE w # w0
    <3>1. Elapsed(w)' = Elapsed(w) /\ (Holds(w, r)' <=> Holds(w, r))
          /\ (Eligible(r, now[w])' <=> Eligible(r, now[w]))
      BY <1>1, <2>2 DEF Elapsed, Holds, Eligible
    <3> QED
      BY <1>1, <1>2, <2>2, <3>1 DEF LateInv
  <2> QED
    BY <2>1, <2>2
<1> QED
  BY <1>3, <1>4

\* A late tick is on record; in a quiet one no worker holds or may claim a row.
LEMMA TickBudget ==
  ASSUME IInv, BudgetInv, Tick
  PROVE  BudgetInv'
<1> USE BudgetNumbers DEF BudgetInv
<1>1. /\ UNCHANGED <<status, attempts, availableAt, lockedUntil, pc, now, batch,
                     jobAttempts, crashes>>
      /\ clock' = clock + 1 /\ late' = IF Quiet THEN late ELSE late + 1
  BY DEF Tick, table, worker
<1>2. \A w \in Workers : Elapsed(w)' = Elapsed(w) + 1
  BY <1>1 DEF Elapsed
<1>3. \A w \in Workers, r \in Rows : /\ Holds(w, r)' <=> Holds(w, r)
                                     /\ OwnedLease(w, r)' <=> OwnedLease(w, r)
                                     /\ Eligible(r, now[w])' <=> Eligible(r, now[w])
  BY <1>1 DEF Holds, OwnedLease, Eligible
<1>4. CASE Quiet
  <2>1. Budget' = Budget /\ late' = late
    BY <1>1, <1>4 DEF Budget
  <2>2. ASSUME NEW w \in Workers, NEW r \in Rows
        PROVE  ~Holds(w, r) /\ ~Eligible(r, now[w])
    BY <1>4 DEF Quiet, Holds, Eligible
  <2>3. SpentInv'
    BY <1>1, <2>1, <2>2 DEF SpentInv, Pays
  <2>4. LateInv'
    BY <1>3, <2>2 DEF LateInv
  <2> QED
    BY <2>3, <2>4
<1>5. CASE ~Quiet
  <2>1. Budget' = Budget + 1 /\ late' = late + 1
    BY <1>1, <1>5 DEF Budget
  <2>2. SpentInv'
    BY <1>1, <2>1 DEF SpentInv
  <2>3. LateInv'
    BY <1>1, <1>2, <1>3, <2>1 DEF LateInv
  <2> QED
    BY <2>2, <2>3
<1> QED
  BY <1>4, <1>5

\* The budget invariant holds in every reachable state.
THEOREM BudgetInvariance == Spec => []BudgetInv
<1>1. Init => BudgetInv
  BY RowsAssumption, OptionsAssumption, BoundsAssumption
     DEF Init, BudgetInv, SpentInv, LateInv, Holds, Eligible, Budget, Elapsed
<1>2. IInv /\ BudgetInv /\ [Next]_vars => BudgetInv'
  <2> SUFFICES ASSUME IInv, BudgetInv, [Next]_vars PROVE BudgetInv'
    OBVIOUS
  <2>1. CASE UNCHANGED vars
    BY <2>1 DEF vars, table, worker, outside, BudgetInv, SpentInv, LateInv, Pays, Holds,
                OwnedLease, Eligible, Budget, Elapsed
  <2>2. CASE Next
    BY <2>2, EnqueueBudget, StartBudget, SelectBudget, ClaimBudget, DeliverBudget,
       SentBudget, FailureBudget, CrashBudget, TickBudget
       DEF Next, WorkerStep
  <2> QED
    BY <2>1, <2>2
<1> QED
  BY <1>1, <1>2, Invariance, PTL DEF Spec

\* ownedLease() has one owner per row, the attempts column covers every call,
\* and it exceeds MaxAttempts only by late ticks and killed invocations.
THEOREM ClaimsStayHonest == Spec => []ClaimsAreHonest
<1>1. BudgetInv => OverrunIsPaidFor
  BY DEF BudgetInv, SpentInv, OverrunIsPaidFor, Budget
<1> QED
  BY <1>1, BudgetInvariance, LeasesAreExclusive, AttemptsCoverCalls, PTL DEF ClaimsAreHonest

\* Workers meet on a row only one after the other, in every interleaving of
\* claims, expiries, late results and crashes.
THEOREM AttemptsNeverMeet == Spec => AttemptsDoNotMeet
  BY LiveLeasesAreNotStolen, AttemptsCallOnce, NewestAttemptDecides DEF AttemptsDoNotMeet
=============================================================================
