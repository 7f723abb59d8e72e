------------------------------- MODULE Outbox -------------------------------
(***************************************************************************)
(* The notification outbox: the notification_outbox table, the workers     *)
(* that run processOutboxBatch() against it, and the e-mail provider.      *)
(*                                                                         *)
(* A column of the table is a function on Rows.  The claim transaction is  *)
(* two steps (SELECT ... FOR UPDATE SKIP LOCKED, then UPDATE and COMMIT),  *)
(* so that a second worker, or the late result of an expired worker, can   *)
(* meet the row locks it holds.  Every other statement is autocommitted    *)
(* and is one step.  The locals of an invocation that has returned have    *)
(* their initial values again.                                             *)
(***************************************************************************)
EXTENDS Integers, FiniteSets

CONSTANTS
    Rows,          \* outbox row ids; their order is the id tie-breaker
    Workers,       \* concurrent invocations of processOutboxBatch
    BatchSize,     \* options.batchSize
    Lease,         \* options.leaseDurationMs, in ticks
    MaxAttempts,   \* retryPolicy.maxAttempts
    Delay,         \* retryPolicy.delayAfterFailure, per attempt number
    MaxLate,       \* bound: ticks that may pass while work is waiting
    MaxCrashes     \* bound: invocations killed in the middle of a batch

ASSUME RowsAssumption == Rows \subseteq Nat
ASSUME OptionsAssumption ==
    /\ BatchSize \in Nat \ {0}
    /\ Lease \in Nat \ {0}
    /\ MaxAttempts \in Nat \ {0}
    /\ Delay \in [1 .. MaxAttempts -> Nat \ {0}]
ASSUME BoundsAssumption == MaxLate \in Nat /\ MaxCrashes \in Nat

\* createExponentialRetryPolicy: the delay after the a-th failed attempt.
DelayAfterFailure(initial, maximum, a) ==
    LET exponent == IF a - 1 < 52 THEN a - 1 ELSE 52
        doubled  == initial * 2^exponent
    IN  IF doubled < maximum THEN doubled ELSE maximum

-----------------------------------------------------------------------------
(* The e-mail adapter: what the provider's HTTPS endpoint may answer to     *)
(* one call, and the delivery result the adapter makes of it.  A command    *)
(* is always valid: the ids are uuid columns, and the event type is fixed   *)
(* by the insert.                                                           *)

Outcomes == {"delivered", "retryable_failure", "permanent_failure"}

\* Names of provider errors: asking to slow down, failing on its own side,
\* and rejecting what was sent.
QuotaNames == {"rate_limit_exceeded", "monthly_quota_exceeded", "daily_quota_exceeded"}
UnavailableNames == {"application_error", "internal_server_error", "concurrent_idempotent_requests"}
RejectedNames == {"invalid_idempotency_key", "validation_error", "missing_api_key", "restricted_api_key",
                  "invalid_api_key", "not_found", "method_not_allowed", "invalid_idempotent_request",
                  "invalid_attachment", "invalid_from_address", "invalid_access", "invalid_parameter",
                  "invalid_region", "missing_required_field", "security_error"}

\* Error statuses, of which only these are told apart; a body that cannot be
\* read, and a name nobody knows, count as no name.
ErrorStatuses == {400, 408, 429, 500}
ErrorNames == QuotaNames \union UnavailableNames \union RejectedNames \union {"none"}

\* What fetch() may throw: the time limit, a connection that fails, or else.
Thrown == {"AbortError", "TimeoutError", "TypeError", "Error"}

Failure(outcome, code) == [outcome |-> outcome, code |-> code]

\* Only a name that is known to reject ends the attempts, and only if nothing
\* else in the answer says that a later one may succeed.
classifyProviderFailure(status, name) ==
    IF status = 429 \/ name \in QuotaNames THEN Failure("retryable_failure", "rate_limited")
    ELSE IF status = 408 THEN Failure("retryable_failure", "timeout")
    ELSE IF status >= 500 \/ name \in UnavailableNames THEN Failure("retryable_failure", "provider_unavailable")
    ELSE IF name \in RejectedNames THEN Failure("permanent_failure", "rejected")
    ELSE Failure("retryable_failure", "unknown")

classifyThrownFailure(name) ==
    Failure("retryable_failure",
            IF name \in {"AbortError", "TimeoutError"} THEN "timeout"
            ELSE IF name = "TypeError" THEN "provider_unavailable"
            ELSE "unknown")

\* A call of the provider, answered or not.  took: it has accepted the
\* message, which it may have done although the answer says otherwise or is
\* lost, but not if the answer rejects the message.
Replies ==
    [kind : {"ok"}, took : {TRUE}]
      \union [kind : {"error"}, status : ErrorStatuses, name : ErrorNames \ RejectedNames, took : BOOLEAN]
      \union [kind : {"error"}, status : ErrorStatuses, name : RejectedNames, took : {FALSE}]
      \union [kind : {"thrown"}, name : Thrown, took : BOOLEAN]

\* ResendNotificationAdapter.deliver().
deliver(reply) ==
    IF reply.kind = "ok" THEN Failure("delivered", "none")
    ELSE IF reply.kind = "error" THEN classifyProviderFailure(reply.status, reply.name)
    ELSE classifyThrownFailure(reply.name)

\* The results a worker may get, with whether the message was accepted.
Deliveries == {[outcome |-> deliver(reply).outcome, got |-> reply.took] : reply \in Replies}

-----------------------------------------------------------------------------
VARIABLES
    clock,         \* wall clock shared by the workers and the database
    status,        \* notification_outbox.status, or "absent"
    attempts,      \* notification_outbox.attempts
    availableAt,   \* notification_outbox.available_at
    createdAt,     \* notification_outbox.created_at
    lockedUntil,   \* notification_outbox.locked_until, NoLease for NULL
    pc,            \* where each worker is in processOutboxBatch
    now,           \* options.now of each worker, read once per invocation
    batch,         \* rows it has locked (claiming) or still has to process
    jobAttempts,   \* the attempts value RETURNING gave it for each job
    current,       \* the job whose delivery result it holds
    result,        \* that delivery result
    accepted,      \* rows whose e-mail the provider has accepted
    called,        \* <<row, attempt>> pairs adapter.deliver was called for
    late, crashes  \* consumption of the two bounds

table   == <<status, attempts, availableAt, createdAt, lockedUntil>>
worker  == <<pc, now, batch, jobAttempts, current, result>>
outside == <<accepted, called>>
vars    == <<clock, table, worker, outside, late, crashes>>

NoLease  == -1
Statuses == {"absent", "pending", "processing", "retryable", "sent", "failed"}
Terminal == {"sent", "failed"}
Stages   == {"idle", "started", "claiming", "working", "recording"}

-----------------------------------------------------------------------------
(* What the repository's WHERE clauses and ORDER BY say.                   *)

\* Mutant: expired processing rows are not recovered.
EligibleWithoutExpiry(r, t) ==
    status[r] \in {"pending", "retryable"} /\ availableAt[r] <= t

\* Mutant: failed rows are picked up again.
EligibleWithFailed(r, t) ==
    \/ status[r] \in {"pending", "retryable", "failed"} /\ availableAt[r] <= t
    \/ status[r] = "processing" /\ lockedUntil[r] <= t

Eligible(r, t) ==
    \/ status[r] \in {"pending", "retryable"} /\ availableAt[r] <= t
    \/ status[r] = "processing" /\ lockedUntil[r] <= t

Before(r, s) ==
    \/ availableAt[r] < availableAt[s]
    \/ /\ availableAt[r] = availableAt[s]
       /\ \/ createdAt[r] < createdAt[s]
          \/ createdAt[r] = createdAt[s] /\ r < s

RowLocked(r) == \E w \in Workers : pc[w] = "claiming" /\ r \in batch[w]

\* The rows the claim SELECT returns and locks: SKIP LOCKED first, then the
\* first batchSize rows in the ORDER BY order.
IsCandidateSet(C, t) ==
    LET free == {r \in Rows : Eligible(r, t) /\ ~RowLocked(r)}
    IN  /\ C \subseteq free
        /\ \A c \in C, d \in free \ C : Before(c, d)
        /\ \/ C = free /\ Cardinality(C) <= BatchSize
           \/ Cardinality(C) = BatchSize

\* Mutant: a result is recorded whenever the row is still processing.
OwnedByStatusOnly(w, r) == r \in batch[w] /\ status[r] = "processing"

\* ownedLease(): this worker's claim is still the newest one of the row.
OwnedLease(w, r) ==
    /\ status[r] = "processing"
    /\ attempts[r] = jobAttempts[w][r]
    /\ lockedUntil[r] = now[w] + Lease

-----------------------------------------------------------------------------
Init ==
    /\ clock = 0
    /\ status = [r \in Rows |-> "absent"]
    /\ attempts = [r \in Rows |-> 0]
    /\ availableAt = [r \in Rows |-> 0]
    /\ createdAt = [r \in Rows |-> 0]
    /\ lockedUntil = [r \in Rows |-> NoLease]
    /\ pc = [w \in Workers |-> "idle"]
    /\ now = [w \in Workers |-> 0]
    /\ batch = [w \in Workers |-> {}]
    /\ jobAttempts = [w \in Workers |-> [r \in Rows |-> 0]]
    /\ current = [w \in Workers |-> {}]
    /\ result = [w \in Workers |-> "none"]
    /\ accepted = {}
    /\ called = {}
    /\ late = 0
    /\ crashes = 0

\* PostgresInquiryRepository.create commits a new pending row.
Enqueue(r) ==
    /\ status[r] = "absent"
    /\ status' = [status EXCEPT ![r] = "pending"]
    /\ availableAt' = [availableAt EXCEPT ![r] = clock]
    /\ createdAt' = [createdAt EXCEPT ![r] = clock]
    /\ UNCHANGED <<clock, attempts, lockedUntil, worker, outside, late, crashes>>

\* The cron route reads the clock and calls processOutboxBatch.
Start(w) ==
    /\ pc[w] = "idle"
    /\ pc' = [pc EXCEPT ![w] = "started"]
    /\ now' = [now EXCEPT ![w] = clock]
    /\ UNCHANGED <<clock, table, batch, jobAttempts, current, result, outside,
                   late, crashes>>

\* claimBatch, first statement.  No candidate: the batch is over.
SelectCandidates(w) ==
    /\ pc[w] = "started"
    /\ \E C \in SUBSET Rows :
          /\ IsCandidateSet(C, now[w])
          /\ batch' = [batch EXCEPT ![w] = C]
          /\ pc' = [pc EXCEPT ![w] = IF C = {} THEN "idle" ELSE "claiming"]
          /\ now' = IF C = {} THEN [now EXCEPT ![w] = 0] ELSE now
    /\ UNCHANGED <<clock, table, jobAttempts, current, result, outside,
                   late, crashes>>

\* Mutant: recovering an expired lease does not count as an attempt.
CommitClaimRecovered(w) ==
    LET Counted(r) == IF status[r] = "processing" THEN attempts[r] ELSE attempts[r] + 1
    IN  /\ pc[w] = "claiming"
        /\ status' = [r \in Rows |->
                        IF r \in batch[w] THEN "processing" ELSE status[r]]
        /\ lockedUntil' = [r \in Rows |->
                        IF r \in batch[w] THEN now[w] + Lease ELSE lockedUntil[r]]
        /\ attempts' = [r \in Rows |->
                        IF r \in batch[w] THEN Counted(r) ELSE attempts[r]]
        /\ jobAttempts' = [jobAttempts EXCEPT ![w] =
                        [r \in Rows |-> IF r \in batch[w] THEN Counted(r) ELSE 0]]
        /\ pc' = [pc EXCEPT ![w] = "working"]
        /\ UNCHANGED <<clock, availableAt, createdAt, now, batch, current, result,
                       outside, late, crashes>>

\* claimBatch, second statement and COMMIT.
CommitClaim(w) ==
    /\ pc[w] = "claiming"
    /\ status' = [r \in Rows |->
                    IF r \in batch[w] THEN "processing" ELSE status[r]]
    /\ lockedUntil' = [r \in Rows |->
                    IF r \in batch[w] THEN now[w] + Lease ELSE lockedUntil[r]]
    /\ attempts' = [r \in Rows |->
                    IF r \in batch[w] THEN attempts[r] + 1 ELSE attempts[r]]
    /\ jobAttempts' = [jobAttempts EXCEPT ![w] =
                    [r \in Rows |-> IF r \in batch[w] THEN attempts[r] + 1 ELSE 0]]
    /\ pc' = [pc EXCEPT ![w] = "working"]
    /\ UNCHANGED <<clock, availableAt, createdAt, now, batch, current, result,
                   outside, late, crashes>>

\* deliver(): one adapter call for the next job.
Deliver(w, r) ==
    /\ pc[w] = "working"
    /\ r \in batch[w]
    /\ \E d \in Deliveries :
          /\ accepted' = IF d.got THEN accepted \union {r} ELSE accepted
          /\ result' = [result EXCEPT ![w] = d.outcome]
    /\ called' = called \union {<<r, jobAttempts[w][r]>>}
    /\ current' = [current EXCEPT ![w] = {r}]
    /\ pc' = [pc EXCEPT ![w] = "recording"]
    /\ UNCHANGED <<clock, table, now, batch, jobAttempts, late, crashes>>

\* The loop's bookkeeping after a result was recorded or discarded.
NextJob(w, r) ==
    /\ batch' = [batch EXCEPT ![w] = @ \ {r}]
    /\ jobAttempts' = [jobAttempts EXCEPT ![w][r] = 0]
    /\ current' = [current EXCEPT ![w] = {}]
    /\ result' = [result EXCEPT ![w] = "none"]
    /\ pc' = [pc EXCEPT ![w] = IF batch[w] = {r} THEN "idle" ELSE "working"]
    /\ now' = IF batch[w] = {r} THEN [now EXCEPT ![w] = 0] ELSE now
    /\ UNCHANGED <<clock, createdAt, outside, late, crashes>>

\* markSent: the UPDATE waits for a claim's row lock, then re-reads the row.
MarkSent(w, r) ==
    /\ pc[w] = "recording" /\ r \in current[w] /\ result[w] = "delivered"
    /\ ~RowLocked(r)
    /\ IF OwnedLease(w, r)
         THEN /\ status' = [status EXCEPT ![r] = "sent"]
              /\ lockedUntil' = [lockedUntil EXCEPT ![r] = NoLease]
         ELSE UNCHANGED <<status, lockedUntil>>
    /\ UNCHANGED <<attempts, availableAt>>
    /\ NextJob(w, r)

HasAttemptsRemaining(w, r) ==
    result[w] = "retryable_failure" /\ jobAttempts[w][r] < MaxAttempts

\* markFailure, with retryAt when the policy still has attempts left.
MarkFailure(w, r) ==
    /\ pc[w] = "recording" /\ r \in current[w] /\ result[w] # "delivered"
    /\ ~RowLocked(r)
    /\ IF OwnedLease(w, r)
         THEN /\ IF HasAttemptsRemaining(w, r)
                   THEN /\ status' = [status EXCEPT ![r] = "retryable"]
                        /\ availableAt' = [availableAt EXCEPT ![r] =
                                             now[w] + Delay[jobAttempts[w][r]]]
                   ELSE /\ status' = [status EXCEPT ![r] = "failed"]
                        /\ UNCHANGED availableAt
              /\ lockedUntil' = [lockedUntil EXCEPT ![r] = NoLease]
         ELSE UNCHANGED <<status, availableAt, lockedUntil>>
    /\ UNCHANGED attempts
    /\ NextJob(w, r)

\* The invocation dies, or a repository call throws: an open claim
\* transaction rolls back, committed claims stay until their lease expires.
Crash(w) ==
    /\ pc[w] # "idle"
    /\ crashes < MaxCrashes
    /\ crashes' = crashes + 1
    /\ pc' = [pc EXCEPT ![w] = "idle"]
    /\ batch' = [batch EXCEPT ![w] = {}]
    /\ current' = [current EXCEPT ![w] = {}]
    /\ now' = [now EXCEPT ![w] = 0]
    /\ jobAttempts' = [jobAttempts EXCEPT ![w] = [r \in Rows |-> 0]]
    /\ result' = [result EXCEPT ![w] = "none"]
    /\ UNCHANGED <<clock, table, outside, late>>

\* Time passes.  While a worker holds rows or a row is due the tick consumes
\* the lateness bound; while a lease or a retry is only waited for it is free.
Quiet ==
    /\ \A w \in Workers : pc[w] \in {"idle", "started"}
    /\ \A r \in Rows : ~Eligible(r, clock)
    /\ \E r \in Rows :
          \/ status[r] = "processing" /\ lockedUntil[r] > clock
          \/ status[r] = "retryable" /\ availableAt[r] > clock

Tick ==
    /\ Quiet \/ late < MaxLate
    /\ clock' = clock + 1
    /\ late' = IF Quiet THEN late ELSE late + 1
    /\ UNCHANGED <<table, worker, outside, crashes>>

WorkerStep(w) ==
    \/ Start(w)
    \/ SelectCandidates(w)
    \/ CommitClaim(w)
    \/ \E r \in Rows : Deliver(w, r)
    \/ \E r \in Rows : MarkSent(w, r)
    \/ \E r \in Rows : MarkFailure(w, r)

Next ==
    \/ \E r \in Rows : Enqueue(r)
    \/ \E w \in Workers : WorkerStep(w)
    \/ \E w \in Workers : Crash(w)
    \/ Tick

Spec == Init /\ [][Next]_vars

\* The scheduler keeps invoking the route, every started invocation goes on
\* unless it is killed, and time passes while everyone waits.
FairSpec ==
    /\ Spec
    /\ \A w \in Workers : WF_vars(WorkerStep(w))
    /\ WF_vars(Quiet /\ Tick)

-----------------------------------------------------------------------------
(* Properties.                                                             *)

\* Columns, locals and counters have the types the schema gives them.
TypeOK ==
    /\ clock \in Nat
    /\ status \in [Rows -> Statuses]
    /\ attempts \in [Rows -> Nat]
    /\ availableAt \in [Rows -> Nat]
    /\ createdAt \in [Rows -> Nat]
    /\ lockedUntil \in [Rows -> Nat \union {NoLease}]
    /\ pc \in [Workers -> Stages]
    /\ now \in [Workers -> Nat]
    /\ batch \in [Workers -> SUBSET Rows]
    /\ jobAttempts \in [Workers -> [Rows -> Nat]]
    /\ current \in [Workers -> SUBSET Rows]
    /\ result \in [Workers -> Outcomes \union {"none"}]
    /\ accepted \in SUBSET Rows
    /\ called \in SUBSET (Rows \X Nat)
    /\ late \in 0 .. MaxLate
    /\ crashes \in 0 .. MaxCrashes

\* Jobs a worker still holds after its claim committed.
Holds(w, r) == pc[w] \in {"working", "recording"} /\ r \in batch[w]

\* Two workers that hold the same row (one of them with an expired lease)
\* never hold it under the same attempt number, and a row one of them owns is
\* not owned by the other: the ownedLease() condition tells them apart.
LeaseExclusive ==
    \A w1, w2 \in Workers : \A r \in Rows :
        w1 # w2 /\ Holds(w1, r) /\ Holds(w2, r)
            => /\ jobAttempts[w1][r] # jobAttempts[w2][r]
               /\ ~(OwnedLease(w1, r) /\ OwnedLease(w2, r))

\* A row is marked sent only if the provider accepted its e-mail: a crash or
\* a stale result never falsely records success (markSent).
SentWasAccepted == \A r \in Rows : status[r] = "sent" => r \in accepted

\* An attempt is counted before its adapter call starts, so every call made
\* is covered by the attempts column, and a pending row was never tried
\* (claimBatch increments attempts in the claiming transaction).
CallsAreCounted ==
    /\ \A c \in called : c[2] \in 1 .. attempts[c[1]]
    /\ \A r \in Rows : status[r] \in {"absent", "pending"} <=> attempts[r] = 0

\* The retry budget is exceeded only by lost work: beyond MaxAttempts every
\* further attempt of a row is paid for by a killed invocation or by a tick
\* that passed while a worker held a batch (hasAttemptsRemaining).
OverrunIsPaidFor ==
    \A r \in Rows : attempts[r] <= MaxAttempts + late + crashes

\* sent and failed are terminal: no later claim or late result of any worker
\* changes such a row again.
TerminalIsFinal ==
    [][\A r \in Rows : status[r] \in Terminal =>
          /\ status'[r] = status[r]
          /\ attempts'[r] = attempts[r]
          /\ availableAt'[r] = availableAt[r]]_vars

\* One claimed attempt makes at most one adapter call, however workers,
\* leases and crashes interleave.
EachAttemptCallsOnce ==
    [][\A w \in Workers : \A r \in Rows :
          current[w] = {} /\ current'[w] = {r}
              => <<r, jobAttempts[w][r]>> \notin called]_vars

\* A row leaves processing only on the result of its newest attempt: the
\* result an expired worker brings late is discarded (ownedLease).
OnlyNewestAttemptDecides ==
    [][\A r \in Rows :
          status[r] = "processing" /\ status'[r] # "processing"
              => <<r, attempts[r]>> \in called]_vars

\* README: "A future locked_until cannot be stolen."  A second claim of a row
\* commits only after the lease of the claim before it has run out, although
\* eligibility is tested in an earlier statement than the one that claims.
LiveLeaseNotStolen ==
    [][\A r \in Rows :
          status[r] = "processing" /\ attempts'[r] # attempts[r]
              => lockedUntil[r] <= clock]_vars

\* Every committed outbox row is eventually sent or failed, as long as only
\* finitely many invocations are killed.
EventuallyDecided ==
    \A r \in Rows : status[r] = "pending" ~> status[r] \in Terminal

\* What the columns say of a row is what was done for it: its lease has one
\* owner, its attempts cover every call and exceed the budget only by work
\* that was lost (claimBatch, ownedLease, hasAttemptsRemaining).
ClaimsAreHonest == LeaseExclusive /\ CallsAreCounted /\ OverrunIsPaidFor

\* Workers meet on a row only one after the other: a live lease is waited for,
\* an attempt is called once, and the newest attempt alone decides the row.
AttemptsDoNotMeet == LiveLeaseNotStolen /\ EachAttemptCallsOnce /\ OnlyNewestAttemptDecides

-----------------------------------------------------------------------------
(* The inductive invariant behind the safety properties.                   *)

\* What a worker holds at each stage of processOutboxBatch.
StageInv ==
    \A w \in Workers :
        /\ pc[w] \in {"idle", "started"} => batch[w] = {}
        /\ pc[w] # "recording" => current[w] = {}
        /\ pc[w] = "recording" => \E r \in batch[w] : current[w] = {r}
        /\ now[w] <= clock

\* A locked candidate stays eligible until its claim commits, and no two
\* open claims lock the same row.
ClaimInv ==
    \A w \in Workers : \A r \in batch[w] : pc[w] = "claiming" =>
        /\ Eligible(r, now[w])
        /\ \A v \in Workers : pc[v] = "claiming" /\ r \in batch[v] => v = w

\* The attempt number of a job was handed out once, and its adapter call is
\* on record exactly from Deliver on.
JobInv ==
    \A w \in Workers : \A r \in Rows : Holds(w, r) =>
        /\ jobAttempts[w][r] \in 1 .. attempts[r]
        /\ r \in current[w] <=> <<r, jobAttempts[w][r]>> \in called
        /\ \A v \in Workers : Holds(v, r) /\ jobAttempts[v][r] = jobAttempts[w][r]
                                 => v = w

\* A worker that is about to record a delivery has seen an acceptance.
ResultInv ==
    \A w \in Workers : pc[w] = "recording" =>
        /\ result[w] \in Outcomes
        /\ result[w] = "delivered" => current[w] \subseteq accepted

\* The budget of a row, and what the batch of a worker has cost so far: every
\* tick since it read the clock was late, because its rows were due or held.
Budget == MaxAttempts + late + crashes
Elapsed(w) == clock - now[w]

\* Row r is processing under the claim of a worker that is alive and that has
\* left the budget the ticks its batch took.
Pays(w, r) == Holds(w, r) /\ OwnedLease(w, r) /\ attempts[r] + Elapsed(w) <= Budget

\* A row that waits for a retry has an attempt left; one that is worked on has
\* one left too, or a living worker that pays for the next.
SpentInv ==
    \A r \in Rows :
        /\ attempts[r] <= Budget
        /\ status[r] = "retryable" => attempts[r] < MaxAttempts
        /\ status[r] = "processing" =>
              attempts[r] < Budget \/ \E w \in Workers : Pays(w, r)

\* While a worker holds rows, or may claim one with the clock it has read, every
\* tick was late; and an expired lease it may take over leaves it an attempt.
LateInv ==
    \A w \in Workers : \A r \in Rows :
        /\ Holds(w, r) => Elapsed(w) <= late
        /\ pc[w] \in {"started", "claiming"} /\ Eligible(r, now[w]) =>
              /\ Elapsed(w) <= late
              /\ status[r] = "processing" => attempts[r] + Elapsed(w) < Budget

BudgetInv == SpentInv /\ LateInv

IInv ==
    /\ TypeOK
    /\ StageInv
    /\ ClaimInv
    /\ JobInv
    /\ ResultInv
    /\ CallsAreCounted
    /\ SentWasAccepted

-----------------------------------------------------------------------------
(* What the outbox promises to the inquiry flow that fills it.             *)

fate == [r \in Rows |->
           IF status[r] \in {"absent", "sent", "failed"} THEN status[r]
                                                        ELSE "queued"]

Promise == INSTANCE NotificationPromise WITH fate <- fate

\* The claim/lease protocol implements the promise of NotificationPromise.
KeepsPromise == Promise!Spec
=============================================================================
