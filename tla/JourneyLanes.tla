---------------------------- MODULE JourneyLanes ----------------------------
(***************************************************************************)
(* The second layer of the defense plane (defense/core/lanes.ts,           *)
(* credit-filter.ts, plane/l2-stage.ts): a mutation that carries a         *)
(* submission token this plane delivered lately takes its budget from the  *)
(* credited lane, everything else from the unverified lane.  The           *)
(* laboratory replays the buckets from the recorded decisions              *)
(* (lab/defense/lane-accounting.ts); its auditor is part of the model.     *)
(*                                                                         *)
(* A decision is one synchronous function, hence one step.  The monotonic  *)
(* clock has Res ticks per millisecond: buckets read whole milliseconds,   *)
(* epochs are counted from the construction of the filter.  An open        *)
(* request (no form) is admitted without touching any of this.             *)
(***************************************************************************)
EXTENDS Integers, FiniteSets

CONSTANTS
    Tokens,       \* submission tokens
    NoToken,      \* a request without exactly one well-formed token
    BitsOf,       \* the filter bits of a token: different tokens may share some
    Res,          \* ticks of the clock in a millisecond
    EpochMs,      \* length of a filter generation
    UNIT,         \* micro-tokens in a token of a bucket
    Capacity,     \* per lane: tokens
    RefillPerMs,  \* per lane: micro-tokens added in a millisecond
    MaxUses,      \* credited admissions of an enrolled token
    T0,           \* the time at which everything is constructed
    MaxTime,      \* bound: last tick
    MaxTakes,     \* bound, per lane: decisions of the bucket
    MaxDiscards   \* bound: decisions that the composer discards

Lanes == {"credited", "unverified"}

ASSUME ConfigAssumption ==
    /\ Res \in Nat \ {0} /\ EpochMs \in Nat \ {0} /\ UNIT \in Nat \ {0}
    /\ MaxUses \in Nat \ {0} /\ T0 \in Nat /\ NoToken \notin Tokens
    /\ \A lane \in Lanes : /\ Capacity[lane] \in Nat \ {0}
                           /\ RefillPerMs[lane] \in Nat \ {0}
    /\ \A t \in Tokens : BitsOf[t] # {}

VARIABLES
    clock,      \* the injected monotonic clock
    filter,     \* two generations of bits, and the epoch of the newer one
    bucket,     \* per lane: level, time of the last refill, decisions taken
    ledger,     \* use records, epoch of the last purge, refusals, violations
    audit,      \* per lane: the auditor's replay of the bucket
    discards,   \* consumption of MaxDiscards
    inserted,   \* history of the last two epochs: <<token, epoch>> of each enrolment
    uses        \* history: credited admissions of a token since its enrolment

laneVars == <<clock, filter, bucket, ledger, audit, discards, inserted, uses>>

-----------------------------------------------------------------------------
(* CreditFilter: two generations; an operation first moves to the present. *)

epochNow == (clock - T0) \div (EpochMs * Res)

\* Entering an epoch clears its slot; whoever skips an epoch clears both.
advanceFilter(f) ==
    IF epochNow <= f.epoch THEN f
    ELSE LET steps   == IF epochNow - f.epoch = 1 THEN 1 ELSE 2
             entered == {(epochNow - s) % 2 : s \in 0..(steps - 1)}
         IN [epoch  |-> epochNow,
             arrays |-> [slot \in 0..1 |-> IF slot \in entered THEN {} ELSE f.arrays[slot]]]

hasInActive(f, t) == BitsOf[t] \subseteq f.arrays[f.epoch % 2]

has(f, t) ==
    \/ hasInActive(f, t)
    \/ f.epoch >= 1 /\ BitsOf[t] \subseteq f.arrays[(f.epoch - 1) % 2]

insert(f, t) == [f EXCEPT !.arrays[f.epoch % 2] = @ \union BitsOf[t]]

-----------------------------------------------------------------------------
(* TokenBucket: the level falls by a take and rises by time alone.         *)

nowMs == clock \div Res

AtMost(bound, n) == IF n > bound THEN bound ELSE n

refill(lane) ==
    LET b == bucket[lane]
    IN [b EXCEPT !.level = AtMost(Capacity[lane] * UNIT, @ + (nowMs - b.last) * RefillPerMs[lane]),
                 !.last = nowMs]

HasToken(lane) == refill(lane).level >= UNIT

\* take(): counted whether or not there is a token to take.
take(lane) ==
    LET b == refill(lane)
    IN [b EXCEPT !.takes = @ + 1,
                 !.level = IF HasToken(lane) THEN @ - UNIT ELSE @]

-----------------------------------------------------------------------------
(* UseLedger: a record lives as long as the generations that can hold its  *)
(* token.                                                                  *)

\* Mutant: a record is given up together with the epoch that follows it.
GoneEarly(entry, epoch) == epoch >= entry.firstEpoch + 1

Gone(entry, epoch) == epoch >= entry.firstEpoch + 2

\* Committed uses of a live record; 0 when there is none.
committed(l, t, epoch) ==
    IF t \in DOMAIN l.entries /\ ~Gone(l.entries[t], epoch)
    THEN l.entries[t].committed ELSE 0

purge(l, epoch) ==
    LET kept == {t \in DOMAIN l.entries : ~Gone(l.entries[t], epoch)}
    IN [l EXCEPT !.entries = [t \in kept |-> l.entries[t]], !.purgeEpoch = epoch]

maybePurge(l, epoch) == IF epoch # l.purgeEpoch THEN purge(l, epoch) ELSE l

\* requiredLedgerCapacity: all credited admissions of two epochs, rounded up, plus one.
RequiredLedgerCapacity ==
    LET units == RefillPerMs["credited"] * 2 * EpochMs
    IN Capacity["credited"] + (units + UNIT - 1) \div UNIT + 1

IsFull(l) == Cardinality(DOMAIN l.entries) >= RequiredLedgerCapacity

\* canAllocate(): a full ledger is purged once more before it refuses.
MakeRoom(l, epoch) == IF IsFull(l) THEN purge(l, epoch) ELSE l

commit(l, t, epoch) ==
    IF committed(l, t, epoch) = 0
    THEN [l EXCEPT !.entries = [u \in DOMAIN @ \union {t} |->
             IF u = t THEN [committed |-> 1, firstEpoch |-> epoch] ELSE @[u]]]
    ELSE IF l.entries[t].committed >= MaxUses THEN [l EXCEPT !.violations = @ + 1]
    ELSE [l EXCEPT !.entries[t].committed = @ + 1]

-----------------------------------------------------------------------------
(* The auditor: auditBucket() replays a lane's decisions in the order of   *)
(* their numbers.  dt, lvl and lseq are the bucket's own report.           *)

auditBucket(lane, consumed, b) ==
    LET a         == audit[lane]
        elapsed   == IF a.seq = 0 THEN 0 ELSE b.last - a.dt
        available == AtMost(Capacity[lane] * UNIT, a.level + elapsed * RefillPerMs[lane])
        expected  == IF consumed THEN available - UNIT ELSE available
        wrong     == \/ elapsed < 0
                     \/ consumed # (available >= UNIT)
                     \/ b.level # expected
    IN [audit EXCEPT ![lane] =
           [level |-> b.level, dt |-> b.last, seq |-> b.takes,
            gaps |-> a.gaps + (IF b.takes # a.seq + 1 THEN 1 ELSE 0),
            mismatches |-> a.mismatches + (IF wrong THEN 1 ELSE 0)]]

\* Mutant: a discarded decision is recorded as the timeout alone.
RecordForgetsTouched(lane, admitted, late, b) ==
    audit' = IF late /\ ~admitted THEN audit ELSE auditBucket(lane, admitted, b)

\* The decision the stage records.  A discarded one is a timeout that names what it
\* had taken from its bucket: "spent" a token, or "touched" the bucket by a shed.
Record(lane, admitted, late, b) ==
    audit' = auditBucket(lane, admitted, b)

\* A discarded admission keeps what it consumed.
Discarded ==
    /\ discards < MaxDiscards
    /\ discards' = discards + 1

-----------------------------------------------------------------------------
NewBucket(lane) == [level |-> Capacity[lane] * UNIT, last |-> T0 \div Res, takes |-> 0]

NewAudit(lane) ==
    [level |-> Capacity[lane] * UNIT, dt |-> 0, seq |-> 0, gaps |-> 0, mismatches |-> 0]

LaneInit ==
    /\ clock = T0
    /\ filter = [epoch |-> 0, arrays |-> [slot \in 0..1 |-> {}]]
    /\ bucket = [lane \in Lanes |-> NewBucket(lane)]
    /\ ledger = [entries |-> [t \in {} |-> 0], purgeEpoch |-> 0, refusals |-> 0, violations |-> 0]
    /\ audit = [lane \in Lanes |-> NewAudit(lane)]
    /\ discards = 0
    /\ inserted = {}
    /\ uses = [t \in Tokens |-> 0]

LaneTick ==
    /\ clock < MaxTime
    /\ clock' = clock + 1
    /\ UNCHANGED <<filter, bucket, ledger, audit, discards, inserted, uses>>

\* Enrolled in this epoch or in the one before it.
Genuine(t) == \E e \in {epochNow, epochNow - 1} : <<t, e>> \in inserted

\* credited: the token tests positive and has uses left.
IsCredited(t, f, l) ==
    t # NoToken /\ has(f, t) /\ committed(l, t, f.epoch) < MaxUses

\* The bucket decision all non-open requests end in; nothing it takes is returned.
TakeFrom(lane, late) ==
    /\ bucket[lane].takes < MaxTakes[lane]
    /\ bucket' = [bucket EXCEPT ![lane] = take(lane)]
    /\ Record(lane, HasToken(lane), late, take(lane))
    /\ IF late /\ HasToken(lane) THEN Discarded ELSE UNCHANGED discards

\* decide() without credit; token NoToken also stands for requests of unknown class.
DecideUnverified(t, late) ==
    LET f == advanceFilter(filter)
        l == maybePurge(ledger, f.epoch)
    IN /\ ~IsCredited(t, f, l)
       /\ TakeFrom("unverified", late)
       /\ filter' = f /\ ledger' = l
       /\ UNCHANGED <<clock, inserted, uses>>

\* decide() with credit: room for a new record first, then the bucket, then the use.
DecideCredited(t, late) ==
    LET f    == advanceFilter(filter)
        l    == maybePurge(ledger, f.epoch)
        room == IF committed(l, t, f.epoch) = 0 THEN MakeRoom(l, f.epoch) ELSE l
        full == committed(l, t, f.epoch) = 0 /\ IsFull(room)
        used == ~full /\ HasToken("credited")
    IN /\ IsCredited(t, f, l)
       /\ IF full THEN UNCHANGED <<bucket, audit, discards>> ELSE TakeFrom("credited", late)
       /\ filter' = f
       /\ ledger' = IF full THEN [room EXCEPT !.refusals = @ + 1]
                    ELSE IF used THEN commit(room, t, f.epoch) ELSE room
       /\ uses' = IF used /\ Genuine(t) THEN [uses EXCEPT ![t] = @ + 1] ELSE uses
       /\ UNCHANGED <<clock, inserted>>

\* enroll(): after a form was delivered.  A used token and a token of the active
\* generation are left alone.
Enroll(t) ==
    LET f == advanceFilter(filter)
        skip == committed(ledger, t, f.epoch) # 0 \/ hasInActive(f, t)
    IN /\ filter' = IF skip THEN f ELSE insert(f, t)
       /\ inserted' = IF skip THEN inserted ELSE {i \in inserted : i[2] >= f.epoch - 1} \union {<<t, f.epoch>>}
       /\ uses' = IF skip \/ Genuine(t) THEN uses ELSE [uses EXCEPT ![t] = 0]
       /\ UNCHANGED <<clock, bucket, ledger, audit, discards>>

\* snapshot(): an observation applies the purge and the refill that are due.
Snapshot ==
    LET f == advanceFilter(filter)
    IN /\ filter' = f
       /\ ledger' = maybePurge(ledger, f.epoch)
       /\ bucket' = [lane \in Lanes |-> refill(lane)]
       /\ UNCHANGED <<clock, audit, discards, inserted, uses>>

LaneNext ==
    \/ LaneTick
    \/ \E t \in Tokens \union {NoToken}, late \in BOOLEAN : DecideUnverified(t, late)
    \/ \E t \in Tokens, late \in BOOLEAN : DecideCredited(t, late)
    \/ \E t \in Tokens : Enroll(t)
    \/ Snapshot

LaneSpec == LaneInit /\ [][LaneNext]_laneVars

-----------------------------------------------------------------------------
BitsOfEpoch(ins, e) == UNION {BitsOf[i[1]] : i \in {j \in ins : j[2] = e}}

\* The generations of f hold the bits of the tokens enrolled in their epochs.
HoldsWindow(f, ins) ==
    /\ f.arrays[f.epoch % 2] = BitsOfEpoch(ins, f.epoch)
    /\ f.epoch >= 1 => f.arrays[(f.epoch - 1) % 2] = BitsOfEpoch(ins, f.epoch - 1)

(* The filter is exactly its window: at every time the two generations an  *)
(* operation would look at hold the bits of the tokens enrolled in the     *)
(* present and in the previous epoch, however long nobody looked           *)
(* (CreditFilter.advance): no credit is lost inside its window and none    *)
(* outlives it.                                                            *)
FilterIsTheWindow == HoldsWindow(advanceFilter(filter), inserted)

(* An enrolled token is admitted credited at most MaxUses times while it   *)
(* is in the window: purging its use record never reopens its allowance    *)
(* (P2 of lanes.ts), though epochs pass, tokens share bits and forms are   *)
(* delivered again.                                                        *)
UsesPerEnrolment == \A t \in Tokens : Genuine(t) => uses[t] <= MaxUses

(* The ledger that is sized by requiredLedgerCapacity never refuses a      *)
(* record and never counts a state violation: the credited bucket admits   *)
(* no more tokens in two epochs than there are records.                    *)
LedgerNeverRefuses == ledger.refusals = 0 /\ ledger.violations = 0

(* What an enrolment grants is exact: inside its window, for its uses, and *)
(* with a record for each token (lanes.ts, credit.ts).                     *)
CreditIsExact == FilterIsTheWindow /\ UsesPerEnrolment /\ LedgerNeverRefuses

(* The accounting replays both buckets from the recorded decisions without *)
(* a gap or a mismatch, decisions that the composer discarded included     *)
(* (auditBucket of lane-accounting.ts, spent and touched of l2-stage.ts).  *)
BucketsReplayExactly ==
    \A lane \in Lanes : audit[lane].gaps = 0 /\ audit[lane].mismatches = 0

-----------------------------------------------------------------------------
(* The inductive invariant behind them.                                    *)

AllBits == UNION {BitsOf[t] : t \in Tokens}
Filters == [epoch : Nat, arrays : [0..1 -> SUBSET AllBits]]
Buckets == [level : Nat, last : Nat, takes : Nat]
Entry == [committed : 1 .. MaxUses, firstEpoch : Nat]
EntryMaps == UNION {[S -> Entry] : S \in SUBSET Tokens}
Ledgers == [entries : EntryMaps, purgeEpoch : Nat, refusals : {0}, violations : {0}]
Audits == [level : Nat, dt : Nat, seq : Nat, gaps : {0}, mismatches : {0}]

Full(lane) == Capacity[lane] * UNIT

\* The millisecond in which an epoch begins.
StartMs(k) == T0 \div Res + k * EpochMs

\* A bucket at or before millisecond ms.
BucketOK(lane, b, ms) == b \in Buckets /\ b.level <= Full(lane) /\ T0 \div Res <= b.last /\ b.last <= ms

\* The records of a ledger last used in epoch e: none is older than the purge kept.
LedgerOK(l, e) ==
    /\ l \in Ledgers /\ l.purgeEpoch <= e /\ IsFiniteSet(DOMAIN l.entries)
    /\ \A t \in DOMAIN l.entries : l.entries[t].firstEpoch <= e /\ l.purgeEpoch - 1 <= l.entries[t].firstEpoch

\* A record is of a use after its token's enrolment, or is given up in that epoch.
EnrolledOK(l, ins) ==
    \A i \in ins : i[1] \in DOMAIN l.entries =>
                     i[2] <= l.entries[i[1]].firstEpoch \/ Gone(l.entries[i[1]], i[2])

\* The records of the epochs from k on: each was paid for from the bucket after k had begun.
RecordsSince(l, k) == {t \in DOMAIN l.entries : l.entries[t].firstEpoch >= k}
PaidFor(l, b, k) ==
    /\ RecordsSince(l, k) # {} => b.last >= StartMs(k)
    /\ b.last >= StartMs(k) =>
          Cardinality(RecordsSince(l, k)) * UNIT + b.level
             <= Full("credited") + (b.last - StartMs(k)) * RefillPerMs["credited"]

\* The auditor is where the bucket was at its last decision.
ReplayOK(lane, a, b) ==
    /\ a \in Audits /\ a.seq = b.takes /\ a.level <= Full(lane)
    /\ a.seq = 0 => a.level = Full(lane) /\ b.level = Full(lane)
    /\ a.seq # 0 => /\ a.dt <= b.last
                    /\ b.level = AtMost(Full(lane), a.level + (b.last - a.dt) * RefillPerMs[lane])

ClockInv  == clock \in Nat /\ clock >= T0
FilterInv == /\ filter \in Filters /\ filter.epoch <= epochNow
             /\ inserted \subseteq Tokens \X (0 .. filter.epoch)
             /\ HoldsWindow(filter, inserted)
BucketInv == /\ bucket \in [Lanes -> Buckets]
             /\ \A lane \in Lanes : BucketOK(lane, bucket[lane], nowMs)
LedgerInv == LedgerOK(ledger, filter.epoch) /\ EnrolledOK(ledger, inserted)
UsesInv   == /\ uses \in [Tokens -> Nat]
             /\ \A t \in Tokens : Genuine(t) => uses[t] <= committed(ledger, t, epochNow)
PaidInv   == \A k \in 0 .. filter.epoch : PaidFor(ledger, bucket["credited"], k)
AuditInv  == /\ audit \in [Lanes -> Audits]
             /\ \A lane \in Lanes : ReplayOK(lane, audit[lane], bucket[lane])

LanesInv == ClockInv /\ FilterInv /\ BucketInv /\ LedgerInv /\ UsesInv /\ PaidInv /\ AuditInv
=============================================================================
