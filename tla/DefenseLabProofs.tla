--------------------------- MODULE DefenseLabProofs ---------------------------
(***************************************************************************)
(* Proofs about two parts of the defense laboratory that share nothing.    *)
(*                                                                         *)
(* The lanes, the credit filter, the use ledger and the replay of the      *)
(* buckets, for any tokens and shared bits, any resolution, epoch,         *)
(* capacity, refill, number of uses and time of construction.  LanesInv    *)
(* has seven parts: the clock; the two generations of the filter; the      *)
(* buckets; the ledger, whose records are of uses after an enrolment; the  *)
(* uses, none of which is forgotten while its enrolment lasts; what the    *)
(* records of each epoch have cost the credited bucket; the auditor.       *)
(*                                                                         *)
(* One level of the field qualification, for any number of canaries and    *)
(* requests and any children that may crash.                               *)
(***************************************************************************)
EXTENDS JourneyLanes, FieldLevel, FiniteSetTheorems, TLAPS

-----------------------------------------------------------------------------
(* Time.                                                                    *)

LEMMA DivBounds ==
  ASSUME NEW n \in Nat, NEW d \in Nat \ {0}
  PROVE  n \div d \in Nat /\ (n \div d) * d <= n /\ n < (n \div d) * d + d
OBVIOUS

LEMMA TimesMono ==
  ASSUME NEW a \in Nat, NEW b \in Nat, NEW d \in Nat, a <= b
  PROVE  a * d \in Nat /\ a * d <= b * d
OBVIOUS

LEMMA TimesPlus ==
  ASSUME NEW a \in Int, NEW b \in Int, NEW d \in Int
  PROVE  (a + b) * d = a * d + b * d /\ (a - b) * d = a * d - b * d /\ a * d \in Int
OBVIOUS

LEMMA TimesTimes ==
  ASSUME NEW a \in Nat, NEW b \in Nat, NEW d \in Nat
  PROVE  a * (b * d) = (a * b) * d /\ a * b \in Nat
OBVIOUS

\* Epochs are whole milliseconds: each begins in the millisecond it is said to.
LEMMA EpochBounds ==
  ASSUME NEW c \in Nat, c >= T0, NEW e, e = (c - T0) \div (EpochMs * Res), NEW ms, ms = c \div Res
  PROVE  /\ e \in Nat /\ ms \in Nat /\ T0 \div Res \in Nat /\ T0 \div Res <= ms
         /\ StartMs(e) <= ms /\ ms <= StartMs(e + 1)
<1>1. /\ Res \in Nat \ {0} /\ EpochMs \in Nat \ {0} /\ T0 \in Nat
  BY ConfigAssumption
<1>2. PICK W : W = EpochMs * Res
  OBVIOUS
<1>3. W \in Nat \ {0}
  BY <1>1, <1>2
<1>4. PICK n : n = c - T0
  OBVIOUS
<1>5. n \in Nat /\ c = T0 + n /\ e = n \div W
  BY <1>1, <1>2, <1>4
<1>6. e \in Nat /\ e * W <= n /\ n < e * W + W
  BY <1>3, <1>5, DivBounds
<1>7. PICK T : T = T0 \div Res
  OBVIOUS
<1>8. T \in Nat /\ T * Res <= T0 /\ T0 < T * Res + Res
  BY <1>1, <1>7, DivBounds
<1>9. ms \in Nat /\ ms * Res <= c /\ c < ms * Res + Res
  BY <1>1, DivBounds
<1>10. T <= ms
  <2>1. SUFFICES ASSUME ms + 1 <= T PROVE FALSE
    BY <1>8, <1>9
  <2>2. (ms + 1) * Res <= T * Res /\ (ms + 1) * Res = ms * Res + Res
    BY <1>1, <1>8, <1>9, <2>1, TimesMono, TimesPlus
  <2>3. ms * Res \in Nat /\ T * Res \in Nat
    BY <1>1, <1>8, <1>9
  <2> QED
    BY <1>1, <1>5, <1>8, <1>9, <2>2, <2>3
<1>11. PICK a : a = e * EpochMs
  OBVIOUS
<1>12. a \in Nat /\ a * Res = e * W
  <2>1. e \in Nat /\ EpochMs \in Nat /\ Res \in Nat
    BY <1>1, <1>6
  <2>2. e * (EpochMs * Res) = (e * EpochMs) * Res /\ e * EpochMs \in Nat
    BY ONLY <2>1, TimesTimes
  <2> QED
    BY <1>2, <1>11, <2>2
<1>13. StartMs(e) = T + a /\ StartMs(e + 1) = T + a + EpochMs
  <2>1. (e + 1) * EpochMs = a + EpochMs
    BY <1>1, <1>6, <1>11, TimesPlus
  <2> QED
    BY <1>1, <1>7, <1>8, <1>11, <1>12, <2>1 DEF StartMs
<1>14. /\ ms * Res \in Nat /\ T * Res \in Nat /\ a * Res \in Nat /\ EpochMs * Res = W
  BY <1>1, <1>2, <1>8, <1>9, <1>12
<1>15. T + a <= ms
  <2>1. SUFFICES ASSUME ms + 1 <= T + a PROVE FALSE
    BY <1>8, <1>9, <1>12
  <2>2. (ms + 1) * Res <= (T + a) * Res
    BY <1>1, <1>8, <1>9, <1>12, <2>1, TimesMono
  <2>3. (ms + 1) * Res = ms * Res + Res /\ (T + a) * Res = T * Res + a * Res
    BY <1>1, <1>8, <1>9, <1>12, TimesPlus
  <2> QED
    BY <1>1, <1>3, <1>5, <1>6, <1>8, <1>9, <1>12, <1>14, <2>2, <2>3
<1>16. ms <= T + a + EpochMs
  <2>1. SUFFICES ASSUME T + a + EpochMs + 1 <= ms PROVE FALSE
    BY <1>1, <1>8, <1>9, <1>12
  <2>2. (T + a + EpochMs + 1) * Res <= ms * Res
    BY <1>1, <1>8, <1>9, <1>12, <2>1, TimesMono
  <2>3. (T + a + EpochMs + 1) * Res = T * Res + a * Res + W + Res
    BY <1>1, <1>2, <1>8, <1>12, TimesPlus
  <2> QED
    BY <1>1, <1>3, <1>5, <1>6, <1>8, <1>9, <1>12, <1>14, <2>2, <2>3
<1> QED
  BY <1>6, <1>7, <1>8, <1>9, <1>10, <1>13, <1>15, <1>16

\* A tick begins at most one epoch and at most one millisecond.
LEMMA DivNext ==
  ASSUME NEW n \in Nat, NEW d \in Nat \ {0}
  PROVE  (n + 1) \div d \in {n \div d, n \div d + 1}
<1>1. PICK q : q = n \div d
  OBVIOUS
<1>2. PICK p : p = (n + 1) \div d
  OBVIOUS
<1>3. q \in Nat /\ q * d <= n /\ n < q * d + d
  BY <1>1, DivBounds
<1>4. p \in Nat /\ p * d <= n + 1 /\ n + 1 < p * d + d
  BY <1>2, DivBounds
<1>5. q * d \in Nat /\ p * d \in Nat /\ (p + 1) * d = p * d + d /\ (q + 2) * d = q * d + d + d
  BY <1>3, <1>4, TimesPlus
<1>6. q <= p
  <2>1. SUFFICES ASSUME p + 1 <= q PROVE FALSE
    BY <1>3, <1>4
  <2>2. (p + 1) * d <= q * d
    BY <1>3, <1>4, <2>1, TimesMono
  <2> QED
    BY <1>3, <1>4, <1>5, <2>2
<1>7. p <= q + 1
  <2>1. SUFFICES ASSUME q + 2 <= p PROVE FALSE
    BY <1>3, <1>4
  <2>2. (q + 2) * d <= p * d
    BY <1>3, <1>4, <2>1, TimesMono
  <2> QED
    BY <1>3, <1>4, <1>5, <2>2
<1> QED
  BY <1>1, <1>2, <1>3, <1>4, <1>6, <1>7

-----------------------------------------------------------------------------
(* The filter.                                                              *)

LEMMA BitsEnrolled ==
  ASSUME NEW ins, NEW e
  PROVE  \A x : x \in BitsOfEpoch(ins, e) <=> \E i \in ins : i[2] = e /\ x \in BitsOf[i[1]]
BY DEF BitsOfEpoch

LEMMA NoBitsYet ==
  ASSUME NEW e \in Nat, NEW ins \in SUBSET (Tokens \X (0 .. e)), NEW k \in Nat, e < k
  PROVE  BitsOfEpoch(ins, k) = {}
<1>1. \A i \in ins : i[2] \in 0 .. e
  OBVIOUS
<1>2. \A i \in ins : i[2] # k
  BY <1>1
<1> QED
  BY <1>2, BitsEnrolled

LEMMA Slots ==
  ASSUME NEW n \in Nat
  PROVE  n % 2 \in 0 .. 1 /\ (n + 1) % 2 \in 0 .. 1 /\ (n + 1) % 2 # n % 2
OBVIOUS

LEMMA AdvanceKeepsWindow ==
  ASSUME epochNow \in Nat, NEW f \in Filters, f.epoch <= epochNow,
         NEW ins \in SUBSET (Tokens \X (0 .. f.epoch)), HoldsWindow(f, ins)
  PROVE  advanceFilter(f) \in Filters /\ advanceFilter(f).epoch = epochNow /\ HoldsWindow(advanceFilter(f), ins)
<1>1. PICK e : e = epochNow
  OBVIOUS
<1>2. PICK o : o = f.epoch
  OBVIOUS
<1>3. e \in Nat /\ o \in Nat /\ o <= e /\ f.arrays \in [0..1 -> SUBSET AllBits] /\ ins \in SUBSET (Tokens \X (0 .. o))
  BY <1>1, <1>2 DEF Filters
<1>4. CASE e = o
  BY <1>1, <1>2, <1>3, <1>4 DEF advanceFilter
<1>5. CASE e = o + 1
  <2>1. (o + 1) - o = 1 /\ ~(o + 1 <= o) /\ \A s : s \in 0 .. (1 - 1) <=> s = 0
    BY <1>3
  <2>2. advanceFilter(f) = [epoch |-> e, arrays |-> [slot \in 0..1 |-> IF slot = e % 2 THEN {} ELSE f.arrays[slot]]]
    <3>1. e - 0 = e
      BY <1>3
    <3>2. {(e - s) % 2 : s \in 0 .. (1 - 1)} = {e % 2}
      BY <2>1, <3>1
    <3> QED
      BY <1>1, <1>2, <1>5, <2>1, <3>2 DEF advanceFilter
  <2>3. e % 2 \in 0 .. 1 /\ o % 2 \in 0 .. 1 /\ e % 2 # o % 2 /\ e - 1 = o /\ o < e
    BY <1>3, <1>5, Slots
  <2>4. BitsOfEpoch(ins, e) = {}
    BY <1>3, <2>3, NoBitsYet
  <2>5. f.arrays[o % 2] = BitsOfEpoch(ins, o)
    BY <1>2 DEF HoldsWindow
  <2>6. PICK g : g = advanceFilter(f)
    OBVIOUS
  <2>7. g.epoch = e /\ g.arrays[e % 2] = {} /\ g.arrays[o % 2] = f.arrays[o % 2] /\ g \in Filters
    BY <1>3, <2>2, <2>3, <2>6 DEF Filters
  <2>8. HoldsWindow(g, ins)
    BY <2>3, <2>4, <2>5, <2>7 DEF HoldsWindow
  <2> QED
    BY <1>1, <2>6, <2>7, <2>8
<1>6. CASE o + 2 <= e
  <2>1. e - o # 1 /\ ~(e <= o) /\ \A s : s \in 0 .. (2 - 1) <=> s = 0 \/ s = 1
    BY <1>3, <1>6
  <2>2. e % 2 \in 0 .. 1 /\ (e - 1) % 2 \in 0 .. 1 /\ (e - 1) % 2 # e % 2 /\ e - 1 \in Nat /\ o < e /\ o < e - 1
    <3>1. e - 1 \in Nat /\ (e - 1) + 1 = e /\ o < e /\ o < e - 1
      BY <1>3, <1>6
    <3> QED
      BY <3>1, Slots
  <2>3. \A slot \in 0 .. 1 : slot = e % 2 \/ slot = (e - 1) % 2
    <3>1. \A i, j \in 0 .. 1 : i # j => \A slot \in 0 .. 1 : slot = i \/ slot = j
      OBVIOUS
    <3> QED
      BY <2>2, <3>1
  <2>4. advanceFilter(f) = [epoch |-> e, arrays |-> [slot \in 0..1 |-> {}]]
    <3>1. e - 0 = e
      BY <1>3
    <3>2. {(e - s) % 2 : s \in 0 .. (2 - 1)} = {e % 2, (e - 1) % 2}
      BY <2>1, <3>1
    <3>3. advanceFilter(f) = [epoch |-> e, arrays |-> [slot \in 0..1 |-> IF slot \in {e % 2, (e - 1) % 2} THEN {} ELSE f.arrays[slot]]]
      BY <1>1, <1>2, <2>1, <3>2 DEF advanceFilter
    <3> QED
      BY <2>3, <3>3
  <2>5. BitsOfEpoch(ins, e) = {} /\ BitsOfEpoch(ins, e - 1) = {}
    BY <1>3, <2>2, NoBitsYet
  <2>6. PICK g : g = advanceFilter(f)
    OBVIOUS
  <2>7. g.epoch = e /\ g.arrays[e % 2] = {} /\ g.arrays[(e - 1) % 2] = {} /\ g \in Filters
    BY <1>3, <2>2, <2>4, <2>6 DEF Filters
  <2>8. HoldsWindow(g, ins)
    BY <2>5, <2>7 DEF HoldsWindow
  <2> QED
    BY <1>1, <2>6, <2>7, <2>8
<1> QED
  BY <1>3, <1>4, <1>5, <1>6

LEMMA InsertKeepsWindow ==
  ASSUME NEW f \in Filters, NEW ins \in SUBSET (Tokens \X (0 .. f.epoch)), HoldsWindow(f, ins), NEW t \in Tokens,
         NEW new, new = {i \in ins : i[2] >= f.epoch - 1} \union {<<t, f.epoch>>}
  PROVE  /\ insert(f, t) \in Filters /\ insert(f, t).epoch = f.epoch
         /\ new \in SUBSET (Tokens \X (0 .. f.epoch)) /\ HoldsWindow(insert(f, t), new)
<1>1. PICK e : e = f.epoch
  OBVIOUS
<1>2. e \in Nat /\ f.arrays \in [0..1 -> SUBSET AllBits] /\ e % 2 \in 0 .. 1
  BY <1>1, Slots DEF Filters
<1>3. BitsOf[t] \subseteq AllBits
  BY DEF AllBits
<1>4. PICK g : g = insert(f, t)
  OBVIOUS
<1>5. /\ g.epoch = e /\ g.arrays = [f.arrays EXCEPT ![e % 2] = @ \union BitsOf[t]]
      /\ DOMAIN g = {"epoch", "arrays"} /\ g = [epoch |-> g.epoch, arrays |-> g.arrays]
  BY <1>1, <1>4 DEF insert, Filters
<1>6. g.arrays \in [0..1 -> SUBSET AllBits] /\ g.arrays[e % 2] = f.arrays[e % 2] \union BitsOf[t]
      /\ \A s \in 0 .. 1 : s # e % 2 => g.arrays[s] = f.arrays[s]
  BY <1>2, <1>3, <1>5
<1>7. g \in Filters
  BY <1>2, <1>5, <1>6 DEF Filters
<1>8. e \in 0 .. e /\ \A i \in ins : i[2] \in 0 .. e
  BY <1>1, <1>2
<1>9. new \in SUBSET (Tokens \X (0 .. e))
  BY <1>1, <1>8
<1>10. BitsOfEpoch(new, e) = BitsOfEpoch(ins, e) \union BitsOf[t]
  <2>1. \A i : i \in new /\ i[2] = e <=> (i \in ins /\ i[2] = e) \/ i = <<t, e>>
    <3>1. e >= e - 1
      BY <1>2
    <3> QED
      BY <1>1, <3>1
  <2>2. ASSUME NEW x \in BitsOfEpoch(new, e)
        PROVE  x \in BitsOfEpoch(ins, e) \union BitsOf[t]
    <3>1. PICK i \in new : i[2] = e /\ x \in BitsOf[i[1]]
      BY BitsEnrolled
    <3>2. CASE i = <<t, e>>
      BY <3>1, <3>2
    <3>3. CASE i \in ins
      BY <3>1, <3>3, BitsEnrolled
    <3> QED
      BY <2>1, <3>1, <3>2, <3>3
  <2>3. ASSUME NEW x \in BitsOfEpoch(ins, e)
        PROVE  x \in BitsOfEpoch(new, e)
    <3>1. PICK i \in ins : i[2] = e /\ x \in BitsOf[i[1]]
      BY BitsEnrolled
    <3>2. i \in new
      BY <2>1, <3>1
    <3> QED
      BY <3>1, <3>2, BitsEnrolled
  <2>4. ASSUME NEW x \in BitsOf[t]
        PROVE  x \in BitsOfEpoch(new, e)
    <3>1. <<t, e>> \in new /\ <<t, e>>[2] = e /\ <<t, e>>[1] = t
      BY <1>1
    <3>2. PICK i \in new : i[2] = e /\ i[1] = t
      BY <3>1
    <3> QED
      BY <3>2, BitsEnrolled
  <2> QED
    BY <2>2, <2>3, <2>4
<1>11. e >= 1 => BitsOfEpoch(new, e - 1) = BitsOfEpoch(ins, e - 1)
  <2>1. e - 1 >= e - 1 /\ e # e - 1
    BY <1>2
  <2>2. \A i : i \in new /\ i[2] = e - 1 <=> i \in ins /\ i[2] = e - 1
    BY <1>1, <2>1
  <2>3. ASSUME NEW x
        PROVE  x \in BitsOfEpoch(new, e - 1) <=> x \in BitsOfEpoch(ins, e - 1)
    <3>1. x \in BitsOfEpoch(new, e - 1) <=> \E i \in new : i[2] = e - 1 /\ x \in BitsOf[i[1]]
      BY BitsEnrolled
    <3>2. x \in BitsOfEpoch(ins, e - 1) <=> \E i \in ins : i[2] = e - 1 /\ x \in BitsOf[i[1]]
      BY BitsEnrolled
    <3> QED
      BY <2>2, <3>1, <3>2
  <2> QED
    BY <2>3
<1>12. e >= 1 => (e - 1) % 2 \in 0 .. 1 /\ (e - 1) % 2 # e % 2
  <2>1. e >= 1 => e - 1 \in Nat /\ (e - 1) + 1 = e
    BY <1>2
  <2> QED
    BY <2>1, Slots
<1>13. HoldsWindow(g, new)
  BY <1>1, <1>5, <1>6, <1>10, <1>11, <1>12 DEF HoldsWindow
<1> QED
  BY <1>1, <1>4, <1>5, <1>7, <1>9, <1>13

-----------------------------------------------------------------------------
(* The buckets and their auditor.                                           *)

LEMMA AtMostIs ==
  ASSUME NEW F \in Nat, NEW n \in Nat
  PROVE  AtMost(F, n) \in Nat /\ AtMost(F, n) <= F /\ AtMost(F, n) <= n /\ (F <= n => AtMost(F, n) = F)
         /\ (n <= F => AtMost(F, n) = n)
BY DEF AtMost

LEMMA AtMostTwice ==
  ASSUME NEW F \in Nat, NEW x \in Nat, NEW y \in Nat
  PROVE  AtMost(F, AtMost(F, x) + y) = AtMost(F, x + y)
BY DEF AtMost

LEMMA FullIs ==
  ASSUME NEW lane \in Lanes
  PROVE  Full(lane) \in Nat /\ UNIT \in Nat \ {0} /\ UNIT <= Full(lane) /\ RefillPerMs[lane] \in Nat
<1>1. Capacity[lane] \in Nat \ {0} /\ UNIT \in Nat \ {0} /\ RefillPerMs[lane] \in Nat
  BY ConfigAssumption
<1>2. PICK c : c = Capacity[lane]
  OBVIOUS
<1>3. 1 \in Nat /\ 1 <= c /\ c \in Nat /\ UNIT \in Nat
  BY <1>1, <1>2
<1>4. c * UNIT \in Nat /\ 1 * UNIT <= c * UNIT
  BY <1>3, TimesMono
<1> QED
  BY <1>1, <1>2, <1>4 DEF Full

\* What a refill finds and leaves.
LEMMA RefillIs ==
  ASSUME NEW lane \in Lanes, nowMs \in Nat, T0 \div Res \in Nat, BucketOK(lane, bucket[lane], nowMs)
  PROVE  /\ refill(lane) \in Buckets /\ refill(lane).last = nowMs /\ refill(lane).takes = bucket[lane].takes
         /\ refill(lane).level = AtMost(Full(lane), bucket[lane].level + (nowMs - bucket[lane].last) * RefillPerMs[lane])
         /\ (nowMs - bucket[lane].last) * RefillPerMs[lane] \in Nat
         /\ BucketOK(lane, refill(lane), nowMs)
<1>1. PICK b : b = bucket[lane]
  OBVIOUS
<1>2. PICK ms : ms = nowMs
  OBVIOUS
<1>3. PICK R : R = RefillPerMs[lane]
  OBVIOUS
<1>4. PICK F : F = Full(lane)
  OBVIOUS
<1>5. F \in Nat /\ R \in Nat
  BY <1>3, <1>4, FullIs
<1>6. b \in Buckets /\ b.level \in Nat /\ b.last \in Nat /\ b.takes \in Nat /\ b.last <= ms /\ ms \in Nat /\ T0 \div Res <= ms
  <2>1. b \in Buckets /\ b.last <= ms /\ ms \in Nat /\ T0 \div Res <= b.last
    BY <1>1, <1>2 DEF BucketOK
  <2>2. b.level \in Nat /\ b.last \in Nat /\ b.takes \in Nat
    BY <2>1 DEF Buckets
  <2> QED
    BY <2>1, <2>2
<1>7. PICK x : x = (ms - b.last) * R
  OBVIOUS
<1>8. ms - b.last \in Nat
  BY <1>6
<1>9. x \in Nat
  BY <1>5, <1>7, <1>8, TimesMono
<1>10. AtMost(F, b.level + x) \in Nat /\ AtMost(F, b.level + x) <= F
  <2>1. PICK n : n = b.level + x
    OBVIOUS
  <2>2. n \in Nat
    BY <1>6, <1>9, <2>1
  <2>3. AtMost(F, n) \in Nat /\ AtMost(F, n) <= F
    BY <1>5, <2>2, AtMostIs
  <2> QED
    BY <2>1, <2>3
<1>11. PICK v : v = AtMost(F, b.level + x)
  OBVIOUS
<1>12. refill(lane) = [b EXCEPT !.level = v, !.last = ms]
  BY <1>1, <1>2, <1>3, <1>4, <1>7, <1>11 DEF refill, Full
<1>13. PICK r : r = refill(lane)
  OBVIOUS
<1>14. r \in Buckets /\ r.level = v /\ r.last = ms /\ r.takes = b.takes
  BY <1>6, <1>10, <1>11, <1>12, <1>13 DEF Buckets
<1>15. BucketOK(lane, r, ms)
  BY <1>4, <1>6, <1>10, <1>11, <1>14 DEF BucketOK
<1> QED
  BY <1>1, <1>2, <1>3, <1>4, <1>7, <1>9, <1>11, <1>13, <1>14, <1>15

\* The auditor cannot tell that a bucket was looked at.
LEMMA ReplayRefill ==
  ASSUME NEW lane \in Lanes, NEW a, NEW b \in Buckets, NEW r \in Buckets, ReplayOK(lane, a, b),
         b.last <= r.last, r.takes = b.takes,
         r.level = AtMost(Full(lane), b.level + (r.last - b.last) * RefillPerMs[lane])
  PROVE  ReplayOK(lane, a, r)
<1>1. PICK F : F = Full(lane)
  OBVIOUS
<1>2. PICK R : R = RefillPerMs[lane]
  OBVIOUS
<1>3. F \in Nat /\ R \in Nat
  BY <1>1, <1>2, FullIs
<1>4. b.last \in Nat /\ r.last \in Nat /\ b.level \in Nat /\ a \in Audits /\ a.dt \in Nat /\ a.level \in Nat /\ a.seq \in Nat
  BY DEF Buckets, Audits, ReplayOK
<1>5. PICK y : y = (r.last - b.last) * R
  OBVIOUS
<1>6. y \in Nat
  <2>1. r.last - b.last \in Nat
    BY <1>4
  <2> QED
    BY <1>3, <1>5, <2>1, TimesMono
<1>7. CASE a.seq = 0
  <2>1. b.level = F /\ a.level = F
    BY <1>1, <1>7 DEF ReplayOK
  <2>2. AtMost(F, F + y) = F
    BY <1>3, <1>6 DEF AtMost
  <2>3. r.level = F
    BY <1>1, <1>2, <1>5, <2>1, <2>2
  <2> QED
    BY <1>1, <1>7, <2>1, <2>3 DEF ReplayOK
<1>8. CASE a.seq # 0
  <2>1. PICK x : x = (b.last - a.dt) * R
    OBVIOUS
  <2>2. a.dt <= b.last /\ b.level = AtMost(F, a.level + x)
    BY <1>1, <1>2, <1>8, <2>1 DEF ReplayOK
  <2>3. x \in Nat
    <3>1. b.last - a.dt \in Nat
      BY <1>4, <2>2
    <3> QED
      BY <1>3, <2>1, <3>1, TimesMono
  <2>4. x + y = (r.last - a.dt) * R
    <3>1. PICK i : i = b.last - a.dt
      OBVIOUS
    <3>2. PICK j : j = r.last - b.last
      OBVIOUS
    <3>3. i \in Int /\ j \in Int /\ i + j = r.last - a.dt
      BY <1>4, <3>1, <3>2
    <3>4. (i + j) * R = i * R + j * R
      BY <1>3, <3>3, TimesPlus
    <3> QED
      BY <1>5, <2>1, <3>1, <3>2, <3>3, <3>4
  <2>5. AtMost(F, AtMost(F, a.level + x) + y) = AtMost(F, (a.level + x) + y)
    <3>1. a.level + x \in Nat
      BY <1>4, <2>3
    <3> QED
      BY <1>3, <1>6, <3>1, AtMostTwice
  <2>6. (a.level + x) + y = a.level + (x + y)
    BY <1>4, <1>6, <2>3
  <2>7. r.level = AtMost(F, a.level + (r.last - a.dt) * R)
    BY <1>1, <1>2, <1>5, <2>2, <2>4, <2>5, <2>6
  <2>8. a.dt <= r.last
    BY <1>4, <2>2
  <2> QED
    BY <1>1, <1>2, <1>8, <2>7, <2>8 DEF ReplayOK
<1> QED
  BY <1>7, <1>8

\* What a take leaves, and that the auditor predicts it.
LEMMA TakeIs ==
  ASSUME NEW lane \in Lanes, nowMs \in Nat, refill(lane) \in Buckets, refill(lane).last = nowMs,
         BucketOK(lane, refill(lane), nowMs)
  PROVE  /\ take(lane) \in Buckets /\ take(lane).last = nowMs /\ take(lane).takes = refill(lane).takes + 1
         /\ take(lane).level = IF HasToken(lane) THEN refill(lane).level - UNIT ELSE refill(lane).level
         /\ BucketOK(lane, take(lane), nowMs)
<1>1. PICK r : r = refill(lane)
  OBVIOUS
<1>2. /\ r \in Buckets /\ r.level \in Nat /\ r.last = nowMs /\ r.takes \in Nat /\ r.level <= Full(lane)
      /\ T0 \div Res <= r.last /\ UNIT \in Nat /\ Full(lane) \in Nat
  BY <1>1, FullIs DEF Buckets, BucketOK
<1>3. PICK v : v = IF HasToken(lane) THEN r.level - UNIT ELSE r.level
  OBVIOUS
<1>4. v \in Nat /\ v <= Full(lane)
  BY <1>1, <1>2, <1>3 DEF HasToken
<1>5. PICK n : n = r.takes + 1
  OBVIOUS
<1>6. n \in Nat
  BY <1>2, <1>5
<1>7. take(lane) = [r EXCEPT !.takes = n, !.level = v]
  BY <1>1, <1>3, <1>5 DEF take, HasToken
<1>8. PICK b : b = take(lane)
  OBVIOUS
<1>9. b \in Buckets /\ b.level = v /\ b.takes = n /\ b.last = r.last
  BY <1>2, <1>4, <1>6, <1>7, <1>8 DEF Buckets
<1>10. BucketOK(lane, b, nowMs)
  BY <1>2, <1>4, <1>9 DEF BucketOK
<1> QED
  BY <1>1, <1>2, <1>3, <1>5, <1>8, <1>9, <1>10

LEMMA ReplayTake ==
  ASSUME NEW lane \in Lanes, NEW r \in Buckets, NEW b \in Buckets, NEW consumed \in BOOLEAN,
         audit \in [Lanes -> Audits], ReplayOK(lane, audit[lane], r), r.level <= Full(lane),
         consumed <=> r.level >= UNIT, b.last = r.last, b.takes = r.takes + 1,
         b.level = IF consumed THEN r.level - UNIT ELSE r.level,
         audit' = auditBucket(lane, consumed, b)
  PROVE  /\ audit' \in [Lanes -> Audits] /\ ReplayOK(lane, audit'[lane], b)
         /\ \A other \in Lanes \ {lane} : audit'[other] = audit[other]
<1>1. PICK a : a = audit[lane]
  OBVIOUS
<1>2. PICK F : F = Full(lane)
  OBVIOUS
<1>3. PICK R : R = RefillPerMs[lane]
  OBVIOUS
<1>4. F \in Nat /\ R \in Nat /\ UNIT \in Nat \ {0}
  BY <1>2, <1>3, FullIs
<1>5. a \in Audits /\ a.dt \in Nat /\ a.level \in Nat /\ a.seq \in Nat /\ a.gaps = 0 /\ a.mismatches = 0
  BY <1>1 DEF ReplayOK, Audits
<1>6. /\ r.level \in Nat /\ r.last \in Nat /\ r.takes \in Nat /\ b.level \in Nat /\ b.last \in Nat /\ b.takes \in Nat
  BY DEF Buckets
<1>7. PICK elapsed : elapsed = IF a.seq = 0 THEN 0 ELSE b.last - a.dt
  OBVIOUS
<1>8. PICK available : available = AtMost(F, a.level + elapsed * R)
  OBVIOUS
<1>9. elapsed \in Nat /\ available = r.level
  <2>1. CASE a.seq = 0
    <3>1. elapsed = 0 /\ 0 * R = 0
      BY <1>4, <1>7, <2>1
    <3>2. a.level = F /\ r.level = F
      BY <1>1, <1>2, <2>1 DEF ReplayOK
    <3>3. F + 0 = F /\ AtMost(F, F) = F
      BY <1>4 DEF AtMost
    <3> QED
      BY <1>8, <3>1, <3>2, <3>3
  <2>2. CASE a.seq # 0
    <3>1. elapsed = r.last - a.dt /\ a.dt <= r.last
      BY <1>1, <1>7, <2>2 DEF ReplayOK
    <3>2. r.level = AtMost(F, a.level + (r.last - a.dt) * R)
      BY <1>1, <1>2, <1>3, <2>2 DEF ReplayOK
    <3> QED
      BY <1>5, <1>6, <1>8, <3>1, <3>2
  <2> QED
    BY <2>1, <2>2
<1>10. PICK n : n = [level |-> b.level, dt |-> b.last, seq |-> b.takes, gaps |-> 0, mismatches |-> 0]
  OBVIOUS
<1>11. b.takes = a.seq + 1 /\ a.seq = r.takes
  BY <1>1 DEF ReplayOK
<1>12. audit' = [audit EXCEPT ![lane] = n]
  <2>1. PICK expected : expected = IF consumed THEN available - UNIT ELSE available
    OBVIOUS
  <2>2. PICK wrong : wrong = (elapsed < 0 \/ consumed # (available >= UNIT) \/ b.level # expected)
    OBVIOUS
  <2>3. ~wrong
    <3>1. ~(elapsed < 0)
      BY <1>9
    <3>2. b.level = expected
      BY <1>9, <2>1
    <3>3. consumed = (available >= UNIT)
      BY <1>4, <1>6, <1>9
    <3> QED
      BY <2>2, <3>1, <3>2, <3>3
  <2>4. audit' = [audit EXCEPT ![lane] =
           [level |-> b.level, dt |-> b.last, seq |-> b.takes,
            gaps |-> a.gaps + (IF b.takes # a.seq + 1 THEN 1 ELSE 0),
            mismatches |-> a.mismatches + (IF wrong THEN 1 ELSE 0)]]
    BY <1>1, <1>2, <1>3, <1>7, <1>8, <2>1, <2>2 DEF auditBucket, Full
  <2>5. /\ a.gaps + (IF b.takes # a.seq + 1 THEN 1 ELSE 0) = 0
        /\ a.mismatches + (IF wrong THEN 1 ELSE 0) = 0
    BY <1>5, <1>11, <2>3
  <2> QED
    BY <1>10, <2>4, <2>5
<1>13. /\ n \in Audits /\ n.level = b.level /\ n.dt = b.last /\ n.seq = b.takes
  BY <1>6, <1>10 DEF Audits
<1>14. audit' \in [Lanes -> Audits] /\ audit'[lane] = n /\ \A other \in Lanes \ {lane} : audit'[other] = audit[other]
  BY <1>12, <1>13
<1>15. ReplayOK(lane, n, b)
  <2>1. b.level <= F
    BY <1>2, <1>4, <1>6
  <2>2. (b.last - b.last) * R = 0 /\ b.level + 0 = b.level
    BY <1>4, <1>6
  <2>3. AtMost(F, b.level) = b.level
    BY <1>4, <1>6, <2>1, AtMostIs
  <2>4. n.seq # 0
    BY <1>5, <1>11, <1>13
  <2> QED
    BY <1>2, <1>3, <1>6, <1>13, <2>1, <2>2, <2>3, <2>4 DEF ReplayOK
<1> QED
  BY <1>14, <1>15

LEMMA NowIs ==
  ASSUME ClockInv
  PROVE  nowMs \in Nat /\ T0 \div Res \in Nat /\ T0 \div Res <= nowMs /\ epochNow \in Nat
         /\ StartMs(epochNow) <= nowMs /\ nowMs <= StartMs(epochNow + 1)
<1>1. PICK c : c = clock
  OBVIOUS
<1>2. c \in Nat /\ c >= T0
  BY <1>1 DEF ClockInv
<1>3. PICK e : e = (c - T0) \div (EpochMs * Res)
  OBVIOUS
<1>4. PICK ms : ms = c \div Res
  OBVIOUS
<1>5. /\ e \in Nat /\ ms \in Nat /\ T0 \div Res \in Nat /\ T0 \div Res <= ms
      /\ StartMs(e) <= ms /\ ms <= StartMs(e + 1)
  BY <1>2, <1>3, <1>4, EpochBounds
<1>6. epochNow = e /\ nowMs = ms
  BY <1>1, <1>3, <1>4 DEF epochNow, nowMs
<1> QED
  BY <1>5, <1>6

\* Before it is taken from, a bucket is brought to the present: the auditor follows.
LEMMA RefilledLane ==
  ASSUME ClockInv, BucketInv, AuditInv, NEW lane \in Lanes
  PROVE  /\ bucket[lane] \in Buckets /\ bucket[lane].last <= nowMs
         /\ refill(lane) \in Buckets /\ refill(lane).last = nowMs /\ refill(lane).takes = bucket[lane].takes
         /\ refill(lane).level = AtMost(Full(lane), bucket[lane].level + (nowMs - bucket[lane].last) * RefillPerMs[lane])
         /\ (nowMs - bucket[lane].last) * RefillPerMs[lane] \in Nat
         /\ BucketOK(lane, refill(lane), nowMs)
         /\ ReplayOK(lane, audit[lane], refill(lane))
<1>1. BucketOK(lane, bucket[lane], nowMs) /\ bucket[lane] \in Buckets /\ bucket[lane].last <= nowMs
  BY DEF BucketInv, BucketOK
<1>2. /\ refill(lane) \in Buckets /\ refill(lane).last = nowMs /\ refill(lane).takes = bucket[lane].takes
      /\ refill(lane).level = AtMost(Full(lane), bucket[lane].level + (nowMs - bucket[lane].last) * RefillPerMs[lane])
      /\ (nowMs - bucket[lane].last) * RefillPerMs[lane] \in Nat
      /\ BucketOK(lane, refill(lane), nowMs)
  BY <1>1, NowIs, RefillIs
<1>3. PICK a : a = audit[lane]
  OBVIOUS
<1>4. PICK b : b = bucket[lane]
  OBVIOUS
<1>5. PICK r : r = refill(lane)
  OBVIOUS
<1>6. ReplayOK(lane, a, b) /\ b \in Buckets /\ r \in Buckets /\ b.last <= r.last /\ r.takes = b.takes
      /\ r.level = AtMost(Full(lane), b.level + (r.last - b.last) * RefillPerMs[lane])
  BY <1>1, <1>2, <1>3, <1>4, <1>5 DEF AuditInv
<1>7. ReplayOK(lane, a, r)
  BY <1>6, ReplayRefill
<1> QED
  BY <1>1, <1>2, <1>3, <1>5, <1>7

LEMMA TakeFromStep ==
  ASSUME ClockInv, BucketInv, AuditInv, NEW lane \in Lanes, NEW late \in BOOLEAN, TakeFrom(lane, late), UNCHANGED clock
  PROVE  /\ BucketInv' /\ AuditInv' /\ bucket'[lane] = take(lane)
         /\ \A other \in Lanes \ {lane} : bucket'[other] = bucket[other]
<1>1. /\ refill(lane) \in Buckets /\ refill(lane).last = nowMs /\ BucketOK(lane, refill(lane), nowMs)
      /\ ReplayOK(lane, audit[lane], refill(lane)) /\ nowMs \in Nat
  BY RefilledLane, NowIs
<1>2. /\ take(lane) \in Buckets /\ take(lane).last = nowMs /\ take(lane).takes = refill(lane).takes + 1
      /\ take(lane).level = IF HasToken(lane) THEN refill(lane).level - UNIT ELSE refill(lane).level
      /\ BucketOK(lane, take(lane), nowMs)
  BY <1>1, TakeIs
<1>3. PICK r : r = refill(lane)
  OBVIOUS
<1>4. PICK b : b = take(lane)
  OBVIOUS
<1>5. PICK consumed : consumed = HasToken(lane)
  OBVIOUS
<1>6. consumed \in BOOLEAN /\ (consumed <=> r.level >= UNIT)
  <2>1. r.level \in Nat /\ UNIT \in Nat
    BY <1>1, <1>3, FullIs DEF Buckets
  <2>2. consumed = (r.level >= UNIT)
    BY <1>3, <1>5 DEF HasToken
  <2>3. CASE r.level >= UNIT
    <3>1. (r.level >= UNIT) = TRUE
      BY <2>1, <2>3
    <3> QED
      BY <2>2, <2>3, <3>1, Zenon
  <2>4. CASE ~(r.level >= UNIT)
    <3>1. (r.level >= UNIT) = FALSE
      BY <2>1, <2>4
    <3> QED
      BY <2>2, <2>4, <3>1, Zenon
  <2> QED
    BY <2>3, <2>4
<1>7. audit' = auditBucket(lane, consumed, b) /\ bucket' = [bucket EXCEPT ![lane] = b]
  BY <1>4, <1>5 DEF TakeFrom, Record
<1>8. /\ r \in Buckets /\ b \in Buckets /\ ReplayOK(lane, audit[lane], r) /\ r.level <= Full(lane)
      /\ b.last = r.last /\ b.takes = r.takes + 1 /\ b.level = IF consumed THEN r.level - UNIT ELSE r.level
  BY <1>1, <1>2, <1>3, <1>4, <1>5 DEF BucketOK
<1>9. audit \in [Lanes -> Audits]
  BY DEF AuditInv
<1>10. /\ audit' \in [Lanes -> Audits] /\ ReplayOK(lane, audit'[lane], b)
       /\ \A other \in Lanes \ {lane} : audit'[other] = audit[other]
  BY <1>6, <1>7, <1>8, <1>9, ReplayTake
<1>11. bucket \in [Lanes -> Buckets] /\ \A other \in Lanes : BucketOK(other, bucket[other], nowMs)
  BY DEF BucketInv
<1>12. /\ bucket' \in [Lanes -> Buckets] /\ bucket'[lane] = b
       /\ \A other \in Lanes \ {lane} : bucket'[other] = bucket[other]
  BY <1>7, <1>8, <1>11
<1>13. nowMs' = nowMs
  BY DEF nowMs
<1>14. \A other \in Lanes : BucketOK(other, bucket'[other], nowMs')
  BY <1>2, <1>4, <1>11, <1>12, <1>13
<1>15. \A other \in Lanes : ReplayOK(other, audit'[other], bucket'[other])
  BY <1>10, <1>12 DEF AuditInv
<1>16. BucketInv' /\ AuditInv'
  BY <1>10, <1>12, <1>14, <1>15 DEF BucketInv, AuditInv, BucketOK, ReplayOK, Buckets, Audits, Full
<1> QED
  BY <1>4, <1>12, <1>16

-----------------------------------------------------------------------------
(* The ledger.                                                              *)

LEMMA EntryMapIs ==
  ASSUME NEW em
  PROVE  em \in EntryMaps <=> /\ DOMAIN em \subseteq Tokens /\ em = [t \in DOMAIN em |-> em[t]]
                             /\ \A t \in DOMAIN em : em[t] \in Entry
<1>1. ASSUME em \in EntryMaps
      PROVE  /\ DOMAIN em \subseteq Tokens /\ em = [t \in DOMAIN em |-> em[t]]
             /\ \A t \in DOMAIN em : em[t] \in Entry
  <2>1. PICK S \in SUBSET Tokens : em \in [S -> Entry]
    BY <1>1 DEF EntryMaps
  <2> QED
    BY <2>1
<1>2. ASSUME DOMAIN em \subseteq Tokens, em = [t \in DOMAIN em |-> em[t]], \A t \in DOMAIN em : em[t] \in Entry
      PROVE  em \in EntryMaps
  <2>1. PICK S \in SUBSET Tokens : S = DOMAIN em
    BY <1>2
  <2>2. em \in [S -> Entry]
    BY <1>2, <2>1
  <2> QED
    BY <2>1, <2>2 DEF EntryMaps
<1> QED
  BY <1>1, <1>2

LEMMA LedgerIs ==
  ASSUME NEW l, NEW e, LedgerOK(l, e)
  PROVE  /\ l.entries \in EntryMaps /\ l.purgeEpoch \in Nat /\ l.refusals = 0 /\ l.violations = 0 /\ l.purgeEpoch <= e
         /\ DOMAIN l.entries \subseteq Tokens /\ IsFiniteSet(DOMAIN l.entries)
         /\ l = [entries |-> l.entries, purgeEpoch |-> l.purgeEpoch, refusals |-> l.refusals, violations |-> l.violations]
         /\ \A t \in DOMAIN l.entries : /\ l.entries[t] \in Entry /\ l.entries[t].committed \in 1 .. MaxUses
                                         /\ l.entries[t].firstEpoch \in Nat /\ l.entries[t].firstEpoch <= e
                                         /\ l.purgeEpoch - 1 <= l.entries[t].firstEpoch
<1>1. l \in Ledgers /\ l.entries \in EntryMaps
  BY DEF LedgerOK, Ledgers
<1>2. DOMAIN l.entries \subseteq Tokens /\ \A t \in DOMAIN l.entries : l.entries[t] \in Entry
  BY <1>1, EntryMapIs
<1> QED
  BY <1>1, <1>2 DEF LedgerOK, Ledgers, Entry

\* A purge takes what is given up, and nothing a decision would count.
LEMMA PurgeKeeps ==
  ASSUME NEW e \in Nat, NEW l, LedgerOK(l, e), NEW p \in Nat, e <= p
  PROVE  /\ LedgerOK(purge(l, p), p) /\ purge(l, p).purgeEpoch = p
         /\ DOMAIN purge(l, p).entries \subseteq DOMAIN l.entries
         /\ \A t \in DOMAIN purge(l, p).entries : purge(l, p).entries[t] = l.entries[t]
         /\ \A t : committed(purge(l, p), t, p) = committed(l, t, p)
<1>1. PICK em : em = l.entries
  OBVIOUS
<1>2. PICK kept : kept = {t \in DOMAIN em : ~Gone(em[t], p)}
  OBVIOUS
<1>3. /\ em \in EntryMaps /\ DOMAIN em \subseteq Tokens /\ IsFiniteSet(DOMAIN em) /\ l.refusals = 0 /\ l.violations = 0
      /\ \A t \in DOMAIN em : em[t] \in Entry /\ em[t].firstEpoch \in Nat /\ em[t].firstEpoch <= e
      /\ l = [entries |-> l.entries, purgeEpoch |-> l.purgeEpoch, refusals |-> l.refusals, violations |-> l.violations]
  BY <1>1, LedgerIs
<1>4. PICK n : n = [t \in kept |-> em[t]]
  OBVIOUS
<1>5. /\ DOMAIN n = kept /\ kept \subseteq DOMAIN em /\ \A t \in kept : n[t] = em[t]
  BY <1>2, <1>4
<1>6. n \in EntryMaps
  BY <1>3, <1>4, <1>5, EntryMapIs
<1>7. IsFiniteSet(kept)
  BY <1>3, <1>5, FS_Subset
<1>8. PICK g : g = purge(l, p)
  OBVIOUS
<1>9. g = [l EXCEPT !.entries = n, !.purgeEpoch = p]
  BY <1>1, <1>2, <1>4, <1>8 DEF purge
<1>10. g = [entries |-> n, purgeEpoch |-> p, refusals |-> 0, violations |-> 0]
  BY <1>3, <1>9
<1>11. g \in Ledgers /\ g.entries = n /\ g.purgeEpoch = p
  BY <1>6, <1>10 DEF Ledgers
<1>12. \A t \in kept : em[t].firstEpoch <= p /\ p - 1 <= em[t].firstEpoch
  BY <1>2, <1>3 DEF Gone
<1>13. LedgerOK(g, p)
  BY <1>5, <1>7, <1>11, <1>12 DEF LedgerOK
<1>14. \A t : committed(g, t, p) = committed(l, t, p)
  BY <1>1, <1>2, <1>5, <1>11 DEF committed
<1> QED
  BY <1>1, <1>5, <1>8, <1>11, <1>13, <1>14

LEMMA MaybePurgeKeeps ==
  ASSUME NEW e \in Nat, NEW l, LedgerOK(l, e), NEW p \in Nat, e <= p
  PROVE  /\ LedgerOK(maybePurge(l, p), p) /\ maybePurge(l, p).purgeEpoch = p
         /\ DOMAIN maybePurge(l, p).entries \subseteq DOMAIN l.entries
         /\ \A t \in DOMAIN maybePurge(l, p).entries : maybePurge(l, p).entries[t] = l.entries[t]
         /\ \A t : committed(maybePurge(l, p), t, p) = committed(l, t, p)
<1>1. CASE p # l.purgeEpoch
  <2>1. maybePurge(l, p) = purge(l, p)
    BY <1>1 DEF maybePurge
  <2> QED
    BY <2>1, PurgeKeeps
<1>2. CASE p = l.purgeEpoch
  <2>1. maybePurge(l, p) = l
    BY <1>2 DEF maybePurge
  <2>2. e = p
    <3>1. l.purgeEpoch <= e /\ l.purgeEpoch \in Nat
      BY LedgerIs
    <3> QED
      BY <1>2, <3>1
  <2> QED
    BY <1>2, <2>1, <2>2
<1> QED
  BY <1>1, <1>2

\* A use that is committed: a new record, or one more use of the record there is.
LEMMA CommitAdds ==
  ASSUME NEW e \in Nat, NEW l, LedgerOK(l, e), NEW t \in Tokens, committed(l, t, e) < MaxUses
  PROVE  /\ LedgerOK(commit(l, t, e), e)
         /\ DOMAIN commit(l, t, e).entries = DOMAIN l.entries \union {t}
         /\ \A u \in DOMAIN l.entries \ {t} : commit(l, t, e).entries[u] = l.entries[u]
         /\ committed(commit(l, t, e), t, e) = committed(l, t, e) + 1
         /\ \A u : u # t => committed(commit(l, t, e), u, e) = committed(l, u, e)
         /\ \/ committed(l, t, e) = 0 /\ commit(l, t, e).entries[t].firstEpoch = e
            \/ /\ t \in DOMAIN l.entries
               /\ commit(l, t, e).entries[t].firstEpoch = l.entries[t].firstEpoch
<1>1. PICK em : em = l.entries
  OBVIOUS
<1>2. /\ em \in EntryMaps /\ DOMAIN em \subseteq Tokens /\ IsFiniteSet(DOMAIN em) /\ l.refusals = 0 /\ l.violations = 0
      /\ l.purgeEpoch \in Nat /\ l.purgeEpoch <= e
      /\ \A u \in DOMAIN em : em[u] \in Entry /\ em[u].firstEpoch \in Nat /\ em[u].firstEpoch <= e
                            /\ l.purgeEpoch - 1 <= em[u].firstEpoch /\ em[u].committed \in 1 .. MaxUses
      /\ l = [entries |-> em, purgeEpoch |-> l.purgeEpoch, refusals |-> 0, violations |-> 0]
  BY <1>1, LedgerIs
<1>3. PICK g : g = commit(l, t, e)
  OBVIOUS
<1>4. MaxUses \in Nat /\ 1 \in 1 .. MaxUses
  BY ConfigAssumption
<1>5. ASSUME NEW n, NEW x, x \in Entry, DOMAIN n = DOMAIN em \union {t}, n[t] = x, \A u \in DOMAIN em \ {t} : n[u] = em[u],
             n = [u \in DOMAIN n |-> n[u]], g = [l EXCEPT !.entries = n],
             x.firstEpoch <= e, l.purgeEpoch - 1 <= x.firstEpoch, ~Gone(x, e), x.committed = committed(l, t, e) + 1,
             \/ committed(l, t, e) = 0 /\ x.firstEpoch = e
             \/ t \in DOMAIN em /\ x.firstEpoch = em[t].firstEpoch
      PROVE  /\ LedgerOK(g, e)
             /\ DOMAIN g.entries = DOMAIN em \union {t}
             /\ \A u \in DOMAIN em \ {t} : g.entries[u] = em[u]
             /\ committed(g, t, e) = committed(l, t, e) + 1
             /\ \A u : u # t => committed(g, u, e) = committed(l, u, e)
             /\ \/ committed(l, t, e) = 0 /\ g.entries[t].firstEpoch = e
                \/ t \in DOMAIN em /\ g.entries[t].firstEpoch = em[t].firstEpoch
  <2>1. g = [entries |-> n, purgeEpoch |-> l.purgeEpoch, refusals |-> 0, violations |-> 0]
    BY <1>2, <1>5
  <2>2. \A u \in DOMAIN n : n[u] \in Entry /\ n[u].firstEpoch <= e /\ l.purgeEpoch - 1 <= n[u].firstEpoch
    BY <1>2, <1>5
  <2>3. n \in EntryMaps
    BY <1>2, <1>5, <2>2, EntryMapIs
  <2>4. IsFiniteSet(DOMAIN n)
    BY <1>2, <1>5, FS_AddElement
  <2>5. g \in Ledgers /\ g.entries = n /\ g.purgeEpoch = l.purgeEpoch
    BY <1>2, <2>1, <2>3 DEF Ledgers
  <2>6. LedgerOK(g, e)
    BY <1>2, <2>2, <2>4, <2>5 DEF LedgerOK
  <2>7. committed(g, t, e) = committed(l, t, e) + 1
    <3>1. committed(g, t, e) = x.committed
      BY <1>5, <2>5 DEF committed
    <3> QED
      BY <1>5, <3>1
  <2>8. \A u : u # t => committed(g, u, e) = committed(l, u, e)
    BY <1>1, <1>5, <2>5 DEF committed
  <2> QED
    BY <1>5, <2>5, <2>6, <2>7, <2>8
<1>6. CASE committed(l, t, e) = 0
  <2>1. PICK x : x = [committed |-> 1, firstEpoch |-> e]
    OBVIOUS
  <2>2. x \in Entry /\ x.firstEpoch = e /\ x.committed = 1
    BY <1>4, <2>1 DEF Entry
  <2>3. PICK n : n = [u \in DOMAIN em \union {t} |-> IF u = t THEN x ELSE em[u]]
    OBVIOUS
  <2>4. /\ DOMAIN n = DOMAIN em \union {t} /\ n[t] = x /\ \A u \in DOMAIN em \ {t} : n[u] = em[u]
        /\ n = [u \in DOMAIN n |-> n[u]]
    BY <2>3
  <2>5. g = [l EXCEPT !.entries = n]
    BY <1>1, <1>2, <1>3, <1>6, <2>1, <2>3 DEF commit
  <2>6. x.firstEpoch <= e /\ l.purgeEpoch - 1 <= x.firstEpoch /\ ~Gone(x, e)
    BY <1>2, <2>2 DEF Gone
  <2> QED
    BY <1>1, <1>3, <1>5, <1>6, <2>2, <2>4, <2>5, <2>6
<1>7. CASE committed(l, t, e) # 0
  <2>1. t \in DOMAIN em /\ ~Gone(em[t], e) /\ committed(l, t, e) = em[t].committed
    BY <1>1, <1>7 DEF committed
  <2>2. em[t] \in Entry /\ em[t].committed \in 1 .. MaxUses /\ em[t].committed < MaxUses
        /\ em[t].firstEpoch <= e /\ l.purgeEpoch - 1 <= em[t].firstEpoch
    BY <1>2, <2>1
  <2>3. PICK c : c = em[t].committed + 1
    OBVIOUS
  <2>4. c \in 1 .. MaxUses
    BY <1>4, <2>2, <2>3
  <2>5. PICK x : x = [em[t] EXCEPT !.committed = c]
    OBVIOUS
  <2>6. x \in Entry /\ x.firstEpoch = em[t].firstEpoch /\ x.committed = c
    BY <2>2, <2>4, <2>5 DEF Entry
  <2>7. PICK n : n = [em EXCEPT ![t] = x]
    OBVIOUS
  <2>8. /\ DOMAIN n = DOMAIN em \union {t} /\ n[t] = x /\ \A u \in DOMAIN em \ {t} : n[u] = em[u]
        /\ n = [u \in DOMAIN n |-> n[u]]
    BY <2>1, <2>7
  <2>9. g = [l EXCEPT !.entries = n]
    <3>1. ~(em[t].committed >= MaxUses)
      BY <1>4, <2>2
    <3>2. g = [l EXCEPT !.entries[t].committed = @ + 1]
      BY <1>1, <1>3, <1>7, <3>1 DEF commit
    <3> QED
      BY <1>1, <1>2, <2>1, <2>2, <2>3, <2>5, <2>7, <3>2 DEF Entry
  <2>10. ~Gone(x, e)
    BY <2>1, <2>6 DEF Gone
  <2> QED
    BY <1>1, <1>3, <1>5, <2>1, <2>2, <2>3, <2>6, <2>8, <2>9, <2>10
<1> QED
  BY <1>6, <1>7

-----------------------------------------------------------------------------
(* The records and what they cost.                                          *)

LEMMA StartIs ==
  ASSUME NEW k \in Nat
  PROVE  StartMs(k) \in Nat /\ StartMs(k + 1) = StartMs(k) + EpochMs /\ EpochMs \in Nat \ {0}
<1>1. EpochMs \in Nat \ {0} /\ T0 \in Nat /\ Res \in Nat \ {0}
  BY ConfigAssumption
<1>2. T0 \div Res \in Nat
  BY <1>1, DivBounds
<1>3. PICK a : a = k * EpochMs
  OBVIOUS
<1>4. a \in Nat /\ (k + 1) * EpochMs = a + EpochMs
  <2>1. (k + 1) * EpochMs = k * EpochMs + 1 * EpochMs
    BY <1>1, TimesPlus
  <2>2. k * EpochMs \in Nat /\ 1 * EpochMs = EpochMs
    BY <1>1
  <2> QED
    BY <1>3, <2>1, <2>2
<1> QED
  BY <1>1, <1>2, <1>3, <1>4 DEF StartMs

LEMMA StartMono ==
  ASSUME NEW j \in Nat, NEW k \in Nat, j <= k
  PROVE  StartMs(j) <= StartMs(k)
<1>1. EpochMs \in Nat /\ T0 \in Nat /\ Res \in Nat \ {0}
  BY ConfigAssumption
<1>2. T0 \div Res \in Nat
  BY <1>1, DivBounds
<1>3. j * EpochMs <= k * EpochMs /\ j * EpochMs \in Nat /\ k * EpochMs \in Nat
  BY <1>1, TimesMono
<1> QED
  BY <1>2, <1>3 DEF StartMs

LEMMA SinceFinite ==
  ASSUME NEW l, NEW e, LedgerOK(l, e), NEW k
  PROVE  IsFiniteSet(RecordsSince(l, k)) /\ Cardinality(RecordsSince(l, k)) \in Nat
<1>1. IsFiniteSet(DOMAIN l.entries) /\ RecordsSince(l, k) \subseteq DOMAIN l.entries
  BY LedgerIs DEF RecordsSince
<1>2. IsFiniteSet(RecordsSince(l, k))
  BY <1>1, FS_Subset
<1> QED
  BY <1>2, FS_CardinalityType

\* Fewer records and a lower level.
LEMMA PaidLess ==
  ASSUME NEW l, NEW e, LedgerOK(l, e), NEW l2, NEW k \in Nat, RecordsSince(l2, k) \subseteq RecordsSince(l, k),
         NEW b \in Buckets, NEW c \in Buckets, c.last = b.last, c.level <= b.level, PaidFor(l, b, k)
  PROVE  PaidFor(l2, c, k)
<1>1. PICK n : n = Cardinality(RecordsSince(l, k))
  OBVIOUS
<1>2. PICK n2 : n2 = Cardinality(RecordsSince(l2, k))
  OBVIOUS
<1>3. n \in Nat /\ n2 \in Nat /\ n2 <= n
  <2>1. IsFiniteSet(RecordsSince(l, k)) /\ n \in Nat
    BY <1>1, SinceFinite
  <2>2. IsFiniteSet(RecordsSince(l2, k)) /\ Cardinality(RecordsSince(l2, k)) <= Cardinality(RecordsSince(l, k))
    BY <2>1, FS_Subset
  <2>3. n2 \in Nat
    BY <1>2, <2>2, FS_CardinalityType
  <2> QED
    BY <1>1, <1>2, <2>1, <2>2, <2>3
<1>4. UNIT \in Nat
  BY ConfigAssumption
<1>5. n2 * UNIT <= n * UNIT /\ n2 * UNIT \in Nat /\ n * UNIT \in Nat
  BY <1>3, <1>4, TimesMono
<1>6. b.level \in Nat /\ c.level \in Nat /\ b.last \in Nat /\ StartMs(k) \in Nat
  BY StartIs DEF Buckets
<1>7. PICK x : x = Full("credited") + (b.last - StartMs(k)) * RefillPerMs["credited"]
  OBVIOUS
<1>8. x \in Int
  <2>1. PICK d : d = b.last - StartMs(k)
    OBVIOUS
  <2>2. d \in Int /\ Full("credited") \in Nat /\ RefillPerMs["credited"] \in Nat
    BY <1>6, <2>1, FullIs DEF Lanes
  <2>3. d * RefillPerMs["credited"] \in Int
    BY <2>2, TimesPlus
  <2> QED
    BY <1>7, <2>1, <2>2, <2>3
<1>9. b.last >= StartMs(k) => n * UNIT + b.level <= x
  BY <1>1, <1>7 DEF PaidFor
<1>10. b.last >= StartMs(k) => n2 * UNIT + c.level <= x
  BY <1>5, <1>6, <1>8, <1>9
<1>11. RecordsSince(l2, k) # {} => b.last >= StartMs(k)
  BY DEF PaidFor
<1> QED
  BY <1>2, <1>7, <1>10, <1>11 DEF PaidFor

\* Nothing is recorded of an epoch nobody decided in.
LEMMA PaidEmpty ==
  ASSUME NEW l, NEW k \in Nat, RecordsSince(l, k) = {}, NEW b \in Buckets, b.level <= Full("credited")
  PROVE  PaidFor(l, b, k)
<1>1. Cardinality(RecordsSince(l, k)) = 0
  BY FS_EmptySet
<1>2. UNIT \in Nat /\ Full("credited") \in Nat /\ RefillPerMs["credited"] \in Nat
  BY FullIs DEF Lanes
<1>3. 0 * UNIT = 0
  BY <1>2
<1>4. b.level \in Nat /\ b.last \in Nat /\ StartMs(k) \in Nat
  BY StartIs DEF Buckets
<1>5. PICK x : x = (b.last - StartMs(k)) * RefillPerMs["credited"]
  OBVIOUS
<1>6. b.last >= StartMs(k) => x \in Nat
  <2>1. b.last >= StartMs(k) => b.last - StartMs(k) \in Nat
    BY <1>4
  <2> QED
    BY <1>2, <1>5, <2>1, TimesMono
<1>7. b.last >= StartMs(k) => 0 + b.level <= Full("credited") + x
  BY <1>2, <1>4, <1>6
<1> QED
  BY <1>1, <1>3, <1>5, <1>7 DEF PaidFor

LEMMA PaidRefill ==
  ASSUME NEW l, NEW e, LedgerOK(l, e), NEW k \in Nat, NEW b \in Buckets, NEW r \in Buckets, PaidFor(l, b, k),
         b.last <= r.last, r.level <= Full("credited"),
         r.level = AtMost(Full("credited"), b.level + (r.last - b.last) * RefillPerMs["credited"])
  PROVE  PaidFor(l, r, k)
<1>1. b.level \in Nat /\ b.last \in Nat /\ r.level \in Nat /\ r.last \in Nat /\ StartMs(k) \in Nat
  BY StartIs DEF Buckets
<1>2. CASE ~(b.last >= StartMs(k))
  <2>1. RecordsSince(l, k) = {}
    BY <1>2 DEF PaidFor
  <2> QED
    BY <2>1, PaidEmpty
<1>3. CASE b.last >= StartMs(k)
  <2>1. PICK F : F = Full("credited")
    OBVIOUS
  <2>2. PICK R : R = RefillPerMs["credited"]
    OBVIOUS
  <2>3. PICK S : S = StartMs(k)
    OBVIOUS
  <2>4. PICK n : n = Cardinality(RecordsSince(l, k)) * UNIT
    OBVIOUS
  <2>5. F \in Nat /\ R \in Nat /\ S \in Nat /\ n \in Nat
    <3>1. UNIT \in Nat /\ F \in Nat /\ R \in Nat
      BY <2>1, <2>2, FullIs DEF Lanes
    <3>2. Cardinality(RecordsSince(l, k)) \in Nat
      BY SinceFinite
    <3>3. n \in Nat
      BY <2>4, <3>1, <3>2, TimesMono
    <3> QED
      BY <1>1, <2>3, <3>1, <3>3
  <2>6. PICK i : i = b.last - S
    OBVIOUS
  <2>7. PICK j : j = r.last - b.last
    OBVIOUS
  <2>8. i \in Nat /\ j \in Nat /\ i + j = r.last - S
    BY <1>1, <1>3, <2>3, <2>5, <2>6, <2>7
  <2>9. i * R \in Nat /\ j * R \in Nat /\ (i + j) * R = i * R + j * R
    BY <2>5, <2>8, TimesMono, TimesPlus
  <2>10. n + b.level <= F + i * R
    BY <1>3, <2>1, <2>2, <2>3, <2>4, <2>6 DEF PaidFor
  <2>11. r.level <= b.level + j * R
    <3>1. PICK y : y = b.level + j * R
      OBVIOUS
    <3>2. y \in Nat
      BY <1>1, <2>9, <3>1
    <3>3. AtMost(F, y) <= y
      BY <2>5, <3>2, AtMostIs
    <3> QED
      BY <2>1, <2>2, <2>7, <3>1, <3>3
  <2>12. n + r.level <= F + (i + j) * R
    BY <1>1, <2>5, <2>9, <2>10, <2>11
  <2>13. r.last >= StartMs(k)
    BY <1>1, <1>3
  <2> QED
    BY <2>1, <2>2, <2>3, <2>4, <2>8, <2>12, <2>13 DEF PaidFor
<1> QED
  BY <1>2, <1>3

\* A new record is paid for with a token.
LEMMA PaidNew ==
  ASSUME NEW l, NEW e, LedgerOK(l, e), NEW k \in Nat, NEW l2, NEW t,
         RecordsSince(l2, k) \subseteq RecordsSince(l, k) \union {t},
         NEW r \in Buckets, NEW b \in Buckets, PaidFor(l, r, k), b.last = r.last, r.last >= StartMs(k),
         b.level = r.level - UNIT
  PROVE  PaidFor(l2, b, k)
<1>1. PICK n : n = Cardinality(RecordsSince(l, k))
  OBVIOUS
<1>2. PICK n2 : n2 = Cardinality(RecordsSince(l2, k))
  OBVIOUS
<1>3. n \in Nat /\ n2 \in Nat /\ n2 <= n + 1
  <2>1. IsFiniteSet(RecordsSince(l, k)) /\ n \in Nat
    BY <1>1, SinceFinite
  <2>2. PICK T : T = RecordsSince(l, k) \union {t}
    OBVIOUS
  <2>3. IsFiniteSet(T) /\ (Cardinality(T) = n \/ Cardinality(T) = n + 1)
    BY <1>1, <2>1, <2>2, FS_AddElement
  <2>4. IsFiniteSet(RecordsSince(l2, k)) /\ Cardinality(RecordsSince(l2, k)) <= Cardinality(T)
    BY <2>2, <2>3, FS_Subset
  <2>5. n2 \in Nat
    BY <1>2, <2>4, FS_CardinalityType
  <2> QED
    BY <1>2, <2>1, <2>3, <2>4, <2>5
<1>4. UNIT \in Nat
  BY ConfigAssumption
<1>5. n2 * UNIT <= (n + 1) * UNIT /\ n2 * UNIT \in Nat /\ n * UNIT \in Nat /\ (n + 1) * UNIT = n * UNIT + UNIT
  <2>1. n + 1 \in Nat /\ 1 * UNIT = UNIT
    BY <1>3, <1>4
  <2> QED
    BY <1>3, <1>4, <2>1, TimesMono, TimesPlus
<1>6. b.level \in Nat /\ r.level \in Nat /\ b.last \in Nat /\ StartMs(k) \in Nat
  BY StartIs DEF Buckets
<1>7. PICK x : x = Full("credited") + (b.last - StartMs(k)) * RefillPerMs["credited"]
  OBVIOUS
<1>8. x \in Int
  <2>1. PICK d : d = b.last - StartMs(k)
    OBVIOUS
  <2>2. d \in Int /\ Full("credited") \in Nat /\ RefillPerMs["credited"] \in Nat
    BY <1>6, <2>1, FullIs DEF Lanes
  <2>3. d * RefillPerMs["credited"] \in Int
    BY <2>2, TimesPlus
  <2> QED
    BY <1>7, <2>1, <2>2, <2>3
<1>9. n * UNIT + r.level <= x
  BY <1>1, <1>7 DEF PaidFor
<1>10. n2 * UNIT + b.level <= x
  BY <1>4, <1>5, <1>6, <1>8, <1>9
<1> QED
  BY <1>2, <1>7, <1>10 DEF PaidFor

\* requiredLedgerCapacity() is enough: two epochs pay for no more records.
LEMMA NeverFull ==
  ASSUME NEW e \in Nat, NEW l, LedgerOK(l, e), l.purgeEpoch = e, NEW r \in Buckets,
         StartMs(e) <= r.last, r.last <= StartMs(e + 1), \A k \in 0 .. e : PaidFor(l, r, k)
  PROVE  ~IsFull(l)
<1>1. PICK k \in 0 .. e : (e = 0 /\ k = 0) \/ (e # 0 /\ k = e - 1)
  <2>1. CASE e = 0
    BY <2>1
  <2>2. CASE e # 0
    BY <2>2
  <2> QED
    BY <2>1, <2>2
<1>2. PICK R : R = RefillPerMs["credited"]
  OBVIOUS
<1>3. PICK C : C = Capacity["credited"]
  OBVIOUS
<1>4. C \in Nat /\ R \in Nat /\ UNIT \in Nat \ {0} /\ EpochMs \in Nat \ {0} /\ k \in Nat
  BY <1>1, <1>2, <1>3, ConfigAssumption DEF Lanes
<1>5. PICK D : D = DOMAIN l.entries
  OBVIOUS
<1>6. D = RecordsSince(l, k)
  <2>1. \A t \in D : l.entries[t].firstEpoch \in Nat /\ e - 1 <= l.entries[t].firstEpoch
    BY <1>5, LedgerIs
  <2>2. \A t \in D : l.entries[t].firstEpoch >= k
    BY <1>1, <2>1
  <2> QED
    BY <1>5, <2>2 DEF RecordsSince
<1>7. PICK n : n = Cardinality(D)
  OBVIOUS
<1>8. n \in Nat
  BY <1>6, <1>7, SinceFinite
<1>9. PICK d : d = r.last - StartMs(k)
  OBVIOUS
<1>10. d \in Nat /\ d <= EpochMs + EpochMs /\ r.last >= StartMs(k)
  <2>1. StartMs(e) \in Nat /\ StartMs(e + 1) = StartMs(e) + EpochMs /\ r.last \in Nat
    BY StartIs DEF Buckets
  <2>2. CASE e = 0
    BY <1>1, <1>4, <1>9, <2>1, <2>2
  <2>3. CASE e # 0
    <3>1. k + 1 = e
      BY <1>1, <2>3
    <3>2. StartMs(k) \in Nat /\ StartMs(k + 1) = StartMs(k) + EpochMs
      BY <1>4, StartIs
    <3> QED
      BY <1>4, <1>9, <2>1, <3>1, <3>2
  <2> QED
    BY <2>2, <2>3
<1>11. n * UNIT + r.level <= C * UNIT + d * R
  BY <1>2, <1>3, <1>6, <1>7, <1>9, <1>10 DEF PaidFor, Full
<1>12. PICK units : units = R * 2 * EpochMs
  OBVIOUS
<1>13. d * R <= units /\ d * R \in Nat /\ units \in Nat
  <2>1. PICK w : w = EpochMs + EpochMs
    OBVIOUS
  <2>2. w \in Nat /\ d <= w
    BY <1>4, <1>10, <2>1
  <2>3. d * R <= w * R /\ d * R \in Nat /\ w * R \in Nat
    BY <1>4, <1>10, <2>2, TimesMono
  <2>4. w * R = units
    BY <1>4, <1>12, <2>1
  <2> QED
    BY <2>3, <2>4
<1>14. PICK q : q = (units + UNIT - 1) \div UNIT
  OBVIOUS
<1>15. q \in Nat /\ units + UNIT - 1 < q * UNIT + UNIT
  <2>1. PICK u : u = units + UNIT - 1
    OBVIOUS
  <2>2. u \in Nat
    BY <1>4, <1>13, <2>1
  <2> QED
    BY <1>4, <1>14, <2>1, <2>2, DivBounds
<1>16. RequiredLedgerCapacity = C + q + 1
  BY <1>2, <1>3, <1>12, <1>14 DEF RequiredLedgerCapacity
<1>17. ~(n >= C + q + 1)
  <2>1. SUFFICES ASSUME n >= C + q + 1 PROVE FALSE
    OBVIOUS
  <2>2. PICK p : p = C + q + 1
    OBVIOUS
  <2>3. p \in Nat /\ p <= n
    BY <1>4, <1>8, <1>15, <2>1, <2>2
  <2>4. p * UNIT <= n * UNIT /\ n * UNIT \in Nat
    BY <1>4, <1>8, <2>3, TimesMono
  <2>5. p * UNIT = C * UNIT + q * UNIT + UNIT
    BY <1>4, <1>15, <2>2
  <2>6. C * UNIT \in Nat /\ q * UNIT \in Nat /\ r.level \in Nat
    BY <1>4, <1>15, TimesMono DEF Buckets
  <2> QED
    BY <1>4, <1>11, <1>13, <1>15, <2>4, <2>5, <2>6
<1> QED
  BY <1>5, <1>7, <1>16, <1>17 DEF IsFull

-----------------------------------------------------------------------------
(* The steps.                                                               *)

\* What every operation begins with: the filter and the ledger of the present.
Moved == advanceFilter(filter)
Kept == maybePurge(ledger, epochNow)

LEMMA LedgerLater ==
  ASSUME NEW o \in Nat, NEW l, LedgerOK(l, o), NEW e \in Nat, o <= e
  PROVE  LedgerOK(l, e) /\ \A k \in Nat : o < k => RecordsSince(l, k) = {}
<1>1. \A t \in DOMAIN l.entries : l.entries[t].firstEpoch \in Nat /\ l.entries[t].firstEpoch <= o
  BY LedgerIs
<1>2. l.purgeEpoch \in Nat /\ l.purgeEpoch <= o
  BY LedgerIs
<1>3. l.purgeEpoch <= e /\ \A t \in DOMAIN l.entries : l.entries[t].firstEpoch <= e
  BY <1>1, <1>2
<1> QED
  BY <1>1, <1>3 DEF LedgerOK, RecordsSince

LEMMA FilterNow ==
  ASSUME ClockInv, FilterInv
  PROVE  /\ epochNow \in Nat /\ filter.epoch \in Nat /\ filter.epoch <= epochNow
         /\ Moved \in Filters /\ Moved.epoch = epochNow /\ HoldsWindow(Moved, inserted)
         /\ inserted \in SUBSET (Tokens \X (0 .. epochNow))
<1>1. epochNow \in Nat
  BY NowIs
<1>2. /\ filter \in Filters /\ filter.epoch \in Nat /\ filter.epoch <= epochNow
      /\ inserted \in SUBSET (Tokens \X (0 .. filter.epoch)) /\ HoldsWindow(filter, inserted)
  BY DEF FilterInv, Filters
<1>3. Moved \in Filters /\ Moved.epoch = epochNow /\ HoldsWindow(Moved, inserted)
  BY <1>1, <1>2, AdvanceKeepsWindow DEF Moved
<1>4. \A x \in 0 .. filter.epoch : x \in 0 .. epochNow
  BY <1>1, <1>2
<1> QED
  BY <1>1, <1>2, <1>3, <1>4

LEMMA PaidNow ==
  ASSUME LanesInv
  PROVE  /\ LedgerOK(ledger, epochNow)
         /\ \A k \in 0 .. epochNow : /\ PaidFor(ledger, bucket["credited"], k)
                                      /\ PaidFor(ledger, refill("credited"), k)
<1>1. epochNow \in Nat /\ filter.epoch \in Nat /\ filter.epoch <= epochNow
  BY FilterNow DEF LanesInv
<1>2. LedgerOK(ledger, filter.epoch)
  BY DEF LanesInv, LedgerInv
<1>3. LedgerOK(ledger, epochNow) /\ \A k \in Nat : filter.epoch < k => RecordsSince(ledger, k) = {}
  BY <1>1, <1>2, LedgerLater
<1>4. "credited" \in Lanes
  BY DEF Lanes
<1>5. PICK b : b = bucket["credited"]
  OBVIOUS
<1>6. PICK r : r = refill("credited")
  OBVIOUS
<1>7. /\ b \in Buckets /\ b.last <= r.last /\ r \in Buckets /\ r.level <= Full("credited") /\ b.level <= Full("credited")
      /\ r.level = AtMost(Full("credited"), b.level + (r.last - b.last) * RefillPerMs["credited"])
  BY <1>4, <1>5, <1>6, RefilledLane DEF LanesInv, BucketInv, BucketOK
<1>8. ASSUME NEW k \in 0 .. epochNow
      PROVE  PaidFor(ledger, b, k) /\ PaidFor(ledger, r, k)
  <2>1. k \in Nat
    BY <1>1
  <2>2. CASE k <= filter.epoch
    <3>1. PaidFor(ledger, b, k)
      <4>1. k \in 0 .. filter.epoch
        BY <1>1, <2>1, <2>2
      <4> QED
        BY <1>5, <4>1 DEF LanesInv, PaidInv
    <3> QED
      BY <1>2, <1>7, <2>1, <3>1, PaidRefill
  <2>3. CASE filter.epoch < k
    BY <1>3, <1>7, <2>1, <2>3, PaidEmpty
  <2> QED
    BY <1>1, <2>1, <2>2, <2>3
<1> QED
  BY <1>3, <1>5, <1>6, <1>8

LEMMA EnrolledLess ==
  ASSUME NEW l, NEW l2, NEW ins, EnrolledOK(l, ins), DOMAIN l2.entries \subseteq DOMAIN l.entries,
         \A t \in DOMAIN l2.entries : l2.entries[t] = l.entries[t]
  PROVE  EnrolledOK(l2, ins)
BY DEF EnrolledOK

LEMMA KeptNow ==
  ASSUME LanesInv
  PROVE  /\ LedgerOK(Kept, epochNow) /\ Kept.purgeEpoch = epochNow /\ EnrolledOK(Kept, inserted)
         /\ \A t : committed(Kept, t, epochNow) = committed(ledger, t, epochNow)
         /\ \A k \in 0 .. epochNow : PaidFor(Kept, bucket["credited"], k) /\ PaidFor(Kept, refill("credited"), k)
<1>1. epochNow \in Nat /\ filter.epoch \in Nat /\ filter.epoch <= epochNow
  BY FilterNow DEF LanesInv
<1>2. LedgerOK(ledger, filter.epoch) /\ EnrolledOK(ledger, inserted)
  BY DEF LanesInv, LedgerInv
<1>3. PICK e : e = epochNow
  OBVIOUS
<1>4. PICK g : g = Kept
  OBVIOUS
<1>5. /\ LedgerOK(g, e) /\ g.purgeEpoch = e /\ DOMAIN g.entries \subseteq DOMAIN ledger.entries
      /\ \A t \in DOMAIN g.entries : g.entries[t] = ledger.entries[t]
      /\ \A t : committed(g, t, e) = committed(ledger, t, e)
  BY <1>1, <1>2, <1>3, <1>4, MaybePurgeKeeps DEF Kept
<1>6. EnrolledOK(g, inserted)
  BY <1>2, <1>5, EnrolledLess
<1>7. "credited" \in Lanes
  BY DEF Lanes
<1>8. /\ bucket["credited"] \in Buckets /\ bucket["credited"].level \in Nat /\ refill("credited") \in Buckets
      /\ refill("credited").level \in Nat
  BY <1>7, RefilledLane DEF LanesInv, Buckets
<1>9. \A k : RecordsSince(g, k) \subseteq RecordsSince(ledger, k)
  BY <1>5 DEF RecordsSince
<1>10. ASSUME NEW k \in 0 .. epochNow
       PROVE  PaidFor(g, bucket["credited"], k) /\ PaidFor(g, refill("credited"), k)
  <2>1. k \in Nat /\ PaidFor(ledger, bucket["credited"], k) /\ PaidFor(ledger, refill("credited"), k)
    BY <1>1, PaidNow
  <2>2. RecordsSince(g, k) \subseteq RecordsSince(ledger, k)
    BY <1>9
  <2>3. bucket["credited"].level <= bucket["credited"].level /\ refill("credited").level <= refill("credited").level
    BY <1>8
  <2>4. PICK b : b = bucket["credited"]
    OBVIOUS
  <2>5. PICK r : r = refill("credited")
    OBVIOUS
  <2>6. PaidFor(g, b, k)
    BY <1>2, <1>8, <2>1, <2>2, <2>3, <2>4, PaidLess
  <2>7. PaidFor(g, r, k)
    BY <1>2, <1>8, <2>1, <2>2, <2>3, <2>5, PaidLess
  <2> QED
    BY <2>4, <2>5, <2>6, <2>7
<1> QED
  BY <1>3, <1>4, <1>5, <1>6, <1>10

\* The parts of the invariant after a step, from what the step made of each variable.
LEMMA PaidNext ==
  ASSUME NEW g, NEW b, NEW e, ledger' = g, bucket'["credited"] = b, filter'.epoch = e, \A k \in 0 .. e : PaidFor(g, b, k)
  PROVE  PaidInv'
BY DEF PaidInv, PaidFor, RecordsSince, StartMs, Full

LEMMA LedgerNext ==
  ASSUME NEW g, NEW e, NEW ins, ledger' = g, filter'.epoch = e, inserted' = ins, LedgerOK(g, e), EnrolledOK(g, ins)
  PROVE  LedgerInv'
BY DEF LedgerInv, LedgerOK, EnrolledOK, Gone, Ledgers, EntryMaps, Entry

LEMMA FilterNext ==
  ASSUME NEW f \in Filters, NEW ins, filter' = f, inserted' = ins, f.epoch <= epochNow',
         ins \in SUBSET (Tokens \X (0 .. f.epoch)), HoldsWindow(f, ins)
  PROVE  FilterInv'
BY DEF FilterInv, Filters, AllBits, HoldsWindow, BitsOfEpoch

LEMMA UsesNext ==
  ASSUME NEW g, ledger' = g, uses' \in [Tokens -> Nat], NEW e, epochNow' = e,
         \A t \in Tokens : Genuine(t)' => uses'[t] <= committed(g, t, e)
  PROVE  UsesInv'
BY DEF UsesInv, committed, Gone

\* An operation at an unchanged time that enrolls and counts nothing.
LEMMA UsesStay ==
  ASSUME LanesInv, NEW g, ledger' = g, UNCHANGED <<clock, inserted, uses>>,
         \A t \in Tokens : committed(g, t, epochNow) = committed(ledger, t, epochNow)
  PROVE  UsesInv'
<1>1. epochNow' = epochNow
  BY DEF epochNow
<1>2. \A t \in Tokens : Genuine(t)' <=> Genuine(t)
  BY <1>1 DEF Genuine
<1>3. uses' \in [Tokens -> Nat]
  BY DEF LanesInv, UsesInv
<1>4. PICK e : e = epochNow
  OBVIOUS
<1>5. \A t \in Tokens : Genuine(t)' => uses'[t] <= committed(g, t, e)
  BY <1>2, <1>4 DEF LanesInv, UsesInv
<1> QED
  BY <1>1, <1>3, <1>4, <1>5, UsesNext

LEMMA ClockStays ==
  ASSUME ClockInv, UNCHANGED clock
  PROVE  ClockInv' /\ epochNow' = epochNow /\ nowMs' = nowMs
BY DEF ClockInv, epochNow, nowMs

\* The filter and the ledger are brought to the present, and nothing else of them.
LEMMA PresentStep ==
  ASSUME LanesInv, filter' = Moved, ledger' = Kept, UNCHANGED <<clock, inserted, uses>>
  PROVE  ClockInv' /\ FilterInv' /\ LedgerInv' /\ UsesInv' /\ filter'.epoch = epochNow
<1>1. ClockInv' /\ epochNow' = epochNow
  BY ClockStays DEF LanesInv
<1>2. /\ epochNow \in Nat /\ Moved \in Filters /\ Moved.epoch = epochNow /\ HoldsWindow(Moved, inserted)
      /\ inserted \in SUBSET (Tokens \X (0 .. epochNow))
  BY FilterNow DEF LanesInv
<1>3. PICK f : f = Moved
  OBVIOUS
<1>4. PICK ins : ins = inserted
  OBVIOUS
<1>5. PICK e : e = epochNow
  OBVIOUS
<1>6. /\ f \in Filters /\ f.epoch = e /\ HoldsWindow(f, ins) /\ ins \in SUBSET (Tokens \X (0 .. f.epoch)) /\ e <= e
      /\ filter' = f /\ inserted' = ins /\ epochNow' = e
  BY <1>1, <1>2, <1>3, <1>4, <1>5
<1>7. FilterInv'
  BY <1>6, FilterNext
<1>8. PICK g : g = Kept
  OBVIOUS
<1>9. LedgerOK(g, e) /\ EnrolledOK(g, ins) /\ \A t : committed(g, t, epochNow) = committed(ledger, t, epochNow)
  BY <1>4, <1>5, <1>8, KeptNow
<1>10. LedgerInv'
  BY <1>6, <1>8, <1>9, LedgerNext
<1>11. UsesInv'
  BY <1>8, <1>9, UsesStay
<1> QED
  BY <1>1, <1>5, <1>6, <1>7, <1>10, <1>11

LEMMA DecideUnverifiedStep ==
  ASSUME LanesInv, NEW t \in Tokens \union {NoToken}, NEW late \in BOOLEAN, DecideUnverified(t, late)
  PROVE  LanesInv'
<1>1. Moved.epoch = epochNow
  BY FilterNow DEF LanesInv
<1>2. /\ filter' = Moved /\ ledger' = Kept /\ UNCHANGED <<clock, inserted, uses>> /\ TakeFrom("unverified", late)
  BY <1>1 DEF DecideUnverified, Moved, Kept
<1>3. ClockInv' /\ FilterInv' /\ LedgerInv' /\ UsesInv' /\ filter'.epoch = epochNow
  BY <1>2, PresentStep
<1>4. "unverified" \in Lanes /\ "credited" \in Lanes \ {"unverified"}
  BY DEF Lanes
<1>5. BucketInv' /\ AuditInv' /\ bucket'["credited"] = bucket["credited"]
  BY <1>2, <1>4, TakeFromStep DEF LanesInv
<1>6. PICK e : e = epochNow
  OBVIOUS
<1>7. PICK g : g = Kept
  OBVIOUS
<1>8. PICK b : b = bucket["credited"]
  OBVIOUS
<1>9. \A k \in 0 .. e : PaidFor(g, b, k)
  BY <1>6, <1>7, <1>8, KeptNow
<1>10. PaidInv'
  BY <1>2, <1>3, <1>5, <1>6, <1>7, <1>8, <1>9, PaidNext
<1> QED
  BY <1>3, <1>5, <1>10 DEF LanesInv

LEMMA SnapshotStep ==
  ASSUME LanesInv, Snapshot
  PROVE  LanesInv'
<1>1. Moved.epoch = epochNow
  BY FilterNow DEF LanesInv
<1>2. /\ filter' = Moved /\ ledger' = Kept /\ UNCHANGED <<clock, inserted, uses, audit>>
      /\ bucket' = [lane \in Lanes |-> refill(lane)]
  BY <1>1 DEF Snapshot, Moved, Kept
<1>3. ClockInv' /\ FilterInv' /\ LedgerInv' /\ UsesInv' /\ filter'.epoch = epochNow
  BY <1>2, PresentStep
<1>4. \A lane \in Lanes : /\ bucket'[lane] \in Buckets /\ BucketOK(lane, bucket'[lane], nowMs)
                         /\ ReplayOK(lane, audit[lane], bucket'[lane]) /\ bucket'[lane] = refill(lane)
  BY <1>2, RefilledLane DEF LanesInv
<1>5. bucket' \in [Lanes -> Buckets]
  BY <1>2, <1>4
<1>6. nowMs' = nowMs /\ audit' = audit
  BY <1>2 DEF nowMs
<1>7. BucketInv'
  BY <1>4, <1>5, <1>6 DEF BucketInv, BucketOK, Buckets, Full
<1>8. audit \in [Lanes -> Audits]
  BY DEF LanesInv, AuditInv
<1>9. AuditInv'
  BY <1>4, <1>6, <1>8 DEF AuditInv, ReplayOK, Buckets, Audits, Full
<1>10. PICK e : e = epochNow
  OBVIOUS
<1>11. PICK g : g = Kept
  OBVIOUS
<1>12. PICK b : b = refill("credited")
  OBVIOUS
<1>13. \A k \in 0 .. e : PaidFor(g, b, k)
  BY <1>10, <1>11, <1>12, KeptNow
<1>14. bucket'["credited"] = b
  BY <1>4, <1>12 DEF Lanes
<1>15. PaidInv'
  BY <1>2, <1>3, <1>10, <1>11, <1>13, <1>14, PaidNext
<1> QED
  BY <1>3, <1>7, <1>9, <1>15 DEF LanesInv

LEMMA CommittedIs ==
  ASSUME NEW l, NEW o, LedgerOK(l, o), NEW t, NEW e
  PROVE  /\ committed(l, t, e) \in 0 .. MaxUses /\ committed(l, t, e) \in Nat
         /\ committed(l, t, e) = 0 /\ t \in DOMAIN l.entries => Gone(l.entries[t], e)
<1>1. MaxUses \in Nat \ {0}
  BY ConfigAssumption
<1>2. \A u \in DOMAIN l.entries : l.entries[u].committed \in 1 .. MaxUses
  BY LedgerIs
<1>3. CASE t \in DOMAIN l.entries /\ ~Gone(l.entries[t], e)
  <2>1. committed(l, t, e) = l.entries[t].committed
    BY <1>3 DEF committed
  <2>2. l.entries[t].committed \in 1 .. MaxUses
    BY <1>2, <1>3
  <2> QED
    BY <1>1, <2>1, <2>2
<1>4. CASE ~(t \in DOMAIN l.entries /\ ~Gone(l.entries[t], e))
  <2>1. committed(l, t, e) = 0
    BY <1>4 DEF committed
  <2> QED
    BY <1>1, <1>4, <2>1
<1> QED
  BY <1>3, <1>4

LEMMA EnrollStep ==
  ASSUME LanesInv, NEW t \in Tokens, Enroll(t)
  PROVE  LanesInv'
<1>1. /\ epochNow \in Nat /\ Moved \in Filters /\ Moved.epoch = epochNow /\ HoldsWindow(Moved, inserted)
      /\ inserted \in SUBSET (Tokens \X (0 .. epochNow))
  BY FilterNow DEF LanesInv
<1>2. PICK e : e = epochNow
  OBVIOUS
<1>3. PICK f : f = Moved
  OBVIOUS
<1>4. PICK ins : ins = inserted
  OBVIOUS
<1>5. e \in Nat /\ f \in Filters /\ f.epoch = e /\ HoldsWindow(f, ins) /\ ins \in SUBSET (Tokens \X (0 .. f.epoch))
  BY <1>1, <1>2, <1>3, <1>4
<1>6. UNCHANGED <<clock, bucket, ledger, audit, discards>>
  BY DEF Enroll
<1>7. ClockInv' /\ epochNow' = e /\ nowMs' = nowMs
  BY <1>2, <1>6, ClockStays DEF LanesInv
<1>8. BucketInv' /\ AuditInv'
  BY <1>6, <1>7 DEF LanesInv, BucketInv, AuditInv, BucketOK, ReplayOK, Buckets, Audits, Full
<1>9. PICK g : g = ledger
  OBVIOUS
<1>10. PICK b : b = bucket["credited"]
  OBVIOUS
<1>11. LedgerOK(g, e) /\ \A k \in 0 .. e : PaidFor(g, b, k)
  BY <1>2, <1>9, <1>10, PaidNow
<1>12. EnrolledOK(g, ins)
  BY <1>4, <1>9 DEF LanesInv, LedgerInv
<1>13. uses \in [Tokens -> Nat] /\ \A u \in Tokens : Genuine(u) => uses[u] <= committed(g, u, e)
  BY <1>2, <1>9 DEF LanesInv, UsesInv
<1>14. CASE committed(ledger, t, f.epoch) # 0 \/ hasInActive(f, t)
  <2>1. filter' = f /\ inserted' = ins /\ uses' = uses
    BY <1>3, <1>4, <1>14 DEF Enroll, Moved
  <2>2. FilterInv'
    BY <1>5, <1>7, <2>1, FilterNext
  <2>3. filter'.epoch = e /\ ledger' = g /\ bucket'["credited"] = b
    BY <1>5, <1>6, <1>9, <1>10, <2>1
  <2>4. LedgerInv'
    BY <1>11, <1>12, <2>1, <2>3, LedgerNext
  <2>5. PaidInv'
    BY <1>11, <2>3, PaidNext
  <2>6. UsesInv'
    BY <1>4, <1>6, <1>9, <2>1, UsesStay
  <2> QED
    BY <1>7, <1>8, <2>2, <2>4, <2>5, <2>6 DEF LanesInv
<1>15. CASE ~(committed(ledger, t, f.epoch) # 0 \/ hasInActive(f, t))
  <2>1. PICK new : new = {i \in ins : i[2] >= f.epoch - 1} \union {<<t, f.epoch>>}
    OBVIOUS
  <2>2. PICK h : h = insert(f, t)
    OBVIOUS
  <2>3. filter' = h /\ inserted' = new /\ uses' = IF Genuine(t) THEN uses ELSE [uses EXCEPT ![t] = 0]
    BY <1>3, <1>4, <1>15, <2>1, <2>2 DEF Enroll, Moved
  <2>4. h \in Filters /\ h.epoch = e /\ new \in SUBSET (Tokens \X (0 .. h.epoch)) /\ HoldsWindow(h, new)
    BY <1>5, <2>1, <2>2, InsertKeepsWindow
  <2>5. FilterInv'
    BY <1>5, <1>7, <2>3, <2>4, FilterNext
  <2>6. filter'.epoch = e /\ ledger' = g /\ bucket'["credited"] = b
    BY <1>6, <1>9, <1>10, <2>3, <2>4
  <2>7. EnrolledOK(g, new)
    <3>1. t \in DOMAIN g.entries => Gone(g.entries[t], e)
      BY <1>5, <1>9, <1>11, <1>15, CommittedIs
    <3>2. \A i \in new : i \in ins \/ (i[1] = t /\ i[2] = e)
      BY <1>5, <2>1
    <3> QED
      BY <1>12, <3>1, <3>2 DEF EnrolledOK
  <2>8. LedgerInv'
    BY <2>3, <2>6, <2>7, <1>11, LedgerNext
  <2>9. PaidInv'
    BY <1>11, <2>6, PaidNext
  <2>10. uses' \in [Tokens -> Nat] /\ \A u \in Tokens \ {t} : uses'[u] = uses[u]
    BY <1>13, <2>3
  <2>11. ASSUME NEW u \in Tokens, Genuine(u)'
         PROVE  uses'[u] <= committed(g, u, e)
    <3>1. CASE u = t
      <4>1. CASE Genuine(t)
        BY <1>13, <2>3, <3>1, <4>1
      <4>2. CASE ~Genuine(t)
        <5>1. uses'[t] = 0
          BY <1>13, <2>3, <4>2
        <5>2. committed(g, t, e) \in Nat
          BY <1>11, CommittedIs
        <5> QED
          BY <3>1, <5>1, <5>2
      <4> QED
        BY <4>1, <4>2
    <3>2. CASE u # t
      <4>1. PICK x \in {e, e - 1} : <<u, x>> \in new
        BY <1>7, <2>3, <2>11 DEF Genuine
      <4>2. <<u, x>> \in inserted
        BY <1>4, <2>1, <3>2, <4>1
      <4>3. Genuine(u)
        BY <1>2, <4>1, <4>2 DEF Genuine
      <4> QED
        BY <1>13, <2>10, <3>2, <4>3
    <3> QED
      BY <3>1, <3>2
  <2>12. UsesInv'
    BY <1>7, <2>6, <2>10, <2>11, UsesNext
  <2> QED
    BY <1>7, <1>8, <2>5, <2>8, <2>9, <2>12 DEF LanesInv
<1> QED
  BY <1>14, <1>15

LEMMA TickStep ==
  ASSUME LanesInv, LaneTick
  PROVE  LanesInv'
<1>1. clock \in Nat /\ clock >= T0 /\ clock' = clock + 1 /\ UNCHANGED <<filter, bucket, ledger, audit, discards, inserted, uses>>
  BY DEF LanesInv, ClockInv, LaneTick
<1>2. ClockInv'
  BY <1>1, ConfigAssumption DEF ClockInv
<1>3. PICK e : e = epochNow
  OBVIOUS
<1>4. PICK p : p = epochNow'
  OBVIOUS
<1>5. e \in Nat /\ p \in {e, e + 1}
  <2>1. PICK n : n = clock - T0
    OBVIOUS
  <2>2. PICK W : W = EpochMs * Res
    OBVIOUS
  <2>3. EpochMs \in Nat \ {0} /\ Res \in Nat \ {0} /\ T0 \in Nat
    BY ConfigAssumption
  <2>4. n \in Nat /\ W \in Nat \ {0} /\ clock' - T0 = n + 1
    BY <1>1, <2>1, <2>2, <2>3
  <2>5. (n + 1) \div W \in {n \div W, n \div W + 1} /\ n \div W \in Nat
    BY <2>4, DivNext, DivBounds
  <2>6. e = n \div W /\ p = (n + 1) \div W
    BY <1>3, <1>4, <2>1, <2>2, <2>4 DEF epochNow
  <2> QED
    BY <2>5, <2>6
<1>6. nowMs \in Nat /\ nowMs' \in {nowMs, nowMs + 1}
  <2>1. Res \in Nat \ {0}
    BY ConfigAssumption
  <2>2. PICK c : c = clock
    OBVIOUS
  <2>3. c \in Nat /\ clock' = c + 1
    BY <1>1, <2>2
  <2>4. (c + 1) \div Res \in {c \div Res, c \div Res + 1} /\ c \div Res \in Nat
    BY <2>1, <2>3, DivNext, DivBounds
  <2>5. nowMs = c \div Res /\ nowMs' = (c + 1) \div Res
    BY <2>2, <2>3 DEF nowMs
  <2> QED
    BY <2>4, <2>5
<1>7. /\ filter \in Filters /\ filter.epoch \in Nat /\ filter.epoch <= e /\ HoldsWindow(filter, inserted)
      /\ inserted \in SUBSET (Tokens \X (0 .. filter.epoch))
  BY <1>3 DEF LanesInv, FilterInv, Filters
<1>8. FilterInv'
  <2>1. PICK f : f = filter
    OBVIOUS
  <2>2. PICK ins : ins = inserted
    OBVIOUS
  <2>3. f.epoch <= epochNow'
    BY <1>4, <1>5, <1>7, <2>1
  <2> QED
    BY <1>1, <1>7, <2>1, <2>2, <2>3, FilterNext
<1>9. BucketInv'
  <2>1. ASSUME NEW lane \in Lanes
        PROVE  BucketOK(lane, bucket[lane], nowMs')
    <3>1. PICK ms : ms = nowMs
      OBVIOUS
    <3>2. PICK n : n = nowMs'
      OBVIOUS
    <3>3. PICK b : b = bucket[lane]
      OBVIOUS
    <3>4. BucketOK(lane, b, ms) /\ ms \in Nat /\ n \in Nat /\ ms <= n
      BY <1>6, <3>1, <3>2, <3>3 DEF LanesInv, BucketInv
    <3>5. b.last \in Nat
      BY <3>4 DEF BucketOK, Buckets
    <3>6. BucketOK(lane, b, n)
      BY <3>4, <3>5 DEF BucketOK
    <3> QED
      BY <3>2, <3>3, <3>6
  <2> QED
    BY <1>1, <2>1 DEF LanesInv, BucketInv, BucketOK, Buckets, Full
<1>10. AuditInv'
  BY <1>1 DEF LanesInv, AuditInv, ReplayOK, Buckets, Audits, Full
<1>11. PICK g : g = ledger
  OBVIOUS
<1>12. LedgerOK(g, filter.epoch) /\ EnrolledOK(g, inserted)
  BY <1>11 DEF LanesInv, LedgerInv
<1>13. LedgerInv'
  <2>1. PICK o : o = filter.epoch
    OBVIOUS
  <2>2. PICK ins : ins = inserted
    OBVIOUS
  <2> QED
    BY <1>1, <1>11, <1>12, <2>1, <2>2, LedgerNext
<1>14. PaidInv'
  <2>1. PICK o : o = filter.epoch
    OBVIOUS
  <2>2. PICK b : b = bucket["credited"]
    OBVIOUS
  <2>3. \A k \in 0 .. o : PaidFor(g, b, k)
    BY <1>11, <2>1, <2>2 DEF LanesInv, PaidInv
  <2> QED
    BY <1>1, <1>11, <2>1, <2>2, <2>3, PaidNext
<1>15. uses \in [Tokens -> Nat] /\ \A u \in Tokens : Genuine(u) => uses[u] <= committed(g, u, e)
  BY <1>3, <1>11 DEF LanesInv, UsesInv
<1>16. ASSUME NEW u \in Tokens, Genuine(u)'
       PROVE  uses[u] <= committed(g, u, p)
  <2>1. PICK x \in {p, p - 1} : <<u, x>> \in inserted
    BY <1>1, <1>4, <1>16 DEF Genuine
  <2>2. x \in Nat /\ x <= e
    BY <1>5, <1>7, <2>1
  <2>3. CASE p = e
    <3>1. Genuine(u)
      BY <1>3, <2>1, <2>3 DEF Genuine
    <3> QED
      BY <1>15, <2>3, <3>1
  <2>4. CASE p = e + 1
    <3>1. x = e
      BY <1>5, <2>1, <2>2, <2>4
    <3>2. Genuine(u)
      BY <1>3, <2>1, <3>1 DEF Genuine
    <3>3. uses[u] \in Nat /\ uses[u] <= committed(g, u, e)
      BY <1>15, <3>2
    <3>4. committed(g, u, e) \in Nat /\ committed(g, u, p) \in Nat
      BY <1>12, CommittedIs
    <3>5. CASE committed(g, u, e) = 0
      BY <3>3, <3>4, <3>5
    <3>6. CASE committed(g, u, e) # 0
      <4>1. u \in DOMAIN g.entries /\ ~Gone(g.entries[u], e)
        BY <3>6 DEF committed
      <4>2. e <= g.entries[u].firstEpoch
        BY <1>12, <2>1, <3>1, <4>1 DEF EnrolledOK
      <4>3. g.entries[u].firstEpoch \in Nat
        BY <1>12, <4>1, LedgerIs
      <4>4. ~Gone(g.entries[u], p)
        BY <1>5, <2>4, <4>2, <4>3 DEF Gone
      <4>5. committed(g, u, p) = committed(g, u, e)
        BY <4>1, <4>4 DEF committed
      <4> QED
        BY <3>3, <4>5
    <3> QED
      BY <3>5, <3>6
  <2> QED
    BY <1>5, <2>3, <2>4
<1>17. UsesInv'
  <2>1. ledger' = g /\ uses' = uses /\ epochNow' = p
    BY <1>1, <1>4, <1>11
  <2> QED
    BY <1>15, <1>16, <2>1, UsesNext
<1> QED
  BY <1>2, <1>8, <1>9, <1>10, <1>13, <1>14, <1>17 DEF LanesInv

\* The record of a credited admission, and what its token paid for.
LEMMA CommitPaid ==
  ASSUME LanesInv, NEW t \in Tokens, committed(Kept, t, epochNow) < MaxUses, HasToken("credited"),
         NEW k \in 0 .. epochNow
  PROVE  PaidFor(commit(Kept, t, epochNow), take("credited"), k)
<1>1. PICK e : e = epochNow
  OBVIOUS
<1>2. PICK g : g = Kept
  OBVIOUS
<1>3. PICK h : h = commit(g, t, e)
  OBVIOUS
<1>4. PICK r : r = refill("credited")
  OBVIOUS
<1>5. PICK b : b = take("credited")
  OBVIOUS
<1>6. "credited" \in Lanes
  BY DEF Lanes
<1>7. e \in Nat /\ k \in Nat /\ k <= e /\ nowMs \in Nat /\ StartMs(e) <= nowMs
  BY <1>1, NowIs DEF LanesInv
<1>8. LedgerOK(g, e) /\ PaidFor(g, r, k) /\ committed(g, t, e) < MaxUses
  BY <1>1, <1>2, <1>4, KeptNow
<1>9. r \in Buckets /\ r.last = nowMs /\ BucketOK("credited", r, nowMs)
  BY <1>4, <1>6, RefilledLane DEF LanesInv
<1>10. b \in Buckets /\ b.last = nowMs /\ b.level = r.level - UNIT
  BY <1>4, <1>5, <1>6, <1>7, <1>9, TakeIs
<1>11. /\ DOMAIN h.entries = DOMAIN g.entries \union {t}
       /\ \A u \in DOMAIN g.entries \ {t} : h.entries[u] = g.entries[u]
       /\ \/ committed(g, t, e) = 0 /\ h.entries[t].firstEpoch = e
          \/ t \in DOMAIN g.entries /\ h.entries[t].firstEpoch = g.entries[t].firstEpoch
  BY <1>3, <1>7, <1>8, CommitAdds
<1>12. CASE h.entries[t].firstEpoch = e
  <2>1. RecordsSince(h, k) \subseteq RecordsSince(g, k) \union {t}
    BY <1>11 DEF RecordsSince
  <2>2. r.last >= StartMs(k)
    <3>1. StartMs(k) <= StartMs(e)
      BY <1>7, StartMono
    <3>2. StartMs(k) \in Nat /\ StartMs(e) \in Nat
      BY <1>7, StartIs
    <3> QED
      BY <1>7, <1>9, <3>1, <3>2
  <2>3. b.last = r.last
    BY <1>9, <1>10
  <2>4. PaidFor(h, b, k)
    BY <1>7, <1>8, <1>9, <1>10, <2>1, <2>2, <2>3, PaidNew
  <2> QED
    BY <1>1, <1>2, <1>3, <1>5, <2>4
<1>13. CASE t \in DOMAIN g.entries /\ h.entries[t].firstEpoch = g.entries[t].firstEpoch
  <2>1. RecordsSince(h, k) \subseteq RecordsSince(g, k)
    BY <1>11, <1>13 DEF RecordsSince
  <2>2. b.last = r.last /\ b.level <= r.level
    <3>1. UNIT \in Nat /\ r.level \in Nat
      BY <1>6, <1>9, FullIs DEF Buckets
    <3> QED
      BY <1>9, <1>10, <3>1
  <2>3. PaidFor(h, b, k)
    BY <1>7, <1>8, <1>9, <1>10, <2>1, <2>2, PaidLess
  <2> QED
    BY <1>1, <1>2, <1>3, <1>5, <2>3
<1> QED
  BY <1>11, <1>12, <1>13

LEMMA DecideCreditedStep ==
  ASSUME LanesInv, NEW t \in Tokens, NEW late \in BOOLEAN, DecideCredited(t, late)
  PROVE  LanesInv'
<1>1. /\ epochNow \in Nat /\ Moved \in Filters /\ Moved.epoch = epochNow /\ HoldsWindow(Moved, inserted)
      /\ inserted \in SUBSET (Tokens \X (0 .. epochNow))
  BY FilterNow DEF LanesInv
<1>2. PICK e : e = epochNow
  OBVIOUS
<1>3. PICK g : g = Kept
  OBVIOUS
<1>4. PICK ins : ins = inserted
  OBVIOUS
<1>5. PICK f : f = Moved
  OBVIOUS
<1>6. /\ LedgerOK(g, e) /\ g.purgeEpoch = e /\ EnrolledOK(g, ins)
      /\ \A u : committed(g, u, e) = committed(ledger, u, e)
      /\ \A k \in 0 .. e : PaidFor(g, refill("credited"), k)
  BY <1>2, <1>3, <1>4, KeptNow
<1>7. "credited" \in Lanes
  BY DEF Lanes
<1>8. ~IsFull(g)
  <2>1. PICK r : r = refill("credited")
    OBVIOUS
  <2>2. r \in Buckets /\ r.last = nowMs
    BY <1>7, <2>1, RefilledLane DEF LanesInv
  <2>3. StartMs(e) <= r.last /\ r.last <= StartMs(e + 1)
    BY <1>2, <2>2, NowIs DEF LanesInv
  <2>4. e \in Nat /\ \A k \in 0 .. e : PaidFor(g, r, k)
    BY <1>1, <1>2, <1>6, <2>1
  <2> QED
    BY <1>6, <2>2, <2>3, <2>4, NeverFull
<1>9. MakeRoom(g, e) = g
  BY <1>8 DEF MakeRoom
<1>10. /\ f.epoch = e /\ g = maybePurge(ledger, f.epoch) /\ f = advanceFilter(filter)
  BY <1>1, <1>2, <1>3, <1>5 DEF Moved, Kept
<1>11. /\ committed(g, t, e) < MaxUses
       /\ TakeFrom("credited", late) /\ filter' = f /\ UNCHANGED <<clock, inserted>>
       /\ ledger' = IF HasToken("credited") THEN commit(g, t, e) ELSE g
       /\ uses' = IF HasToken("credited") /\ Genuine(t) THEN [uses EXCEPT ![t] = @ + 1] ELSE uses
  BY <1>8, <1>9, <1>10 DEF DecideCredited, IsCredited
<1>12. ClockInv' /\ epochNow' = e
  BY <1>2, <1>11, ClockStays DEF LanesInv
<1>13. FilterInv' /\ filter'.epoch = e
  <2>1. /\ f \in Filters /\ HoldsWindow(f, ins) /\ ins \in SUBSET (Tokens \X (0 .. f.epoch))
        /\ e \in Nat /\ f.epoch <= epochNow'
    BY <1>1, <1>2, <1>4, <1>5, <1>12
  <2> QED
    BY <1>4, <1>10, <1>11, <2>1, FilterNext
<1>14. BucketInv' /\ AuditInv' /\ bucket'["credited"] = take("credited")
  BY <1>7, <1>11, TakeFromStep DEF LanesInv
<1>15. PICK b : b = take("credited")
  OBVIOUS
<1>16. inserted' = ins /\ e \in Nat
  BY <1>1, <1>2, <1>4, <1>11
<1>17. uses \in [Tokens -> Nat] /\ \A u \in Tokens : Genuine(u) => uses[u] <= committed(g, u, e)
  BY <1>2, <1>6 DEF LanesInv, UsesInv
<1>18. \A u \in Tokens : Genuine(u)' <=> Genuine(u)
  BY <1>2, <1>11, <1>12 DEF Genuine
<1>19. CASE HasToken("credited")
  <2>1. PICK h : h = commit(g, t, e)
    OBVIOUS
  <2>2. ledger' = h
    BY <1>11, <1>19, <2>1
  <2>3. /\ LedgerOK(h, e) /\ DOMAIN h.entries = DOMAIN g.entries \union {t}
        /\ \A u \in DOMAIN g.entries \ {t} : h.entries[u] = g.entries[u]
        /\ committed(h, t, e) = committed(g, t, e) + 1
        /\ \A u : u # t => committed(h, u, e) = committed(g, u, e)
        /\ \/ committed(g, t, e) = 0 /\ h.entries[t].firstEpoch = e
           \/ t \in DOMAIN g.entries /\ h.entries[t].firstEpoch = g.entries[t].firstEpoch
    BY <1>6, <1>11, <1>16, <2>1, CommitAdds
  <2>4. EnrolledOK(h, ins)
    <3>1. \A i \in ins : i[2] \in Nat /\ i[2] <= e
      BY <1>1, <1>2, <1>4
    <3>2. ASSUME NEW i \in ins, i[1] \in DOMAIN h.entries
          PROVE  i[2] <= h.entries[i[1]].firstEpoch \/ Gone(h.entries[i[1]], i[2])
      <4>1. CASE i[1] # t
        BY <1>6, <2>3, <3>2, <4>1 DEF EnrolledOK
      <4>2. CASE i[1] = t /\ h.entries[t].firstEpoch = e
        BY <3>1, <4>2
      <4>3. CASE i[1] = t /\ t \in DOMAIN g.entries /\ h.entries[t].firstEpoch = g.entries[t].firstEpoch
        BY <1>6, <4>3 DEF EnrolledOK, Gone
      <4> QED
        BY <2>3, <4>1, <4>2, <4>3
    <3> QED
      BY <3>2 DEF EnrolledOK
  <2>5. LedgerInv'
    BY <1>13, <1>16, <2>2, <2>3, <2>4, LedgerNext
  <2>6. \A k \in 0 .. e : PaidFor(h, b, k)
    BY <1>2, <1>3, <1>11, <1>15, <1>19, <2>1, CommitPaid
  <2>7. PaidInv'
    BY <1>13, <1>14, <1>15, <2>2, <2>6, PaidNext
  <2>8. uses' \in [Tokens -> Nat] /\ \A u \in Tokens \ {t} : uses'[u] = uses[u]
    BY <1>11, <1>17
  <2>9. ASSUME NEW u \in Tokens, Genuine(u)'
        PROVE  uses'[u] <= committed(h, u, e)
    <3>1. Genuine(u) /\ uses[u] <= committed(g, u, e)
      BY <1>17, <1>18, <2>9
    <3>2. CASE u # t
      BY <2>3, <2>8, <3>1, <3>2
    <3>3. CASE u = t
      <4>1. uses'[t] = uses[t] + 1
        BY <1>11, <1>17, <1>19, <3>1, <3>3
      <4>2. uses[t] \in Nat /\ committed(g, t, e) \in Nat
        BY <1>6, <1>17, CommittedIs
      <4> QED
        BY <2>3, <3>1, <3>3, <4>1, <4>2
    <3> QED
      BY <3>2, <3>3
  <2>10. UsesInv'
    BY <1>12, <2>2, <2>8, <2>9, UsesNext
  <2> QED
    BY <1>12, <1>13, <1>14, <2>5, <2>7, <2>10 DEF LanesInv
<1>20. CASE ~HasToken("credited")
  <2>1. ledger' = g /\ uses' = uses
    BY <1>11, <1>20
  <2>2. LedgerInv'
    BY <1>6, <1>13, <1>16, <2>1, LedgerNext
  <2>3. UsesInv'
    BY <1>2, <1>6, <1>11, <2>1, UsesStay
  <2>4. PICK r : r = refill("credited")
    OBVIOUS
  <2>5. r \in Buckets /\ r.last = nowMs /\ BucketOK("credited", r, nowMs) /\ nowMs \in Nat
    BY <1>7, <2>4, RefilledLane, NowIs DEF LanesInv
  <2>6. b \in Buckets /\ b.last = nowMs /\ b.level = r.level
    BY <1>7, <1>15, <1>20, <2>4, <2>5, TakeIs
  <2>7. b.last = r.last /\ b.level <= r.level
    BY <2>5, <2>6 DEF Buckets
  <2>8. \A k \in 0 .. e : k \in Nat /\ PaidFor(g, r, k) /\ RecordsSince(g, k) \subseteq RecordsSince(g, k)
    BY <1>6, <1>16, <2>4
  <2>9. \A k \in 0 .. e : PaidFor(g, b, k)
    BY <1>6, <2>5, <2>6, <2>7, <2>8, PaidLess
  <2>10. PaidInv'
    BY <1>13, <1>14, <1>15, <2>1, <2>9, PaidNext
  <2> QED
    BY <1>12, <1>13, <1>14, <2>2, <2>3, <2>10 DEF LanesInv
<1> QED
  BY <1>19, <1>20

LEMMA LanesInitially == LaneInit => LanesInv
<1> SUFFICES ASSUME LaneInit
             PROVE  LanesInv
  OBVIOUS
<1>1. T0 \in Nat /\ Res \in Nat \ {0} /\ EpochMs \in Nat \ {0}
  BY ConfigAssumption
<1>2. ClockInv
  BY <1>1 DEF LaneInit, ClockInv
<1>3. epochNow \in Nat /\ nowMs = T0 \div Res /\ nowMs \in Nat
  BY <1>2, NowIs DEF LaneInit, nowMs
<1>4. filter \in Filters /\ filter.epoch = 0 /\ inserted = {}
  <2>1. [slot \in 0..1 |-> {}] \in [0..1 -> SUBSET AllBits]
    OBVIOUS
  <2> QED
    BY <2>1 DEF LaneInit, Filters
<1>5. \A k : BitsOfEpoch({}, k) = {}
  BY DEF BitsOfEpoch
<1>6. HoldsWindow(filter, inserted)
  <2>1. 0 % 2 \in 0 .. 1 /\ filter.arrays = [slot \in 0..1 |-> {}]
    BY Slots DEF LaneInit
  <2> QED
    BY <1>4, <1>5, <2>1 DEF HoldsWindow
<1>7. FilterInv
  BY <1>3, <1>4, <1>6 DEF FilterInv
<1>8. ASSUME NEW lane \in Lanes
      PROVE  /\ NewBucket(lane) \in Buckets /\ BucketOK(lane, NewBucket(lane), nowMs)
             /\ NewAudit(lane) \in Audits /\ ReplayOK(lane, NewAudit(lane), NewBucket(lane))
  <2>1. PICK F : F = Capacity[lane] * UNIT
    OBVIOUS
  <2>2. F \in Nat /\ F = Full(lane)
    BY <2>1, FullIs DEF Full
  <2>3. PICK T : T = T0 \div Res
    OBVIOUS
  <2>4. NewBucket(lane) = [level |-> F, last |-> T, takes |-> 0] /\ NewAudit(lane) = [level |-> F, dt |-> 0, seq |-> 0, gaps |-> 0, mismatches |-> 0]
    BY <2>1, <2>3 DEF NewBucket, NewAudit
  <2> QED
    BY <1>3, <2>2, <2>3, <2>4 DEF BucketOK, ReplayOK, Buckets, Audits
<1>9. BucketInv /\ AuditInv
  BY <1>8 DEF LaneInit, BucketInv, AuditInv
<1>10. ledger.entries = [t \in {} |-> 0] /\ ledger = [entries |-> ledger.entries, purgeEpoch |-> 0, refusals |-> 0, violations |-> 0]
  BY DEF LaneInit
<1>11. DOMAIN ledger.entries = {} /\ ledger.entries \in EntryMaps /\ IsFiniteSet({})
  BY <1>10, EntryMapIs, FS_EmptySet
<1>12. ledger \in Ledgers /\ ledger.purgeEpoch = 0
  BY <1>10, <1>11 DEF Ledgers
<1>13. LedgerInv
  BY <1>4, <1>11, <1>12 DEF LedgerInv, LedgerOK, EnrolledOK
<1>14. UsesInv
  BY <1>4 DEF LaneInit, UsesInv, Genuine
<1>15. PaidInv
  <2>1. PICK b : b = bucket["credited"]
    OBVIOUS
  <2>2. b \in Buckets /\ b.level <= Full("credited")
    BY <1>9, <2>1 DEF BucketInv, BucketOK, Lanes
  <2>3. PICK g : g = ledger
    OBVIOUS
  <2>4. \A k \in Nat : RecordsSince(g, k) = {}
    BY <1>11, <2>3 DEF RecordsSince
  <2>5. \A k \in 0 .. 0 : k \in Nat
    OBVIOUS
  <2>6. \A k \in 0 .. 0 : PaidFor(g, b, k)
    BY <2>2, <2>4, <2>5, PaidEmpty
  <2> QED
    BY <1>4, <2>1, <2>3, <2>6 DEF PaidInv
<1> QED
  BY <1>2, <1>7, <1>9, <1>13, <1>14, <1>15 DEF LanesInv

LEMMA LanesNext == LanesInv /\ [LaneNext]_laneVars => LanesInv'
<1> SUFFICES ASSUME LanesInv, [LaneNext]_laneVars
             PROVE  LanesInv'
  OBVIOUS
<1>1. CASE LaneNext
  BY <1>1, TickStep, DecideUnverifiedStep, DecideCreditedStep, EnrollStep, SnapshotStep DEF LaneNext
<1>2. CASE UNCHANGED laneVars
  <2>1. UNCHANGED <<clock, filter, bucket, ledger, audit, inserted, uses>>
    BY <1>2 DEF laneVars
  <2>2. ClockInv' /\ epochNow' = epochNow /\ nowMs' = nowMs
    BY <2>1, ClockStays DEF LanesInv
  <2>3. FilterInv'
    BY <2>1, <2>2 DEF LanesInv, FilterInv, Filters, AllBits, HoldsWindow, BitsOfEpoch
  <2>4. BucketInv' /\ AuditInv'
    BY <2>1, <2>2 DEF LanesInv, BucketInv, AuditInv, BucketOK, ReplayOK, Buckets, Audits, Full
  <2>5. LedgerInv'
    BY <2>1 DEF LanesInv, LedgerInv, LedgerOK, EnrolledOK, Gone, Ledgers, EntryMaps, Entry
  <2>6. UsesInv'
    BY <2>1, <2>2 DEF LanesInv, UsesInv, committed, Gone, Genuine
  <2>7. PaidInv'
    BY <2>1 DEF LanesInv, PaidInv, PaidFor, RecordsSince, StartMs, Full
  <2> QED
    BY <2>2, <2>3, <2>4, <2>5, <2>6, <2>7 DEF LanesInv
<1> QED
  BY <1>1, <1>2

LEMMA LanesInvImplies == LanesInv => CreditIsExact /\ BucketsReplayExactly
<1> SUFFICES ASSUME LanesInv
             PROVE  CreditIsExact /\ BucketsReplayExactly
  OBVIOUS
<1>1. FilterIsTheWindow
  BY FilterNow DEF LanesInv, FilterIsTheWindow, Moved
<1>2. UsesPerEnrolment
  <2>1. ASSUME NEW t \in Tokens, Genuine(t)
        PROVE  uses[t] <= MaxUses
    <3>1. PICK o : o = filter.epoch
      OBVIOUS
    <3>2. PICK g : g = ledger
      OBVIOUS
    <3>3. LedgerOK(g, o)
      BY <3>1, <3>2 DEF LanesInv, LedgerInv
    <3>4. committed(g, t, epochNow) \in 0 .. MaxUses
      BY <3>3, CommittedIs
    <3>5. uses[t] \in Nat /\ uses[t] <= committed(g, t, epochNow)
      BY <2>1, <3>2 DEF LanesInv, UsesInv
    <3>6. MaxUses \in Nat
      BY ConfigAssumption
    <3> QED
      BY <3>4, <3>5, <3>6
  <2> QED
    BY <2>1 DEF UsesPerEnrolment
<1>3. LedgerNeverRefuses
  BY LedgerIs DEF LanesInv, LedgerInv, LedgerNeverRefuses
<1>4. BucketsReplayExactly
  BY DEF LanesInv, AuditInv, ReplayOK, Audits, BucketsReplayExactly
<1> QED
  BY <1>1, <1>2, <1>3, <1>4 DEF CreditIsExact

(***************************************************************************)
(* LanesInv holds in every behaviour.                                      *)
(***************************************************************************)
THEOREM LanesInvariance == LaneSpec => []LanesInv
BY LanesInitially, LanesNext, PTL DEF LaneSpec

(***************************************************************************)
(* For any tokens, shared bits, epoch, capacity, rate and number of uses:  *)
(* an enrolment is honoured in its window and not after it, at most        *)
(* MaxUses times, and the ledger sized by requiredLedgerCapacity never     *)
(* refuses a record (lanes.ts, credit-filter.ts).                          *)
(***************************************************************************)
THEOREM CreditStaysExact == LaneSpec => []CreditIsExact
BY LanesInvariance, LanesInvImplies, PTL

(***************************************************************************)
(* The accounting replays every bucket from its recorded decisions without *)
(* a gap or a mismatch, whoever looks at the buckets in between            *)
(* (auditBucket of lane-accounting.ts).                                    *)
(***************************************************************************)
THEOREM BucketsAlwaysReplay == LaneSpec => []BucketsReplayExactly
BY LanesInvariance, LanesInvImplies, PTL

(***************************************************************************)
(* The field level.                                                        *)
(***************************************************************************)

\* Every entry of the script has one place in it.
LEMMA Places ==
  /\ DOMAIN Script = 1 .. 20
  /\ \A i \in 1 .. 20 : Position(Script[i]) = i
<1>1. DOMAIN Script = 1 .. 20
  BY DEF Script
<1>2. \A i, j \in 1 .. 20 : Script[i] = Script[j] => i = j
  BY DEF Script
<1> QED
  BY <1>1, <1>2 DEF Position

\* The entries one by one, and what follows each.
LEMMA Order ==
  /\ Position("drain") = 14 /\ Position("Done") = 20 /\ Position("Preflight") = 1
  /\ After("Preflight") = "Listen" /\ After("Listen") = "app" /\ After("app") = "boundary"
  /\ After("boundary") = "plane" /\ After("plane") = "FirstTick" /\ After("FirstTick") = "BASELINE"
  /\ After("BASELINE") = "ARMED" /\ After("ARMED") = "WINDOW" /\ After("WINDOW") = "RESIDUAL"
  /\ After("RESIDUAL") = "QUIET" /\ After("QUIET") = "RECOVERY" /\ After("RECOVERY") = "close_ingress"
  /\ After("close_ingress") = "drain" /\ After("drain") = "final_telemetry"
  /\ After("final_telemetry") = "snapshot" /\ After("snapshot") = "finalize_evidence"
  /\ After("finalize_evidence") = "terminate" /\ After("terminate") = "Cleanup" /\ After("Cleanup") = "Done"
<1>1. /\ Script[1] = "Preflight" /\ Script[2] = "Listen" /\ Script[3] = "app" /\ Script[4] = "boundary"
      /\ Script[5] = "plane" /\ Script[6] = "FirstTick" /\ Script[7] = "BASELINE" /\ Script[8] = "ARMED"
      /\ Script[9] = "WINDOW" /\ Script[10] = "RESIDUAL" /\ Script[11] = "QUIET" /\ Script[12] = "RECOVERY"
      /\ Script[13] = "close_ingress" /\ Script[14] = "drain" /\ Script[15] = "final_telemetry"
      /\ Script[16] = "snapshot" /\ Script[17] = "finalize_evidence" /\ Script[18] = "terminate"
      /\ Script[19] = "Cleanup" /\ Script[20] = "Done"
  BY DEF Script
<1> HIDE DEF Script
<1>2. \A i \in 1 .. 19 : After(Script[i]) = Script[i + 1]
  BY Places DEF After
<1> QED
  BY <1>1, <1>2, Places

\* The steps a machine may take along either path.
LEMMA NormalPath ==
  /\ IsNext(NORMAL, "PREFLIGHT", "TOPOLOGY_UP") /\ IsNext(NORMAL, "TOPOLOGY_UP", "BASELINE")
  /\ IsNext(NORMAL, "BASELINE", "ARMED") /\ IsNext(NORMAL, "ARMED", "WINDOW")
  /\ IsNext(NORMAL, "WINDOW", "RESIDUAL") /\ IsNext(NORMAL, "RESIDUAL", "QUIET")
  /\ IsNext(NORMAL, "QUIET", "RECOVERY") /\ IsNext(NORMAL, "RECOVERY", "FINALIZING")
<1>1. Len(NORMAL) = 11
  BY DEF NORMAL
<1>2. /\ NORMAL[2] = "PREFLIGHT" /\ NORMAL[3] = "TOPOLOGY_UP" /\ NORMAL[4] = "BASELINE" /\ NORMAL[5] = "ARMED"
      /\ NORMAL[6] = "WINDOW" /\ NORMAL[7] = "RESIDUAL" /\ NORMAL[8] = "QUIET" /\ NORMAL[9] = "RECOVERY"
      /\ NORMAL[10] = "FINALIZING"
  BY DEF NORMAL
<1> HIDE DEF NORMAL
<1>3. \A i \in 1 .. 10 : IsNext(NORMAL, NORMAL[i], NORMAL[i + 1])
  BY <1>1 DEF IsNext
<1> QED
  BY <1>2, <1>3

LEMMA StopPath ==
  ASSUME NEW from, NEW to, IsNext(STOPPED, from, to)
  PROVE  to \in {"DRAINING", "SNAPSHOT", "FINALIZING", "DONE"}
BY DEF IsNext, STOPPED

\* A transition keeps everything but the state, and stays on the path.
LEMMA Advances ==
  ASSUME NEW mm \in Machines, Held(mm), NEW next \in States
  PROVE  /\ advance(mm, next) \in Machines /\ Held(advance(mm, next))
         /\ advance(mm, next).stopped = mm.stopped /\ advance(mm, next).first = mm.first
         /\ advance(mm, next).reasons = mm.reasons
         /\ advance(mm, next).state \in {mm.state, next}
         /\ mm.stopped => advance(mm, next).state = mm.state \/ IsNext(STOPPED, mm.state, advance(mm, next).state)
         /\ ~mm.stopped /\ IsNext(NORMAL, mm.state, next) => advance(mm, next).state = next
<1>1. CASE IsNext(IF mm.stopped THEN STOPPED ELSE NORMAL, mm.state, next)
  <2>1. PICK a : a = [mm EXCEPT !.state = next]
    OBVIOUS
  <2>2. advance(mm, next) = a
    BY <1>1, <2>1 DEF advance
  <2>3. /\ a \in Machines /\ a.stopped = mm.stopped /\ a.first = mm.first /\ a.reasons = mm.reasons /\ a.state = next
    BY <2>1 DEF Machines
  <2>4. mm.stopped => next \in StopStates
    BY <1>1, StopPath DEF StopStates
  <2>5. mm.stopped => IsNext(STOPPED, mm.state, next)
    BY <1>1
  <2> QED
    BY <2>2, <2>3, <2>4, <2>5 DEF Held
<1>2. CASE ~IsNext(IF mm.stopped THEN STOPPED ELSE NORMAL, mm.state, next)
  BY <1>2 DEF advance
<1> QED
  BY <1>1, <1>2

\* The first reason stays, and a stop begins exactly where one may begin.
LEMMA Latches ==
  ASSUME m \in Machines, Held(m), NEW C \in SUBSET Classes, Latch(C)
  PROVE  /\ m' \in Machines /\ Held(m')
         /\ m.stopped => m'.stopped /\ m'.first = m.first
         /\ m.stopped \/ m.state \notin STOPPABLE => m'.stopped = m.stopped /\ m'.state = m.state
         /\ ~m.stopped /\ m.state \in STOPPABLE => m'.stopped
<1>1. PICK f \in C : m' = [latch(m, f) EXCEPT !.reasons = @ \union C]
  BY DEF Latch
<1>2. PICK stops \in BOOLEAN : stops = (~m.stopped /\ m.state \in STOPPABLE)
  OBVIOUS
<1>3. PICK a : a = [m EXCEPT !.reasons = m.reasons \union {f}, !.first = IF m.first = None THEN f ELSE m.first,
                             !.stopped = m.stopped \/ stops, !.state = IF stops THEN "STOPPING" ELSE m.state]
  OBVIOUS
<1>4. latch(m, f) = a
  BY <1>2, <1>3 DEF latch
<1>5. /\ a.reasons = m.reasons \union {f} /\ a.first = (IF m.first = None THEN f ELSE m.first)
      /\ a.stopped = (m.stopped \/ stops) /\ a.state = (IF stops THEN "STOPPING" ELSE m.state)
  BY <1>3 DEF Machines
<1>6. a \in Machines
  BY <1>1, <1>2, <1>3 DEF Machines, States
<1>7. /\ m' \in Machines /\ m'.reasons = a.reasons \union C /\ m'.first = a.first
      /\ m'.stopped = a.stopped /\ m'.state = a.state
  BY <1>1, <1>4, <1>6 DEF Machines
<1>8. f \in Classes /\ f # None
  BY <1>1 DEF Classes, None
<1>9. m.stopped \in BOOLEAN /\ a.reasons # {} /\ a.first # None /\ m'.reasons # {} /\ m'.first # None
  BY <1>5, <1>7, <1>8 DEF Machines
<1>10. CASE m.stopped
  <2>1. m.state \in StopStates /\ m.first # None /\ ~stops
    BY <1>2, <1>10 DEF Held
  <2>2. m'.stopped = TRUE /\ m'.state = m.state /\ m'.first = m.first
    BY <1>5, <1>7, <1>10, <2>1
  <2> QED
    BY <1>7, <1>9, <1>10, <2>1, <2>2 DEF Held
<1>11. CASE ~m.stopped /\ stops
  BY <1>2, <1>5, <1>7, <1>9, <1>11 DEF Held, StopStates
<1>12. CASE ~m.stopped /\ ~stops
  BY <1>2, <1>5, <1>7, <1>9, <1>12 DEF Held, StopStates
<1> QED
  BY <1>9, <1>10, <1>11, <1>12

LEMMA Followers == \A e \in Entries \ {"Done"} : After(e) \in Entries
BY Order DEF Entries, Roles, Phases, Steps

\* What raising reasons, or none, does to the machine.
Latched ==
  /\ m' \in Machines /\ Held(m')
  /\ m.stopped => m'.stopped /\ m'.first = m.first
  /\ ~m'.stopped => m'.state = m.state
  /\ m.stopped \/ m.state \notin STOPPABLE => m'.stopped = m.stopped /\ m'.state = m.state
  /\ ~m.stopped /\ m.state \in STOPPABLE /\ m' # m => m'.stopped

LEMMA LatchLatches ==
  ASSUME FieldInv, NEW C \in SUBSET Classes, Latch(C)
  PROVE  Latched /\ (~m.stopped /\ m.state \in STOPPABLE => m'.stopped)
BY Latches DEF FieldInv, FieldTypes, MachineInv, Latched

LEMMA NothingLatches ==
  ASSUME FieldInv, m' = m
  PROVE  Latched
BY DEF FieldInv, FieldTypes, MachineInv, Held, Latched

LEMMA TickLatches ==
  ASSUME FieldInv, tickOnce
  PROVE  Latched
<1>1. PICK C \in SUBSET Classes : LatchIfAny(C)
  BY DEF tickOnce, Observed, observeHarness, assertStillAuthorized, Classes
<1> QED
  BY <1>1, LatchLatches, NothingLatches DEF LatchIfAny, machineVars

\* Where the machine stands, entry by entry.
LEMMA Courses ==
  ASSUME NEW at, NEW in
  PROVE  /\ at = "Preflight" => Course(at, in) = {"PREFLIGHT"}
         /\ at \in {"Listen", "app", "boundary", "plane", "FirstTick"} => Course(at, in) = {"TOPOLOGY_UP"}
         /\ at = "BASELINE" => Course(at, in) = {IF in THEN "BASELINE" ELSE "TOPOLOGY_UP"}
         /\ at = "ARMED" => Course(at, in) = {IF in THEN "ARMED" ELSE "BASELINE"}
         /\ at = "WINDOW" => Course(at, in) = {IF in THEN "WINDOW" ELSE "ARMED"}
         /\ at = "RESIDUAL" => Course(at, in) = {IF in THEN "RESIDUAL" ELSE "WINDOW"}
         /\ at = "QUIET" => Course(at, in) = {IF in THEN "QUIET" ELSE "RESIDUAL"}
         /\ at = "RECOVERY" => Course(at, in) = {IF in THEN "RECOVERY" ELSE "QUIET"}
         /\ at = "close_ingress" => Course(at, in) = IF in THEN {"FINALIZING", "DONE"} ELSE {"RECOVERY"}
         /\ at \in {"drain", "final_telemetry", "snapshot", "finalize_evidence", "terminate", "Cleanup", "Done"} =>
              Course(at, in) = {"FINALIZING", "DONE"}
BY DEF Course, Roles

\* What ends an entry leaves the machine where the next one finds it.
LEMMA MovesOn ==
  /\ \A e \in Entries \ {"Preflight", "Done"} : Course(e, TRUE) = Course(After(e), FALSE)
  /\ \A e \in Entries \ (Phases \union {"close_ingress"}) : Course(e, FALSE) = Course(e, TRUE)
<1>1. \A e \in {"Listen", "app", "boundary", "plane", "FirstTick"} :
        Course(e, TRUE) = Course(After(e), FALSE) /\ Course(e, FALSE) = Course(e, TRUE)
  BY Order DEF Course, Roles
<1>2. \A e \in Phases : Course(e, TRUE) = Course(After(e), FALSE)
  BY Order DEF Phases, Course, Roles
<1>3. Course("close_ingress", TRUE) = Course(After("close_ingress"), FALSE)
  BY Order DEF Course, Roles
<1>4. \A e \in {"drain", "final_telemetry", "snapshot", "finalize_evidence", "terminate", "Cleanup"} :
        Course(e, TRUE) = Course(After(e), FALSE) /\ Course(e, FALSE) = Course(e, TRUE)
  BY Order DEF Course, Roles
<1>5. \A e \in {"Preflight", "Done"} : Course(e, FALSE) = Course(e, TRUE)
  BY DEF Course, Roles
<1>6. Entries = Phases \union {"Listen", "app", "boundary", "plane", "FirstTick"} \union {"close_ingress"}
        \union {"drain", "final_telemetry", "snapshot", "finalize_evidence", "terminate", "Cleanup"}
        \union {"Preflight", "Done"}
  BY DEF Entries, Roles, Steps
<1> QED
  BY <1>1, <1>2, <1>3, <1>4, <1>5, <1>6

\* Once the evidence is begun no STOP can begin.
LEMMA PastStopping ==
  ASSUME FieldInv, pc \in {"finalize_evidence", "terminate", "Cleanup", "Done"}
  PROVE  m.state \notin STOPPABLE
<1>1. CASE m.stopped
  BY <1>1 DEF FieldInv, MachineInv, Held, StopStates, STOPPABLE, Phases
<1>2. CASE ~m.stopped
  <2>1. m.state \in {"FINALIZING", "DONE"}
    BY <1>2, Courses DEF FieldInv, FieldTypes, MachineInv
  <2> QED
    BY <2>1 DEF STOPPABLE, Phases
<1> QED
  BY <1>1, <1>2

\* Raising reasons keeps the machine on its course.
LEMMA ReasonsKeepCourse ==
  ASSUME FieldInv, Latched, UNCHANGED <<pc, inside, skipped, capSpent>>
  PROVE  MachineInv'
<1>2. pc = "Preflight" => ~m.stopped /\ m.state \notin STOPPABLE
  BY Courses DEF FieldInv, MachineInv, FieldTypes, STOPPABLE, Phases
<1>3. ~m'.stopped => ~m.stopped /\ m'.state = m.state
  BY DEF Latched
<1>4. Held(m)'
  BY DEF Latched, Held
<1> QED
  BY <1>2, <1>3, <1>4 DEF FieldInv, MachineInv, Latched

\* A step that only raises reasons keeps the invariant.
LEMMA ObservingStep ==
  ASSUME FieldInv, Latched,
         UNCHANGED <<pc, inside, childVars, canaryVars, levelVars, trafficVars, closingVars, endVars>>
  PROVE  FieldInv'
<1> USE DEF FieldInv, childVars, canaryVars, levelVars, trafficVars, closingVars, endVars
<1>1. FieldTypes'
  BY DEF FieldTypes, Latched
<1>2. MachineInv'
  BY ReasonsKeepCourse
<1>3. PhaseInv'
  BY DEF PhaseInv
<1>4. OutcomeInv'
  <2>1. outcome.status = "complete" => m.state \notin STOPPABLE
    BY PastStopping DEF OutcomeInv, None
  <2> QED
    BY <2>1 DEF OutcomeInv, Latched
<1>5. TopologyInv'
  BY DEF TopologyInv
<1> QED
  BY <1>1, <1>2, <1>3, <1>4, <1>5

LEMMA StartStep ==
  ASSUME FieldInv, Start
  PROVE  FieldInv'
<1> USE DEF FieldInv, machineVars, childVars, canaryVars, levelVars, trafficVars, closingVars, endVars, Start, Goto
<1>a. pc \in Entries \ {"Preflight", "Done"} /\ pc' = After(pc) /\ inside' = FALSE
  BY DEF FieldTypes, Entries, Roles, Phases, Steps
<1>b. inside \/ pc \notin Phases \union {"close_ingress"}
  BY DEF Phases, Steps, Roles, FieldTypes, PhaseInv, MachineInv
<1>m. Latched
  BY LatchLatches, NothingLatches, TickLatches DEF Classes, LatchIfAny
<1>1. FieldTypes'
  <2>1. pc' \in Entries /\ inside' \in BOOLEAN
    BY <1>a, Followers
  <2>2. m' \in Machines
    BY <1>m DEF Latched
  <2> QED
    BY <2>1, <2>2 DEF FieldTypes
<1>2. MachineInv'
  <2>1. Course(pc, inside) = Course(pc', inside')
    BY <1>a, <1>b, MovesOn DEF FieldTypes
  <2>2. pc' # "Preflight"
    BY <1>a, Order DEF Entries, Roles, Phases, Steps
  <2>3. Held(m)'
    BY <1>m DEF Latched, Held
  <2>4. skipped' => m'.stopped
    BY <1>m DEF MachineInv, Latched
  <2>5. capSpent' => pc' \in (Steps \ {"close_ingress"}) \union {"Cleanup", "Done"}
    BY <1>a, Order DEF MachineInv, Steps, Phases, Roles
  <2>6. ~m'.stopped => m'.state \in Course(pc', inside')
    BY <1>m, <2>1 DEF MachineInv, Latched
  <2> QED
    BY <2>2, <2>3, <2>4, <2>5, <2>6 DEF MachineInv
<1>3. PhaseInv'
  BY <1>a, Order DEF PhaseInv, None, WithControl, FieldTypes, Phases, Steps, Roles
<1>4. OutcomeInv'
  BY <1>m, <1>a, Order, PastStopping DEF OutcomeInv, PhaseInv, FieldTypes, Latched, Roles, Phases, Steps
<1>5. TopologyInv'
  <2>1. pc' \notin {"Preflight", "Listen", "Cleanup", "Done"} /\ result = None
    BY <1>a, Order DEF TopologyInv, Roles
  <2> QED
    BY <2>1 DEF TopologyInv, None
<1> QED
  BY <1>1, <1>2, <1>3, <1>4, <1>5

LEMMA FirstTickStep ==
  ASSUME FieldInv, FirstTick
  PROVE  FieldInv'
<1> USE DEF FieldInv, machineVars, childVars, canaryVars, levelVars, trafficVars, closingVars, endVars, FirstTick, Goto
<1>a. pc \in Entries \ {"Preflight", "Done"} /\ pc' = After(pc) /\ inside' = FALSE
  BY DEF FieldTypes, Entries, Roles, Phases, Steps
<1>b. inside \/ pc \notin Phases \union {"close_ingress"}
  BY DEF Phases, Steps, Roles, FieldTypes, PhaseInv, MachineInv
<1>m. Latched
  BY LatchLatches, NothingLatches, TickLatches DEF Classes, LatchIfAny
<1>1. FieldTypes'
  <2>1. pc' \in Entries /\ inside' \in BOOLEAN
    BY <1>a, Followers
  <2>2. m' \in Machines
    BY <1>m DEF Latched
  <2> QED
    BY <2>1, <2>2 DEF FieldTypes
<1>2. MachineInv'
  <2>1. Course(pc, inside) = Course(pc', inside')
    BY <1>a, <1>b, MovesOn DEF FieldTypes
  <2>2. pc' # "Preflight"
    BY <1>a, Order DEF Entries, Roles, Phases, Steps
  <2>3. Held(m)'
    BY <1>m DEF Latched, Held
  <2>4. skipped' => m'.stopped
    BY <1>m DEF MachineInv, Latched
  <2>5. capSpent' => pc' \in (Steps \ {"close_ingress"}) \union {"Cleanup", "Done"}
    BY <1>a, Order DEF MachineInv, Steps, Phases, Roles
  <2>6. ~m'.stopped => m'.state \in Course(pc', inside')
    BY <1>m, <2>1 DEF MachineInv, Latched
  <2> QED
    BY <2>2, <2>3, <2>4, <2>5, <2>6 DEF MachineInv
<1>3. PhaseInv'
  BY <1>a, Order DEF PhaseInv, None, WithControl, FieldTypes, Phases, Steps, Roles
<1>4. OutcomeInv'
  BY <1>m, <1>a, Order, PastStopping DEF OutcomeInv, PhaseInv, FieldTypes, Latched, Roles, Phases, Steps
<1>5. TopologyInv'
  BY <1>a, Order DEF TopologyInv, OutcomeInv, FieldTypes, Roles, Phases, Steps
<1> QED
  BY <1>1, <1>2, <1>3, <1>4, <1>5

LEMMA EndCountedPhaseStep ==
  ASSUME FieldInv, EndCountedPhase
  PROVE  FieldInv'
<1> USE DEF FieldInv, machineVars, childVars, canaryVars, levelVars, trafficVars, closingVars, endVars, EndCountedPhase, Goto
<1>a. pc \in Entries \ {"Preflight", "Done"} /\ pc' = After(pc) /\ inside' = FALSE
  BY DEF FieldTypes, Entries, Roles, Phases, Steps
<1>b. inside \/ pc \notin Phases \union {"close_ingress"}
  BY DEF Phases, Steps, Roles, FieldTypes, PhaseInv, MachineInv
<1>m. Latched
  BY LatchLatches, NothingLatches, TickLatches DEF Classes, LatchIfAny
<1>1. FieldTypes'
  <2>1. pc' \in Entries /\ inside' \in BOOLEAN
    BY <1>a, Followers
  <2>2. m' \in Machines
    BY <1>m DEF Latched
  <2> QED
    BY <2>1, <2>2 DEF FieldTypes
<1>2. MachineInv'
  <2>1. Course(pc, inside) = Course(pc', inside')
    BY <1>a, <1>b, MovesOn DEF FieldTypes
  <2>2. pc' # "Preflight"
    BY <1>a, Order DEF Entries, Roles, Phases, Steps
  <2>3. Held(m)'
    BY <1>m DEF Latched, Held
  <2>4. skipped' => m'.stopped
    BY <1>m DEF MachineInv, Latched
  <2>5. capSpent' => pc' \in (Steps \ {"close_ingress"}) \union {"Cleanup", "Done"}
    BY <1>a, Order DEF MachineInv, Steps, Phases, Roles
  <2>6. ~m'.stopped => m'.state \in Course(pc', inside')
    BY <1>m, <2>1 DEF MachineInv, Latched
  <2> QED
    BY <2>2, <2>3, <2>4, <2>5, <2>6 DEF MachineInv
<1>3. PhaseInv'
  BY <1>a, Order DEF PhaseInv, None, WithControl, FieldTypes, Phases, Steps, Roles
<1>4. OutcomeInv'
  BY <1>m, <1>a, Order, PastStopping DEF OutcomeInv, PhaseInv, FieldTypes, Latched, Roles, Phases, Steps
<1>5. TopologyInv'
  BY <1>a, Order DEF TopologyInv, OutcomeInv, FieldTypes, Roles, Phases, Steps
<1> QED
  BY <1>1, <1>2, <1>3, <1>4, <1>5

LEMMA EndArmedStep ==
  ASSUME FieldInv, EndArmed
  PROVE  FieldInv'
<1> USE DEF FieldInv, machineVars, childVars, canaryVars, levelVars, trafficVars, closingVars, endVars, EndArmed, Goto
<1>a. pc \in Entries \ {"Preflight", "Done"} /\ pc' = After(pc) /\ inside' = FALSE
  BY DEF FieldTypes, Entries, Roles, Phases, Steps
<1>b. inside \/ pc \notin Phases \union {"close_ingress"}
  BY DEF Phases, Steps, Roles, FieldTypes, PhaseInv, MachineInv
<1>m. Latched
  BY LatchLatches, NothingLatches, TickLatches DEF Classes, LatchIfAny
<1>1. FieldTypes'
  <2>1. pc' \in Entries /\ inside' \in BOOLEAN
    BY <1>a, Followers
  <2>2. m' \in Machines
    BY <1>m DEF Latched
  <2> QED
    BY <2>1, <2>2 DEF FieldTypes
<1>2. MachineInv'
  <2>1. Course(pc, inside) = Course(pc', inside')
    BY <1>a, <1>b, MovesOn DEF FieldTypes
  <2>2. pc' # "Preflight"
    BY <1>a, Order DEF Entries, Roles, Phases, Steps
  <2>3. Held(m)'
    BY <1>m DEF Latched, Held
  <2>4. skipped' => m'.stopped
    BY <1>m DEF MachineInv, Latched
  <2>5. capSpent' => pc' \in (Steps \ {"close_ingress"}) \union {"Cleanup", "Done"}
    BY <1>a, Order DEF MachineInv, Steps, Phases, Roles
  <2>6. ~m'.stopped => m'.state \in Course(pc', inside')
    BY <1>m, <2>1 DEF MachineInv, Latched
  <2> QED
    BY <2>2, <2>3, <2>4, <2>5, <2>6 DEF MachineInv
<1>3. PhaseInv'
  BY <1>a, Order DEF PhaseInv, None, WithControl, FieldTypes, Phases, Steps, Roles
<1>4. OutcomeInv'
  BY <1>m, <1>a, Order, PastStopping DEF OutcomeInv, PhaseInv, FieldTypes, Latched, Roles, Phases, Steps
<1>5. TopologyInv'
  BY <1>a, Order DEF TopologyInv, OutcomeInv, FieldTypes, Roles, Phases, Steps
<1> QED
  BY <1>1, <1>2, <1>3, <1>4, <1>5

LEMMA WindowClosedStep ==
  ASSUME FieldInv, WindowClosed
  PROVE  FieldInv'
<1> USE DEF FieldInv, machineVars, childVars, canaryVars, levelVars, trafficVars, closingVars, endVars, WindowClosed, Goto
<1>a. pc \in Entries \ {"Preflight", "Done"} /\ pc' = After(pc) /\ inside' = FALSE
  BY DEF FieldTypes, Entries, Roles, Phases, Steps
<1>b. inside \/ pc \notin Phases \union {"close_ingress"}
  BY DEF Phases, Steps, Roles, FieldTypes, PhaseInv, MachineInv
<1>m. Latched
  BY LatchLatches, NothingLatches, TickLatches DEF Classes, LatchIfAny
<1>1. FieldTypes'
  <2>1. pc' \in Entries /\ inside' \in BOOLEAN
    BY <1>a, Followers
  <2>2. m' \in Machines
    BY <1>m DEF Latched
  <2> QED
    BY <2>1, <2>2 DEF FieldTypes
<1>2. MachineInv'
  <2>1. Course(pc, inside) = Course(pc', inside')
    BY <1>a, <1>b, MovesOn DEF FieldTypes
  <2>2. pc' # "Preflight"
    BY <1>a, Order DEF Entries, Roles, Phases, Steps
  <2>3. Held(m)'
    BY <1>m DEF Latched, Held
  <2>4. skipped' => m'.stopped
    BY <1>m DEF MachineInv, Latched
  <2>5. capSpent' => pc' \in (Steps \ {"close_ingress"}) \union {"Cleanup", "Done"}
    BY <1>a, Order DEF MachineInv, Steps, Phases, Roles
  <2>6. ~m'.stopped => m'.state \in Course(pc', inside')
    BY <1>m, <2>1 DEF MachineInv, Latched
  <2> QED
    BY <2>2, <2>3, <2>4, <2>5, <2>6 DEF MachineInv
<1>3. PhaseInv'
  BY <1>a, Order DEF PhaseInv, None, WithControl, FieldTypes, Phases, Steps, Roles
<1>4. OutcomeInv'
  BY <1>m, <1>a, Order, PastStopping DEF OutcomeInv, PhaseInv, FieldTypes, Latched, Roles, Phases, Steps
<1>5. TopologyInv'
  BY <1>a, Order DEF TopologyInv, OutcomeInv, FieldTypes, Roles, Phases, Steps
<1> QED
  BY <1>1, <1>2, <1>3, <1>4, <1>5

LEMMA EndQuietStep ==
  ASSUME FieldInv, EndQuiet
  PROVE  FieldInv'
<1> USE DEF FieldInv, machineVars, childVars, canaryVars, levelVars, trafficVars, closingVars, endVars, EndQuiet, Goto
<1>a. pc \in Entries \ {"Preflight", "Done"} /\ pc' = After(pc) /\ inside' = FALSE
  BY DEF FieldTypes, Entries, Roles, Phases, Steps
<1>b. inside \/ pc \notin Phases \union {"close_ingress"}
  BY DEF Phases, Steps, Roles, FieldTypes, PhaseInv, MachineInv
<1>m. Latched
  BY LatchLatches, NothingLatches, TickLatches DEF Classes, LatchIfAny
<1>1. FieldTypes'
  <2>1. pc' \in Entries /\ inside' \in BOOLEAN
    BY <1>a, Followers
  <2>2. m' \in Machines
    BY <1>m DEF Latched
  <2> QED
    BY <2>1, <2>2 DEF FieldTypes
<1>2. MachineInv'
  <2>1. Course(pc, inside) = Course(pc', inside')
    BY <1>a, <1>b, MovesOn DEF FieldTypes
  <2>2. pc' # "Preflight"
    BY <1>a, Order DEF Entries, Roles, Phases, Steps
  <2>3. Held(m)'
    BY <1>m DEF Latched, Held
  <2>4. skipped' => m'.stopped
    BY <1>m DEF MachineInv, Latched
  <2>5. capSpent' => pc' \in (Steps \ {"close_ingress"}) \union {"Cleanup", "Done"}
    BY <1>a, Order DEF MachineInv, Steps, Phases, Roles
  <2>6. ~m'.stopped => m'.state \in Course(pc', inside')
    BY <1>m, <2>1 DEF MachineInv, Latched
  <2> QED
    BY <2>2, <2>3, <2>4, <2>5, <2>6 DEF MachineInv
<1>3. PhaseInv'
  BY <1>a, Order DEF PhaseInv, None, WithControl, FieldTypes, Phases, Steps, Roles
<1>4. OutcomeInv'
  BY <1>m, <1>a, Order, PastStopping DEF OutcomeInv, PhaseInv, FieldTypes, Latched, Roles, Phases, Steps
<1>5. TopologyInv'
  BY <1>a, Order DEF TopologyInv, OutcomeInv, FieldTypes, Roles, Phases, Steps
<1> QED
  BY <1>1, <1>2, <1>3, <1>4, <1>5

LEMMA EndRecoveryStep ==
  ASSUME FieldInv, EndRecovery
  PROVE  FieldInv'
<1> USE DEF FieldInv, machineVars, childVars, canaryVars, levelVars, trafficVars, closingVars, endVars, EndRecovery, Goto
<1>a. pc \in Entries \ {"Preflight", "Done"} /\ pc' = After(pc) /\ inside' = FALSE
  BY DEF FieldTypes, Entries, Roles, Phases, Steps
<1>b. inside \/ pc \notin Phases \union {"close_ingress"}
  BY DEF Phases, Steps, Roles, FieldTypes, PhaseInv, MachineInv
<1>m. Latched
  BY LatchLatches, NothingLatches, TickLatches DEF Classes, LatchIfAny
<1>1. FieldTypes'
  <2>1. pc' \in Entries /\ inside' \in BOOLEAN
    BY <1>a, Followers
  <2>2. m' \in Machines
    BY <1>m DEF Latched
  <2> QED
    BY <2>1, <2>2 DEF FieldTypes
<1>2. MachineInv'
  <2>1. Course(pc, inside) = Course(pc', inside')
    BY <1>a, <1>b, MovesOn DEF FieldTypes
  <2>2. pc' # "Preflight"
    BY <1>a, Order DEF Entries, Roles, Phases, Steps
  <2>3. Held(m)'
    BY <1>m DEF Latched, Held
  <2>4. skipped' => m'.stopped
    BY <1>m DEF MachineInv, Latched
  <2>5. capSpent' => pc' \in (Steps \ {"close_ingress"}) \union {"Cleanup", "Done"}
    BY <1>a, Order DEF MachineInv, Steps, Phases, Roles
  <2>6. ~m'.stopped => m'.state \in Course(pc', inside')
    BY <1>m, <2>1 DEF MachineInv, Latched
  <2> QED
    BY <2>2, <2>3, <2>4, <2>5, <2>6 DEF MachineInv
<1>3. PhaseInv'
  BY <1>a, Order DEF PhaseInv, None, WithControl, FieldTypes, Phases, Steps, Roles
<1>4. OutcomeInv'
  BY <1>m, <1>a, Order, PastStopping DEF OutcomeInv, PhaseInv, FieldTypes, Latched, Roles, Phases, Steps
<1>5. TopologyInv'
  BY <1>a, Order DEF TopologyInv, OutcomeInv, FieldTypes, Roles, Phases, Steps
<1> QED
  BY <1>1, <1>2, <1>3, <1>4, <1>5

LEMMA SkipStepStep ==
  ASSUME FieldInv, SkipStep
  PROVE  FieldInv'
<1> USE DEF FieldInv, machineVars, childVars, canaryVars, levelVars, trafficVars, closingVars, endVars, SkipStep, Essential, Goto
<1>a. pc \in Entries \ {"Preflight", "Done"} /\ pc' = After(pc) /\ inside' = FALSE
  BY DEF FieldTypes, Entries, Roles, Phases, Steps
<1>b. inside \/ pc \notin Phases \union {"close_ingress"}
  BY DEF Phases, Steps, Roles, FieldTypes, PhaseInv, MachineInv
<1>m. Latched
  BY LatchLatches, NothingLatches, TickLatches DEF Classes, LatchIfAny
<1>1. FieldTypes'
  <2>1. pc' \in Entries /\ inside' \in BOOLEAN
    BY <1>a, Followers
  <2>2. m' \in Machines
    BY <1>m DEF Latched
  <2> QED
    BY <2>1, <2>2 DEF FieldTypes
<1>2. MachineInv'
  <2>1. Course(pc, inside) = Course(pc', inside')
    BY <1>a, <1>b, MovesOn DEF FieldTypes
  <2>2. pc' # "Preflight"
    BY <1>a, Order DEF Entries, Roles, Phases, Steps
  <2>3. Held(m)'
    BY <1>m DEF Latched, Held
  <2>4. skipped' => m'.stopped
    BY <1>m DEF MachineInv, Latched
  <2>5. capSpent' => pc' \in (Steps \ {"close_ingress"}) \union {"Cleanup", "Done"}
    BY <1>a, Order DEF MachineInv, Steps, Phases, Roles
  <2>6. ~m'.stopped => m'.state \in Course(pc', inside')
    BY <1>m, <2>1 DEF MachineInv, Latched
  <2> QED
    BY <2>2, <2>3, <2>4, <2>5, <2>6 DEF MachineInv
<1>3. PhaseInv'
  BY <1>a, Order DEF PhaseInv, None, WithControl, FieldTypes, Phases, Steps, Roles
<1>4. OutcomeInv'
  BY <1>m, <1>a, Order, PastStopping DEF OutcomeInv, PhaseInv, FieldTypes, Latched, Roles, Phases, Steps
<1>5. TopologyInv'
  BY <1>a, Order DEF TopologyInv, OutcomeInv, FieldTypes, Roles, Phases, Steps
<1> QED
  BY <1>1, <1>2, <1>3, <1>4, <1>5

LEMMA EndStepStep ==
  ASSUME FieldInv, EndStep
  PROVE  FieldInv'
<1> USE DEF FieldInv, machineVars, childVars, canaryVars, levelVars, trafficVars, closingVars, endVars, EndStep, StepIsDone, CapAfter, Goto
<1>a. pc \in Entries \ {"Preflight", "Done"} /\ pc' = After(pc) /\ inside' = FALSE
  BY DEF FieldTypes, Entries, Roles, Phases, Steps
<1>b. inside \/ pc \notin Phases \union {"close_ingress"}
  BY DEF Phases, Steps, Roles, FieldTypes, PhaseInv, MachineInv
<1>m. Latched
  BY LatchLatches, NothingLatches, TickLatches DEF Classes, LatchIfAny
<1>1. FieldTypes'
  <2>1. pc' \in Entries /\ inside' \in BOOLEAN
    BY <1>a, Followers
  <2>2. m' \in Machines
    BY <1>m DEF Latched
  <2> QED
    BY <2>1, <2>2 DEF FieldTypes
<1>2. MachineInv'
  <2>1. Course(pc, inside) = Course(pc', inside')
    BY <1>a, <1>b, MovesOn DEF FieldTypes
  <2>2. pc' # "Preflight"
    BY <1>a, Order DEF Entries, Roles, Phases, Steps
  <2>3. Held(m)'
    BY <1>m DEF Latched, Held
  <2>4. skipped' => m'.stopped
    BY <1>m DEF MachineInv, Latched
  <2>5. capSpent' => pc' \in (Steps \ {"close_ingress"}) \union {"Cleanup", "Done"}
    BY <1>a, Order DEF MachineInv, Steps, Phases, Roles
  <2>6. ~m'.stopped => m'.state \in Course(pc', inside')
    BY <1>m, <2>1 DEF MachineInv, Latched
  <2> QED
    BY <2>2, <2>3, <2>4, <2>5, <2>6 DEF MachineInv
<1>3. PhaseInv'
  BY <1>a, Order DEF PhaseInv, None, WithControl, FieldTypes, Phases, Steps, Roles
<1>4. OutcomeInv'
  BY <1>m, <1>a, Order, PastStopping DEF OutcomeInv, PhaseInv, FieldTypes, Latched, Roles, Phases, Steps
<1>5. TopologyInv'
  BY <1>a, Order DEF TopologyInv, OutcomeInv, FieldTypes, Roles, Phases, Steps
<1> QED
  BY <1>1, <1>2, <1>3, <1>4, <1>5

LEMMA StepTimesOutStep ==
  ASSUME FieldInv, StepTimesOut
  PROVE  FieldInv'
<1> USE DEF FieldInv, machineVars, childVars, canaryVars, levelVars, trafficVars, closingVars, endVars, StepTimesOut, StepIsDone, CapAfter, Goto
<1>a. pc \in Entries \ {"Preflight", "Done"} /\ pc' = After(pc) /\ inside' = FALSE
  BY DEF FieldTypes, Entries, Roles, Phases, Steps
<1>b. inside \/ pc \notin Phases \union {"close_ingress"}
  BY DEF Phases, Steps, Roles, FieldTypes, PhaseInv, MachineInv
<1>m. Latched
  BY LatchLatches, NothingLatches, TickLatches DEF Classes, LatchIfAny
<1>1. FieldTypes'
  <2>1. pc' \in Entries /\ inside' \in BOOLEAN
    BY <1>a, Followers
  <2>2. m' \in Machines
    BY <1>m DEF Latched
  <2> QED
    BY <2>1, <2>2 DEF FieldTypes
<1>2. MachineInv'
  <2>1. Course(pc, inside) = Course(pc', inside')
    BY <1>a, <1>b, MovesOn DEF FieldTypes
  <2>2. pc' # "Preflight"
    BY <1>a, Order DEF Entries, Roles, Phases, Steps
  <2>3. Held(m)'
    BY <1>m DEF Latched, Held
  <2>4. skipped' => m'.stopped
    BY <1>m DEF MachineInv, Latched
  <2>5. capSpent' => pc' \in (Steps \ {"close_ingress"}) \union {"Cleanup", "Done"}
    BY <1>a, Order DEF MachineInv, Steps, Phases, Roles
  <2>6. ~m'.stopped => m'.state \in Course(pc', inside')
    BY <1>m, <2>1 DEF MachineInv, Latched
  <2> QED
    BY <2>2, <2>3, <2>4, <2>5, <2>6 DEF MachineInv
<1>3. PhaseInv'
  BY <1>a, Order DEF PhaseInv, None, WithControl, FieldTypes, Phases, Steps, Roles
<1>4. OutcomeInv'
  BY <1>m, <1>a, Order, PastStopping DEF OutcomeInv, PhaseInv, FieldTypes, Latched, Roles, Phases, Steps
<1>5. TopologyInv'
  BY <1>a, Order DEF TopologyInv, OutcomeInv, FieldTypes, Roles, Phases, Steps
<1> QED
  BY <1>1, <1>2, <1>3, <1>4, <1>5

\* An outcome is complete only for a level that completed and has no reason against it.
LEMMA CompleteOutcome ==
  ASSUME NEW C \in SUBSET Classes, NEW completed \in BOOLEAN
  PROVE  /\ decideServerSide(C, completed) \in {"invalid", "aborted", "complete"}
         /\ decideServerSide(C, completed) = "complete" => C = {} /\ completed
<1>1. CASE completed
  BY <1>1 DEF decideServerSide, dominantClass, Classes, None
<1>2. CASE ~completed
  BY <1>2 DEF decideServerSide, dominantClass, Classes, None
<1> QED
  BY <1>1, <1>2

\* What the assessment of a level without reasons says about it.
LEMMA CleanAssessment ==
  ASSUME FieldInv, NEW C \in Assessments
  PROVE  /\ C \in SUBSET Classes
         /\ C = {} => m.reasons = {} /\ ~failed /\ recovery # "failed" /\ finalTicks /\ fin = "drained"
<1> USE DEF FieldInv
<1>1. PICK c \in canaryReasons, a \in accountingReasons, f \in anomalyReasons :
        C = m.reasons \union c \union a \union f \union finalReasons
              \union (IF finalExposure = "violated" \/ recovery = "failed" THEN {"failing"} ELSE {})
  BY DEF Assessments
<1>2. /\ c \in SUBSET Classes /\ (failed => c = {"failing"})
      /\ a \in SUBSET Classes /\ (fin # "drained" => a = {"failing"}) /\ f \in SUBSET Classes
  BY DEF canaryReasons, accountingReasons, anomalyReasons, ReasonIf, Classes
<1>3. finalReasons \in SUBSET Classes /\ (~finalTicks => finalReasons = {"failing"})
  BY DEF finalReasons, Classes
<1>4. m.reasons \in SUBSET Classes
  BY DEF FieldTypes, Machines
<1>5. C \in SUBSET Classes
  BY <1>1, <1>2, <1>3, <1>4 DEF Classes
<1>6. C = {} => m.reasons = {} /\ c = {} /\ a = {} /\ finalReasons = {} /\ recovery # "failed"
  BY <1>1
<1> QED
  BY <1>2, <1>3, <1>5, <1>6 DEF FieldTypes

\* A VALID verdict needs a complete outcome and no reason to call it invalid ...
LEMMA ValidVerdict ==
  ASSUME NEW R \in SUBSET Classes, NEW status
  PROVE  /\ decideFinal(status, R) \in {"INVALID", "ABORTED", "VALID"}
         /\ decideFinal(status, R) = "VALID" => status = "complete" /\ "failing" \notin R
BY DEF decideFinal, dominantClass, Classes, None

\* ... and there is one unless the counts agree: nothing is ambiguous or somebody else's.
LEMMA AgreeingCounts ==
  ASSUME FieldInv, NEW reported, NEW extra \in SUBSET Classes
  PROVE  /\ reconcile(reported, extra) \in SUBSET Classes
         /\ "failing" \notin reconcile(reported, extra) => stray = 0 /\ ambiguous = 0
<1>1. reconcile(reported, extra) \in SUBSET Classes
  BY DEF reconcile, Classes
<1>2. "failing" \notin reconcile(reported, extra) => ~(ambiguous > 0 \/ attempted - accepted \notin 0 .. ambiguous)
  BY DEF reconcile
<1>3. ~(ambiguous > 0 \/ attempted - accepted \notin 0 .. ambiguous) => stray = 0 /\ ambiguous = 0
  BY DEF FieldInv, FieldTypes, accepted
<1> QED
  BY <1>1, <1>2, <1>3

LEMMA PlaneClosesIngressStep ==
  ASSUME FieldInv, PlaneClosesIngress
  PROVE  FieldInv'
<1> USE DEF FieldInv, machineVars, childVars, canaryVars, levelVars, trafficVars, closingVars, endVars, PlaneClosesIngress
<1>m. Latched /\ pc' = pc /\ inside' = inside
  BY LatchLatches, NothingLatches DEF Classes
<1>1. FieldTypes'
  <2>1. m' \in Machines
    BY <1>m DEF Latched
  <2> QED
    BY <1>m, <2>1 DEF FieldTypes
<1>2. MachineInv'
  BY <1>m, ReasonsKeepCourse
<1>3. PhaseInv'
  BY <1>m DEF PhaseInv, None, WithControl, FieldTypes, Phases, Steps
<1>4. OutcomeInv'
  BY <1>m, Order, PastStopping DEF OutcomeInv, PhaseInv, FieldTypes, Latched, Phases, None
<1>5. TopologyInv'
  BY <1>m DEF TopologyInv, OutcomeInv, FieldTypes, None
<1> QED
  BY <1>1, <1>2, <1>3, <1>4, <1>5

LEMMA IngressClosedArrivesStep ==
  ASSUME FieldInv, IngressClosedArrives
  PROVE  FieldInv'
<1> USE DEF FieldInv, machineVars, childVars, canaryVars, levelVars, trafficVars, closingVars, endVars, IngressClosedArrives
<1>m. Latched /\ pc' = pc /\ inside' = inside
  BY LatchLatches, NothingLatches DEF Classes
<1>1. FieldTypes'
  <2>1. m' \in Machines
    BY <1>m DEF Latched
  <2> QED
    BY <1>m, <2>1 DEF FieldTypes
<1>2. MachineInv'
  BY <1>m, ReasonsKeepCourse
<1>3. PhaseInv'
  BY <1>m DEF PhaseInv, None, WithControl, FieldTypes, Phases, Steps
<1>4. OutcomeInv'
  BY <1>m, Order, PastStopping DEF OutcomeInv, PhaseInv, FieldTypes, Latched, Phases, None
<1>5. TopologyInv'
  BY <1>m DEF TopologyInv, OutcomeInv, FieldTypes, None
<1> QED
  BY <1>1, <1>2, <1>3, <1>4, <1>5

LEMMA CrashStep ==
  ASSUME FieldInv, NEW r, Crash(r)
  PROVE  FieldInv'
<1> USE DEF FieldInv, machineVars, childVars, canaryVars, levelVars, trafficVars, closingVars, endVars, Crash
<1>m. Latched /\ pc' = pc /\ inside' = inside
  BY LatchLatches, NothingLatches DEF Classes
<1>1. FieldTypes'
  <2>1. m' \in Machines
    BY <1>m DEF Latched
  <2>2. child' \in [Roles -> {"none", "up", "exited", "killed"}]
    BY DEF FieldTypes
  <2> QED
    BY <1>m, <2>1, <2>2 DEF FieldTypes
<1>2. MachineInv'
  BY <1>m, ReasonsKeepCourse
<1>3. PhaseInv'
  BY <1>m DEF PhaseInv, None, WithControl, FieldTypes, Phases, Steps
<1>4. OutcomeInv'
  BY <1>m, Order, PastStopping DEF OutcomeInv, PhaseInv, FieldTypes, Latched, Phases, None
<1>5. TopologyInv'
  BY <1>m DEF TopologyInv, OutcomeInv, FieldTypes, None
<1> QED
  BY <1>1, <1>2, <1>3, <1>4, <1>5

LEMMA AttemptStep ==
  ASSUME FieldInv, Attempt
  PROVE  FieldInv'
<1> USE DEF FieldInv, machineVars, childVars, canaryVars, levelVars, trafficVars, closingVars, endVars, Attempt
<1>m. Latched /\ pc' = pc /\ inside' = inside
  BY LatchLatches, NothingLatches DEF Classes
<1>1. FieldTypes'
  <2>1. m' \in Machines
    BY <1>m DEF Latched
  <2> QED
    BY <1>m, <2>1 DEF FieldTypes
<1>2. MachineInv'
  BY <1>m, ReasonsKeepCourse
<1>3. PhaseInv'
  BY <1>m DEF PhaseInv, None, WithControl, FieldTypes, Phases, Steps
<1>4. OutcomeInv'
  BY <1>m, Order, PastStopping DEF OutcomeInv, PhaseInv, FieldTypes, Latched, Phases, None
<1>5. TopologyInv'
  BY <1>m DEF TopologyInv, OutcomeInv, FieldTypes, None
<1> QED
  BY <1>1, <1>2, <1>3, <1>4, <1>5

LEMMA StrayStep ==
  ASSUME FieldInv, Stray
  PROVE  FieldInv'
<1> USE DEF FieldInv, machineVars, childVars, canaryVars, levelVars, trafficVars, closingVars, endVars, Stray
<1>m. Latched /\ pc' = pc /\ inside' = inside
  BY LatchLatches, NothingLatches DEF Classes
<1>1. FieldTypes'
  <2>1. m' \in Machines
    BY <1>m DEF Latched
  <2> QED
    BY <1>m, <2>1 DEF FieldTypes
<1>2. MachineInv'
  BY <1>m, ReasonsKeepCourse
<1>3. PhaseInv'
  BY <1>m DEF PhaseInv, None, WithControl, FieldTypes, Phases, Steps
<1>4. OutcomeInv'
  BY <1>m, Order, PastStopping DEF OutcomeInv, PhaseInv, FieldTypes, Latched, Phases, None
<1>5. TopologyInv'
  BY <1>m DEF TopologyInv, OutcomeInv, FieldTypes, None
<1> QED
  BY <1>1, <1>2, <1>3, <1>4, <1>5

LEMMA ReduceStep ==
  ASSUME FieldInv, Reduce
  PROVE  FieldInv'
<1> USE DEF FieldInv, machineVars, childVars, canaryVars, levelVars, trafficVars, closingVars, endVars, Reduce
<1>m. Latched /\ pc' = pc /\ inside' = inside
  BY LatchLatches, NothingLatches DEF Classes
<1>1. FieldTypes'
  <2>1. m' \in Machines
    BY <1>m DEF Latched
  <2> QED
    BY <1>m, <2>1 DEF FieldTypes
<1>2. MachineInv'
  BY <1>m, ReasonsKeepCourse
<1>3. PhaseInv'
  BY <1>m DEF PhaseInv, None, WithControl, FieldTypes, Phases, Steps
<1>4. OutcomeInv'
  BY <1>m, Order, PastStopping DEF OutcomeInv, PhaseInv, FieldTypes, Latched, Phases, None
<1>5. TopologyInv'
  BY <1>m DEF TopologyInv, OutcomeInv, FieldTypes, None
<1> QED
  BY <1>1, <1>2, <1>3, <1>4, <1>5

LEMMA StartJourneyStep ==
  ASSUME FieldInv, StartJourney
  PROVE  FieldInv'
<1> USE DEF FieldInv, machineVars, childVars, canaryVars, levelVars, trafficVars, closingVars, endVars, StartJourney, WantsJourney
<1>m. Latched /\ pc' = pc /\ inside' = inside
  BY LatchLatches, NothingLatches DEF Classes
<1>1. FieldTypes'
  <2>1. m' \in Machines
    BY <1>m DEF Latched
  <2> QED
    BY <1>m, <2>1 DEF FieldTypes
<1>2. MachineInv'
  BY <1>m, ReasonsKeepCourse
<1>3. PhaseInv'
  BY <1>m DEF PhaseInv, None, WithControl, FieldTypes, Phases, Steps
<1>4. OutcomeInv'
  BY <1>m, Order, PastStopping DEF OutcomeInv, PhaseInv, FieldTypes, Latched, Phases, None
<1>5. TopologyInv'
  BY <1>m DEF TopologyInv, OutcomeInv, FieldTypes, None
<1> QED
  BY <1>1, <1>2, <1>3, <1>4, <1>5

LEMMA EndControlStep ==
  ASSUME FieldInv, EndControl
  PROVE  FieldInv'
<1> USE DEF FieldInv, machineVars, childVars, canaryVars, levelVars, trafficVars, closingVars, endVars, EndControl
<1>m. Latched /\ pc' = pc /\ inside' = inside
  BY LatchLatches, NothingLatches DEF Classes
<1>1. FieldTypes'
  <2>1. m' \in Machines
    BY <1>m DEF Latched
  <2>2. failed' \in BOOLEAN /\ journey' \in {None, "control", "protected"}
    BY DEF FieldTypes
  <2>3. UNCHANGED <<childVars, levelVars, trafficVars, closingVars, endVars>>
    BY DEF EndControl
  <2> QED
    BY ONLY FieldTypes, <1>m, <2>1, <2>2, <2>3 DEF FieldTypes, childVars, levelVars, trafficVars, closingVars, endVars
<1>2. MachineInv'
  BY <1>m, ReasonsKeepCourse
<1>3. PhaseInv'
  BY <1>m DEF PhaseInv, None, WithControl, FieldTypes, Phases, Steps
<1>4. OutcomeInv'
  BY <1>m, Order, PastStopping DEF OutcomeInv, PhaseInv, FieldTypes, Latched, Phases, None
<1>5. TopologyInv'
  BY <1>m DEF TopologyInv, OutcomeInv, FieldTypes, None
<1> QED
  BY <1>1, <1>2, <1>3, <1>4, <1>5

LEMMA EndJourneyStep ==
  ASSUME FieldInv, EndJourney
  PROVE  FieldInv'
<1> USE DEF FieldInv, machineVars, childVars, canaryVars, levelVars, trafficVars, closingVars, endVars, EndJourney
<1>m. Latched /\ pc' = pc /\ inside' = inside
  BY LatchLatches, NothingLatches DEF Classes
<1>1. FieldTypes'
  <2>1. m' \in Machines
    BY <1>m DEF Latched
  <2>2. failed' \in BOOLEAN /\ journey' \in {None, "control", "protected"}
    BY DEF FieldTypes
  <2>3. UNCHANGED <<childVars, levelVars, trafficVars, closingVars, endVars>>
    BY DEF EndJourney
  <2> QED
    BY ONLY FieldTypes, <1>m, <2>1, <2>2, <2>3 DEF FieldTypes, childVars, levelVars, trafficVars, closingVars, endVars
<1>2. MachineInv'
  BY <1>m, ReasonsKeepCourse
<1>3. PhaseInv'
  BY <1>m DEF PhaseInv, None, WithControl, FieldTypes, Phases, Steps
<1>4. OutcomeInv'
  BY <1>m, Order, PastStopping DEF OutcomeInv, PhaseInv, FieldTypes, Latched, Phases, None
<1>5. TopologyInv'
  BY <1>m DEF TopologyInv, OutcomeInv, FieldTypes, None
<1> QED
  BY <1>1, <1>2, <1>3, <1>4, <1>5

LEMMA CloseWindowStep ==
  ASSUME FieldInv, CloseWindow
  PROVE  FieldInv'
<1> USE DEF FieldInv, machineVars, childVars, canaryVars, levelVars, trafficVars, closingVars, endVars, CloseWindow
<1>m. Latched /\ pc' = pc /\ inside' = inside
  BY LatchLatches, NothingLatches DEF Classes
<1>1. FieldTypes'
  <2>1. m' \in Machines
    BY <1>m DEF Latched
  <2> QED
    BY <1>m, <2>1 DEF FieldTypes
<1>2. MachineInv'
  BY <1>m, ReasonsKeepCourse
<1>3. PhaseInv'
  BY <1>m DEF PhaseInv, None, WithControl, FieldTypes, Phases, Steps
<1>4. OutcomeInv'
  BY <1>m, Order, PastStopping DEF OutcomeInv, PhaseInv, FieldTypes, Latched, Phases, None
<1>5. TopologyInv'
  BY <1>m DEF TopologyInv, OutcomeInv, FieldTypes, None
<1> QED
  BY <1>1, <1>2, <1>3, <1>4, <1>5

LEMMA CheckRecoveryStep ==
  ASSUME FieldInv, CheckRecovery
  PROVE  FieldInv'
<1> USE DEF FieldInv, machineVars, childVars, canaryVars, levelVars, trafficVars, closingVars, endVars, CheckRecovery
<1>m. Latched /\ pc' = pc /\ inside' = inside
  BY LatchLatches, NothingLatches DEF Classes
<1>1. FieldTypes'
  <2>1. m' \in Machines
    BY <1>m DEF Latched
  <2> QED
    BY <1>m, <2>1 DEF FieldTypes
<1>2. MachineInv'
  BY <1>m, ReasonsKeepCourse
<1>3. PhaseInv'
  BY <1>m DEF PhaseInv, None, WithControl, FieldTypes, Phases, Steps
<1>4. OutcomeInv'
  BY <1>m, Order, PastStopping DEF OutcomeInv, PhaseInv, FieldTypes, Latched, Phases, None
<1>5. TopologyInv'
  BY <1>m DEF TopologyInv, OutcomeInv, FieldTypes, None
<1> QED
  BY <1>1, <1>2, <1>3, <1>4, <1>5

LEMMA DrainAsksStep ==
  ASSUME FieldInv, DrainAsks
  PROVE  FieldInv'
<1> USE DEF FieldInv, machineVars, childVars, canaryVars, levelVars, trafficVars, closingVars, endVars, DrainAsks
<1>m. Latched /\ pc' = pc /\ inside' = inside
  BY LatchLatches, NothingLatches DEF Classes
<1>1. FieldTypes'
  <2>1. m' \in Machines
    BY <1>m DEF Latched
  <2> QED
    BY <1>m, <2>1 DEF FieldTypes
<1>2. MachineInv'
  BY <1>m, ReasonsKeepCourse
<1>3. PhaseInv'
  BY <1>m DEF PhaseInv, None, WithControl, FieldTypes, Phases, Steps
<1>4. OutcomeInv'
  BY <1>m, Order, PastStopping DEF OutcomeInv, PhaseInv, FieldTypes, Latched, Phases, None
<1>5. TopologyInv'
  BY <1>m DEF TopologyInv, OutcomeInv, FieldTypes, None
<1> QED
  BY <1>1, <1>2, <1>3, <1>4, <1>5

LEMMA finishStep ==
  ASSUME FieldInv, finish
  PROVE  FieldInv'
<1> USE DEF FieldInv, machineVars, childVars, canaryVars, levelVars, trafficVars, closingVars, endVars, finish
<1>m. Latched /\ pc' = pc /\ inside' = inside
  BY LatchLatches, NothingLatches DEF Classes
<1>1. FieldTypes'
  <2>1. m' \in Machines
    BY <1>m DEF Latched
  <2>2. fin' \in {"drained", "short"} /\ finalTicks' \in BOOLEAN
    OBVIOUS
  <2> QED
    BY <1>m, <2>1, <2>2 DEF FieldTypes
<1>2. MachineInv'
  BY <1>m, ReasonsKeepCourse
<1>3. PhaseInv'
  BY <1>m DEF PhaseInv, None, WithControl, FieldTypes, Phases, Steps
<1>4. OutcomeInv'
  BY <1>m, Order, PastStopping DEF OutcomeInv, PhaseInv, FieldTypes, Latched, Phases, None
<1>5. TopologyInv'
  BY <1>m DEF TopologyInv, OutcomeInv, FieldTypes, None
<1> QED
  BY <1>1, <1>2, <1>3, <1>4, <1>5

LEMMA writeEvidenceStep ==
  ASSUME FieldInv, writeEvidence
  PROVE  FieldInv'
<1> USE DEF FieldInv, machineVars, childVars, canaryVars, levelVars, trafficVars, closingVars, endVars, writeEvidence
<1>m. Latched /\ pc' = pc /\ inside' = inside
  BY LatchLatches, NothingLatches DEF Classes
<1>w. PICK C \in Assessments : outcome' = [status |-> decideServerSide(C, phasesCompleted), reasons |-> C]
  OBVIOUS
<1>s. /\ outcome' \in [status : {None, "invalid", "aborted", "complete"}, reasons : SUBSET Classes]
      /\ outcome'.status = decideServerSide(C, phasesCompleted)
  BY <1>w, CleanAssessment, CompleteOutcome DEF FieldTypes
<1>o. outcome'.status = "complete" =>
        /\ phasesCompleted /\ m.reasons = {} /\ ~m.stopped /\ ~failed /\ recovery = "ok"
        /\ finalTicks /\ fin = "drained"
  BY <1>s, CleanAssessment, CompleteOutcome DEF FieldTypes, MachineInv, Held, PhaseInv
<1>1. FieldTypes'
  <2>1. m' \in Machines
    BY <1>m DEF Latched
  <2> QED
    BY <1>m, <1>s, <2>1 DEF FieldTypes
<1>2. MachineInv'
  BY <1>m, ReasonsKeepCourse
<1>3. PhaseInv'
  BY <1>m DEF PhaseInv, None, WithControl, FieldTypes, Phases, Steps
<1>4. OutcomeInv'
  <2>1. verdict' = verdict /\ verdict = None
    BY DEF OutcomeInv
  <2>2. m' = m /\ failed' = failed /\ recovery' = recovery /\ finalTicks' = finalTicks /\ fin' = fin
        /\ phasesCompleted' = phasesCompleted /\ evidence = "writing" /\ evidence' = "written"
    OBVIOUS
  <2>3. outcome'.status # None
    BY <1>s, CleanAssessment, CompleteOutcome DEF FieldTypes, None
  <2> QED
    BY <1>m, <1>o, <2>1, <2>2, <2>3 DEF OutcomeInv, None
<1>5. TopologyInv'
  BY <1>m DEF TopologyInv, OutcomeInv, FieldTypes, None
<1> QED
  BY <1>1, <1>2, <1>3, <1>4, <1>5

LEMMA ChildrenStopStep ==
  ASSUME FieldInv, ChildrenStop
  PROVE  FieldInv'
<1> USE DEF FieldInv, machineVars, childVars, canaryVars, levelVars, trafficVars, closingVars, endVars, ChildrenStop
<1>m. Latched /\ pc' = pc /\ inside' = inside
  BY LatchLatches, NothingLatches DEF Classes
<1>1. FieldTypes'
  <2>1. m' \in Machines
    BY <1>m DEF Latched
  <2> QED
    BY <1>m, <2>1 DEF FieldTypes
<1>2. MachineInv'
  BY <1>m, ReasonsKeepCourse
<1>3. PhaseInv'
  BY <1>m DEF PhaseInv, None, WithControl, FieldTypes, Phases, Steps
<1>4. OutcomeInv'
  BY <1>m, Order, PastStopping DEF OutcomeInv, PhaseInv, FieldTypes, Latched, Phases, None
<1>5. TopologyInv'
  BY <1>m DEF TopologyInv, OutcomeInv, FieldTypes, None
<1> QED
  BY <1>1, <1>2, <1>3, <1>4, <1>5

LEMMA ReconcileStep ==
  ASSUME FieldInv, Reconcile
  PROVE  FieldInv'
<1> USE DEF FieldInv, machineVars, childVars, canaryVars, levelVars, trafficVars, closingVars, endVars, Reconcile
<1>m. Latched /\ pc' = pc /\ inside' = inside
  BY LatchLatches, NothingLatches DEF Classes
<1>v. PICK reported \in BOOLEAN, extra \in {{}, {"failing"}} :
        verdict' = decideFinal(outcome.status, outcome.reasons \union reconcile(reported, extra))
  OBVIOUS
<1>w. /\ verdict' \in {"INVALID", "ABORTED", "VALID"}
      /\ verdict' = "VALID" => outcome.status = "complete" /\ stray = 0 /\ ambiguous = 0
  <2>1. outcome.reasons \in SUBSET Classes /\ extra \in SUBSET Classes
    BY DEF FieldTypes, Classes
  <2>2. PICK c : c = reconcile(reported, extra)
    OBVIOUS
  <2>3. c \in SUBSET Classes /\ ("failing" \notin c => stray = 0 /\ ambiguous = 0)
    BY <2>1, <2>2, AgreeingCounts
  <2>4. PICK R : R = outcome.reasons \union c
    OBVIOUS
  <2>5. R \in SUBSET Classes
    BY <2>1, <2>3, <2>4
  <2>6. /\ verdict' \in {"INVALID", "ABORTED", "VALID"}
        /\ verdict' = "VALID" => outcome.status = "complete" /\ "failing" \notin R
    BY <1>v, <2>2, <2>4, <2>5, ValidVerdict
  <2> QED
    BY <2>3, <2>4, <2>6
<1>1. FieldTypes'
  <2>1. m' \in Machines
    BY <1>m DEF Latched
  <2> QED
    BY <1>m, <1>w, <2>1 DEF FieldTypes
<1>2. MachineInv'
  BY <1>m, ReasonsKeepCourse
<1>3. PhaseInv'
  BY <1>m DEF PhaseInv, None, WithControl, FieldTypes, Phases, Steps
<1>4. OutcomeInv'
  BY <1>m, <1>w DEF OutcomeInv
<1>5. TopologyInv'
  BY <1>m DEF TopologyInv, OutcomeInv, FieldTypes, None
<1> QED
  BY <1>1, <1>2, <1>3, <1>4, <1>5

\* Each phase is the next state of the path, and the ends of the script.
LEMMA Stations ==
  /\ \A e \in Phases : Course(e, TRUE) = {e} /\ \A s \in Course(e, FALSE) : IsNext(NORMAL, s, e)
  /\ Course("Done", FALSE) = {"FINALIZING", "DONE"} /\ Course("Listen", FALSE) = {"TOPOLOGY_UP"}
  /\ Course("close_ingress", TRUE) = {"FINALIZING", "DONE"} /\ Course("Preflight", FALSE) = {"PREFLIGHT"}
BY NormalPath DEF Course, Phases, Roles

LEMMA PreflightRefusesStep ==
  ASSUME FieldInv, PreflightRefuses
  PROVE  FieldInv'
<1> USE DEF FieldInv, machineVars, childVars, canaryVars, levelVars, trafficVars, closingVars, endVars, PreflightRefuses, Goto
<1>m. m' \in Machines /\ ~m'.stopped /\ m'.state = "DONE"
  <2>1. PICK a : a = refuse(m)
    OBVIOUS
  <2>2. m' = a /\ a \in Machines /\ a.stopped = m.stopped /\ a.state = "DONE" /\ ~m.stopped
    BY <2>1 DEF FieldTypes, MachineInv, Machines, refuse, States, Classes
  <2> QED
    BY <2>2
<1>1. FieldTypes'
  <2>1. pc' \in Entries /\ inside' \in BOOLEAN /\ result' = "refused"
    BY DEF Entries
  <2> QED
    BY <1>m, <2>1 DEF FieldTypes
<1>2. MachineInv'
  <2>1. m'.state \in Course("Done", FALSE)
    BY <1>m, Stations
  <2> QED
    BY <1>m, <2>1 DEF MachineInv, Held, Steps
<1>3. PhaseInv'
  BY DEF PhaseInv, None, WithControl, Steps
<1>4. OutcomeInv'
  BY DEF OutcomeInv, None
<1>5. TopologyInv'
  BY DEF TopologyInv, None
<1> QED
  BY <1>1, <1>2, <1>3, <1>4, <1>5

LEMMA PreflightPassesStep ==
  ASSUME FieldInv, PreflightPasses
  PROVE  FieldInv'
<1> USE DEF FieldInv, machineVars, childVars, canaryVars, levelVars, trafficVars, closingVars, endVars, PreflightPasses, Goto
<1>m. m' \in Machines /\ ~m'.stopped /\ m'.state = "TOPOLOGY_UP"
  <2>1. m \in Machines /\ Held(m) /\ ~m.stopped /\ m.state = "PREFLIGHT"
    BY Courses DEF FieldTypes, MachineInv
  <2> QED
    BY <2>1, Advances, NormalPath DEF States
<1>1. FieldTypes'
  <2>1. pc' \in Entries /\ inside' \in BOOLEAN /\ lock' = "ours"
    BY DEF Entries
  <2> QED
    BY <1>m, <2>1 DEF FieldTypes
<1>2. MachineInv'
  <2>1. m'.state \in Course("Listen", FALSE)
    BY <1>m, Stations
  <2> QED
    BY <1>m, <2>1 DEF MachineInv, Held, Steps
<1>3. PhaseInv'
  BY DEF PhaseInv, None, WithControl, Steps
<1>4. OutcomeInv'
  BY DEF OutcomeInv, None
<1>5. TopologyInv'
  BY DEF TopologyInv, None
<1> QED
  BY <1>1, <1>2, <1>3, <1>4, <1>5

LEMMA StartFailsStep ==
  ASSUME FieldInv, StartFails
  PROVE  FieldInv'
<1> USE DEF FieldInv, machineVars, childVars, canaryVars, levelVars, trafficVars, closingVars, endVars, StartFails, Goto
<1>m. m' \in Machines /\ Held(m') /\ m'.stopped
  <2>1. ~m.stopped => m.state \in STOPPABLE
    BY Courses DEF FieldTypes, MachineInv, STOPPABLE, Roles
  <2>2. {"failing"} \in SUBSET Classes
    BY DEF Classes
  <2> QED
    BY <2>1, <2>2, LatchLatches DEF Latched
<1>1. FieldTypes'
  <2>1. pc' \in Entries /\ inside' \in BOOLEAN /\ skipped' \in BOOLEAN
    BY DEF Entries, Steps
  <2> QED
    BY <1>m, <2>1 DEF FieldTypes
<1>2. MachineInv'
  BY <1>m DEF MachineInv, Held, Steps, Roles
<1>3. PhaseInv'
  BY DEF PhaseInv, None, WithControl, Steps, Roles
<1>4. OutcomeInv'
  <2>1. evidence = "none" /\ verdict = None
    BY DEF OutcomeInv, Roles
  <2> QED
    BY <2>1 DEF OutcomeInv, None
<1>5. TopologyInv'
  BY DEF TopologyInv, None, Roles
<1> QED
  BY <1>1, <1>2, <1>3, <1>4, <1>5

LEMMA EnterPhaseStep ==
  ASSUME FieldInv, EnterPhase
  PROVE  FieldInv'
<1> USE DEF FieldInv, machineVars, childVars, canaryVars, levelVars, trafficVars, closingVars, endVars, EnterPhase, Goto
<1>h. m \in Machines /\ Held(m) /\ pc \in Phases /\ pc \in Entries /\ inside = FALSE /\ pc \in States
  BY DEF FieldTypes, MachineInv, Entries, States
<1>1. CASE canStartWork(m)
  <2>s. ~m.stopped /\ m.state \in Course(pc, FALSE)
    BY <1>1, <1>h DEF canStartWork, MachineInv
  <2>n. IsNext(NORMAL, m.state, pc)
    BY <2>s, <1>h, Stations
  <2>m. m' \in Machines /\ ~m'.stopped /\ m'.state = pc
    BY <1>1, <1>h, <2>s, <2>n, Advances
  <2>c. m'.state \in Course(pc', inside')
    BY <1>1, <1>h, <2>m, Stations
  <2>1. FieldTypes'
    BY <1>1, <1>h, <2>m DEF FieldTypes
  <2>2. MachineInv'
    BY <1>1, <1>h, <2>s, <2>m, <2>c DEF MachineInv, Held, Phases
  <2>3. PhaseInv'
    BY <1>1, <1>h DEF PhaseInv
  <2>4. OutcomeInv'
    <3>1. evidence = "none" /\ verdict = None
      BY <1>h DEF OutcomeInv, Phases
    <3> QED
      BY <1>1, <1>h, <3>1 DEF OutcomeInv, None, Phases
  <2>5. TopologyInv'
    BY <1>1, <1>h DEF TopologyInv, Phases
  <2> QED
    BY <2>1, <2>2, <2>3, <2>4, <2>5
<1>2. CASE ~canStartWork(m)
  <2>e. pc' = After(pc) /\ pc' \in Entries /\ inside' = FALSE /\ m' = m /\ skipped' = TRUE
    BY <1>2, <1>h, Followers DEF Phases
  <2>p. pc' \in (Phases \ {"BASELINE"}) \union {"close_ingress"}
    BY <2>e, <1>h, Order DEF Phases
  <2>s. m.stopped
    <3>1. m.state \notin {"FINALIZING", "DONE"} \/ m.stopped
      BY <1>h, Courses DEF MachineInv, Phases
    <3> QED
      BY <1>2, <3>1 DEF canStartWork
  <2>1. FieldTypes'
    <3>1. inside' \in BOOLEAN /\ skipped' \in BOOLEAN
      BY <2>e
    <3> QED
      BY <2>e, <3>1 DEF FieldTypes
  <2>2. MachineInv'
    BY <1>h, <2>e, <2>p, <2>s DEF MachineInv, Held, Phases, Steps
  <2>3. PhaseInv'
    BY <1>h, <2>e, <2>p, Order DEF PhaseInv, None, WithControl, Phases, Steps
  <2>4. OutcomeInv'
    <3>1. evidence = "none" /\ verdict = None
      BY <1>h DEF OutcomeInv, Phases
    <3> QED
      BY <2>e, <2>p, <3>1 DEF OutcomeInv, None, Phases
  <2>5. TopologyInv'
    BY <1>h, <2>e, <2>p DEF TopologyInv, Phases
  <2> QED
    BY <2>1, <2>2, <2>3, <2>4, <2>5
<1> QED
  BY <1>1, <1>2

LEMMA BeginStepStep ==
  ASSUME FieldInv, BeginStep
  PROVE  FieldInv'
<1> USE DEF FieldInv, machineVars, childVars, canaryVars, levelVars, trafficVars, closingVars, endVars, BeginStep
<1>h. m \in Machines /\ Held(m) /\ pc \in Steps /\ pc' = pc /\ pc \in Entries /\ inside = FALSE /\ inside' = TRUE
  BY DEF FieldTypes, MachineInv, Entries
<1>m. /\ m' \in Machines /\ Held(m') /\ m'.stopped = m.stopped
      /\ ~m.stopped => m'.state \in Course(pc, TRUE)
  <2>1. \A next \in {"DRAINING", "FINALIZING", "SNAPSHOT"} : 
          /\ advance(m, next) \in Machines /\ Held(advance(m, next)) /\ advance(m, next).stopped = m.stopped
    BY <1>h, Advances DEF States
  <2>2. m' \in Machines /\ Held(m') /\ m'.stopped = m.stopped
    BY <1>h, <2>1 DEF before
  <2>3. ASSUME ~m.stopped PROVE m'.state \in Course(pc, TRUE)
    <3>1. CASE pc = "close_ingress"
      <4>1. m.state = "RECOVERY"
        BY <1>h, <2>3, <3>1, Courses DEF MachineInv
      <4>2. m' = advance(m, "FINALIZING")
        BY <2>3, <3>1, <4>1 DEF before
      <4>3. m'.state = "FINALIZING"
        BY <1>h, <2>3, <4>1, <4>2, Advances, NormalPath DEF States
      <4> QED
        BY <3>1, <4>3, Stations
    <3>2. CASE pc # "close_ingress"
      <4>1. m' = m
        BY <2>3, <3>2 DEF before
      <4>2. m.state \in Course(pc, FALSE)
        BY <1>h, <2>3 DEF MachineInv
      <4>3. Course(pc, FALSE) = Course(pc, TRUE)
        BY <1>h, <3>2, MovesOn DEF Steps, Phases
      <4> QED
        BY <4>1, <4>2, <4>3
    <3> QED
      BY <3>1, <3>2
  <2> QED
    BY <2>2, <2>3
<1>1. FieldTypes'
  BY <1>h, <1>m DEF FieldTypes
<1>2. MachineInv'
  BY <1>h, <1>m DEF MachineInv, Held, Steps
<1>3. PhaseInv'
  BY <1>h DEF PhaseInv, None, WithControl, Steps
<1>4. OutcomeInv'
  <2>1. evidence = "none" \/ pc # "finalize_evidence"
    BY <1>h DEF OutcomeInv
  <2>2. evidence' = IF pc = "finalize_evidence" THEN "writing" ELSE evidence
    OBVIOUS
  <2> QED
    BY <1>h, <1>m, <2>1, <2>2 DEF OutcomeInv, None, Steps
<1>5. TopologyInv'
  BY <1>h DEF TopologyInv, Steps
<1> QED
  BY <1>1, <1>2, <1>3, <1>4, <1>5

LEMMA CleanupStep ==
  ASSUME FieldInv, Cleanup
  PROVE  FieldInv'
<1> USE DEF FieldInv, machineVars, childVars, canaryVars, levelVars, trafficVars, closingVars, endVars, Cleanup, Goto
<1>m. /\ m' \in Machines /\ Held(m)' /\ m'.stopped = m.stopped
      /\ ~m.stopped => m'.state \in {"FINALIZING", "DONE"}
  <2>1. ~m.stopped => m.state \in {"FINALIZING", "DONE"}
    BY Courses DEF MachineInv
  <2>2. m \in Machines /\ Held(m)
    BY ONLY FieldInv DEF FieldInv, FieldTypes, MachineInv
  <2>3. m' \in Machines /\ Held(m') /\ m'.stopped = m.stopped /\ m'.state \in {m.state, "DONE"}
    BY <2>2, Advances DEF States
  <2> QED
    BY <2>1, <2>3 DEF Held
<1>r. result' \in {"error", "invalid", "aborted", "complete"} /\ evidence # "none"
  <2>1. evidence # "none"
    BY DEF OutcomeInv
  <2>2. evidence = "written" => outcome.status \in {"invalid", "aborted", "complete"}
    BY <2>1 DEF OutcomeInv, FieldTypes
  <2> QED
    BY <2>1, <2>2
<1>1. FieldTypes'
  <2>1. pc' \in Entries /\ inside' \in BOOLEAN /\ lock' = "free"
    BY DEF Entries
  <2> QED
    BY <1>m, <1>r, <2>1 DEF FieldTypes
<1>2. MachineInv'
  <2>1. ~m.stopped => m'.state \in Course("Done", FALSE)
    BY <1>m, Stations
  <2> QED
    BY <1>m, <2>1 DEF MachineInv, Steps
<1>3. PhaseInv'
  BY DEF PhaseInv, None, WithControl, Steps
<1>4. OutcomeInv'
  BY <1>m, <1>r DEF OutcomeInv
<1>5. TopologyInv'
  BY <1>r DEF TopologyInv
<1> QED
  BY <1>1, <1>2, <1>3, <1>4, <1>5

LEMMA FieldInit == Init => FieldInv
<1> SUFFICES ASSUME Init PROVE FieldInv
  OBVIOUS
<1> USE DEF Init
<1>1. FieldTypes
  BY DEF FieldTypes, Entries, Machines, States, Classes, None
<1>2. MachineInv
  BY Stations DEF MachineInv, Held
<1>3. PhaseInv /\ OutcomeInv /\ TopologyInv
  BY DEF PhaseInv, OutcomeInv, TopologyInv, Roles, None
<1> QED
  BY <1>1, <1>2, <1>3 DEF FieldInv

LEMMA FieldStep == FieldInv /\ [Next]_vars => FieldInv'
<1> SUFFICES ASSUME FieldInv, [Next]_vars PROVE FieldInv'
  OBVIOUS
<1>1. CASE PreflightRefuses
  BY <1>1, PreflightRefusesStep
<1>2. CASE PreflightPasses
  BY <1>2, PreflightPassesStep
<1>3. CASE Start
  BY <1>3, StartStep
<1>4. CASE StartFails
  BY <1>4, StartFailsStep
<1>5. CASE FirstTick
  BY <1>5, FirstTickStep
<1>6. CASE EnterPhase
  BY <1>6, EnterPhaseStep
<1>7. CASE EndCountedPhase
  BY <1>7, EndCountedPhaseStep
<1>8. CASE EndArmed
  BY <1>8, EndArmedStep
<1>9. CASE WindowClosed
  BY <1>9, WindowClosedStep
<1>10. CASE EndQuiet
  BY <1>10, EndQuietStep
<1>11. CASE CheckRecovery
  BY <1>11, CheckRecoveryStep
<1>12. CASE EndRecovery
  BY <1>12, EndRecoveryStep
<1>13. CASE SkipStep
  BY <1>13, SkipStepStep
<1>14. CASE BeginStep
  BY <1>14, BeginStepStep
<1>15. CASE EndStep
  BY <1>15, EndStepStep
<1>16. CASE StepTimesOut
  BY <1>16, StepTimesOutStep
<1>17. CASE Cleanup
  BY <1>17, CleanupStep
<1>18. CASE Tick
  BY <1>18, TickLatches, ObservingStep DEF Tick
<1>19. CASE onTick
  <2>1. {"failing"} \in SUBSET Classes
    BY DEF Classes
  <2> QED
    BY <1>19, <2>1, LatchLatches, ObservingStep DEF onTick
<1>20. CASE onSignal
  <2>1. {"operational"} \in SUBSET Classes
    BY DEF Classes
  <2> QED
    BY <1>20, <2>1, LatchLatches, ObservingStep DEF onSignal
<1>21. CASE PlaneClosesIngress
  BY <1>21, PlaneClosesIngressStep
<1>22. CASE IngressClosedArrives
  BY <1>22, IngressClosedArrivesStep
<1>23. CASE \E r \in Crashable : Crash(r)
  BY <1>23, CrashStep
<1>24. CASE ChildrenStop
  BY <1>24, ChildrenStopStep
<1>25. CASE Attempt
  BY <1>25, AttemptStep
<1>26. CASE Stray
  BY <1>26, StrayStep
<1>27. CASE Reduce
  BY <1>27, ReduceStep
<1>28. CASE StartJourney
  BY <1>28, StartJourneyStep
<1>29. CASE EndControl \/ EndJourney
  BY <1>29, EndControlStep, EndJourneyStep
<1>30. CASE CloseWindow
  BY <1>30, CloseWindowStep
<1>31. CASE DrainAsks
  BY <1>31, DrainAsksStep
<1>32. CASE finish
  BY <1>32, finishStep
<1>33. CASE writeEvidence
  BY <1>33, writeEvidenceStep
<1>34. CASE Reconcile
  BY <1>34, ReconcileStep
<1>35. CASE UNCHANGED vars
  <2>1. Latched
    BY <1>35, NothingLatches DEF vars, machineVars
  <2> QED
    BY <1>35, <2>1, ObservingStep DEF vars
<1> QED
  BY <1>1, <1>2, <1>3, <1>4, <1>5, <1>6, <1>7, <1>8, <1>9, <1>10, <1>11, <1>12, <1>13, <1>14, <1>15, <1>16, <1>17,
     <1>18, <1>19, <1>20, <1>21, <1>22, <1>23, <1>24, <1>25, <1>26, <1>27, <1>28, <1>29, <1>30, <1>31, <1>32, <1>33,
     <1>34, <1>35 DEF Next, Main, Events

\* The invariant of the level holds in every state of every run of it.
THEOREM FieldInvariance == Spec => []FieldInv
BY FieldInit, FieldStep, PTL DEF Spec

\* A VALID verdict was earned by a level that ran in full, and a level that ended, whatever became of
\* it, left no child running, no lock of its own and no missing evidence.
THEOREM FieldLevelsAreSound == Spec => []LevelIsSound
<1>1. FieldInv => ValidIsEarned
  BY DEF FieldInv, MachineInv, OutcomeInv, ValidIsEarned
<1>2. FieldInv => NothingLeft
  BY DEF FieldInv, TopologyInv, NothingLeft
<1> QED
  BY <1>1, <1>2, FieldInvariance, PTL DEF LevelIsSound

\* What a step does to a machine that has stopped: at most one transition of the stop path.
StaysStopped ==
  m'.stopped /\ m'.first = m.first /\ (m'.state = m.state \/ IsNext(STOPPED, m.state, m'.state))

LEMMA StoppedMachines ==
  ASSUME FieldInv, m.stopped, Next
  PROVE  StaysStopped
<1>h. m \in Machines /\ Held(m) /\ pc # "Preflight"
  BY DEF FieldInv, FieldTypes, MachineInv
<1>a. ASSUME NEW next \in States, m' = advance(m, next)
      PROVE  StaysStopped
  BY <1>h, <1>a, Advances DEF StaysStopped
<1>l. ASSUME Latched PROVE StaysStopped
  BY <1>l DEF Latched, StaysStopped
<1>u. ASSUME m' = m PROVE StaysStopped
  BY <1>u DEF StaysStopped
<1>f. {"failing"} \in SUBSET Classes /\ {"operational"} \in SUBSET Classes
  BY DEF Classes
<1>1. CASE BeginStep
  <2>1. \/ m' = m \/ m' = advance(m, "DRAINING") \/ m' = advance(m, "FINALIZING") \/ m' = advance(m, "SNAPSHOT")
    BY <1>1 DEF BeginStep, before, Steps
  <2> QED
    BY <2>1, <1>a, <1>u DEF States
<1>2. CASE Cleanup
  BY <1>2, <1>a DEF Cleanup, States
<1>3. CASE EnterPhase
  BY <1>3, <1>u DEF EnterPhase, canStartWork
<1>4. CASE StartFails \/ EndArmed \/ CheckRecovery \/ EndJourney \/ onTick \/ onSignal
  <2>1. m' = m \/ Latch({"failing"}) \/ Latch({"operational"})
    BY <1>4 DEF StartFails, EndArmed, CheckRecovery, EndJourney, onTick, onSignal, machineVars
  <2> QED
    BY <2>1, <1>f, <1>l, <1>u, LatchLatches
<1>5. CASE FirstTick \/ Tick
  BY <1>5, <1>l, TickLatches DEF FirstTick, Tick
<1>6. CASE \/ Start \/ EndCountedPhase \/ WindowClosed \/ EndQuiet \/ EndRecovery \/ SkipStep \/ EndStep \/ StepTimesOut
  BY <1>6, <1>u DEF Start, EndCountedPhase, WindowClosed, EndQuiet, EndRecovery, SkipStep, EndStep, StepTimesOut,
                    machineVars
<1>7. CASE \/ PlaneClosesIngress \/ IngressClosedArrives \/ (\E r \in Crashable : Crash(r)) \/ ChildrenStop
           \/ Attempt \/ Stray \/ Reduce \/ StartJourney \/ EndControl \/ CloseWindow \/ DrainAsks
           \/ finish \/ writeEvidence \/ Reconcile
  BY <1>7, <1>u DEF PlaneClosesIngress, IngressClosedArrives, Crash, ChildrenStop, Attempt, Stray, Reduce, StartJourney,
                    EndControl, CloseWindow, DrainAsks, finish, writeEvidence, Reconcile, machineVars
<1>8. CASE PreflightRefuses \/ PreflightPasses
  BY <1>8, <1>h DEF PreflightRefuses, PreflightPasses
<1> QED
  BY <1>1, <1>2, <1>3, <1>4, <1>5, <1>6, <1>7, <1>8 DEF Next, Main, Events

LEMMA NothingStarts ==
  ASSUME FieldInv, m.stopped, Next
  PROVE  /\ pc \in Phases /\ inside' => inside
         /\ journey = None => journey' = None
         /\ phasesCompleted' => phasesCompleted
<1> USE DEF childVars, canaryVars, levelVars, trafficVars, closingVars, endVars, Goto
<1>1. CASE EnterPhase
  BY <1>1 DEF EnterPhase, canStartWork
<1>2. CASE BeginStep
  BY <1>2 DEF BeginStep, Steps, Phases
<1>3. CASE EndRecovery
  BY <1>3 DEF EndRecovery
<1>4. CASE StartJourney
  BY <1>4 DEF StartJourney, canStartWork
<1>5. CASE EndControl \/ EndJourney
  <2>1. CASE EndControl
    BY <2>1 DEF EndControl, None
  <2>2. CASE EndJourney
    BY <2>2 DEF EndJourney
  <2> QED
    BY <1>5, <2>1, <2>2
<1>6. CASE \/ PreflightRefuses \/ PreflightPasses \/ Start \/ StartFails \/ FirstTick \/ EndCountedPhase \/ EndArmed
           \/ WindowClosed \/ EndQuiet \/ CheckRecovery \/ SkipStep \/ EndStep \/ StepTimesOut \/ Cleanup
  BY <1>6 DEF PreflightRefuses, PreflightPasses, Start, StartFails, FirstTick, EndCountedPhase, EndArmed,
              WindowClosed, EndQuiet, CheckRecovery, SkipStep, EndStep, StepTimesOut, Cleanup
<1>7. CASE \/ Tick \/ onTick \/ onSignal \/ PlaneClosesIngress \/ IngressClosedArrives
           \/ (\E r \in Crashable : Crash(r)) \/ ChildrenStop
           \/ Attempt \/ Stray \/ Reduce \/ CloseWindow \/ DrainAsks \/ finish \/ writeEvidence \/ Reconcile
  BY <1>7 DEF Tick, onTick, onSignal, PlaneClosesIngress, IngressClosedArrives, Crash, ChildrenStop, Attempt, Stray,
              Reduce, CloseWindow, DrainAsks, finish, writeEvidence, Reconcile
<1> QED
  BY <1>1, <1>2, <1>3, <1>4, <1>5, <1>6, <1>7 DEF Next, Main, Events

\* A STOP is final: after it no phase and no round of canaries starts, the first reason stays the first, the level can
\* no longer complete, and the machine only moves along the stop path.
THEOREM StopsAreFinal == Spec => StopIsFinal
<1>1. ASSUME FieldInv, [Next]_vars
      PROVE  [m.stopped =>
                /\ m'.stopped /\ m'.first = m.first
                /\ (pc \in Phases /\ inside' => inside) /\ (journey = None => journey' = None)
                /\ phasesCompleted' => phasesCompleted
                /\ m'.state = m.state \/ IsNext(STOPPED, m.state, m'.state)]_vars
  <2>1. CASE Next
    BY <1>1, <2>1, StoppedMachines, NothingStarts DEF StaysStopped
  <2>2. CASE UNCHANGED vars
    BY <2>2
  <2> QED
    BY <1>1, <2>1, <2>2
<1> QED
  BY <1>1, FieldInvariance, PTL DEF Spec, StopIsFinal
===============================================================================
