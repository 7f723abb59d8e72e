------------------------- MODULE AuthorityLifecycle -------------------------
(***************************************************************************)
(* The lifecycle side of the admission authority: signed operator commands *)
(* that initialize the object and rotate its active release, each in one   *)
(* synchronous transaction that also writes the command's receipt.         *)
(*                                                                         *)
(* A command stands for its own digest.  For "initialize" the fields are   *)
(* those expectedCommandReceipt() derives: current = next = the release,   *)
(* activates = issued, retires = NoTime.                                   *)
(***************************************************************************)
EXTENDS Integers, FiniteSets, Sequences

CONSTANTS
    Commands,    \* signed commands: [op, current, next, key, activates, retires, issued]
    Window,      \* freshness of a command and of its activation, five minutes
    Overlap,     \* longest time two releases may both be active
    Retention,   \* AUTHORITY_RELEASE_RETENTION_AFTER_RETIRE_MS
    Capacity,    \* LIFECYCLE_RECEIPT_CAPACITY
    MaxTime      \* bound: last time of the clock

NoTime == -1

\* What canonicalOperatorCommandBytes() lets an operator sign.
Signable(c) ==
    /\ c.issued \in Nat /\ c.activates \in Nat
    /\ c.op \in {"initialize", "rotate-release"}
    /\ c.op = "initialize" => c.current = c.next /\ c.activates = c.issued /\ c.retires = NoTime
    /\ c.op = "rotate-release" =>
          /\ c.current # c.next
          /\ c.retires \in Nat
          /\ c.retires > c.activates /\ c.retires - c.activates <= Overlap

ASSUME CommandsAssumption == \A c \in Commands : Signable(c)
ASSUME LifecycleTimesAssumption ==
    /\ Window \in Nat /\ Overlap \in Nat /\ Retention \in Nat
    /\ Window <= Retention
    /\ Capacity \in Nat /\ MaxTime \in Nat

VARIABLES
    clock,       \* Date.now()
    lastNow,     \* authority_meta.last_now_ms, NoTime before initialization
    releases,    \* rows of active_releases: [id, key, activated, retired]
    receipts,    \* rows of lifecycle_receipts: [digest, sequence, applied]
    mutations    \* history: the commands whose transaction changed releases

vars == <<clock, lastNow, releases, receipts, mutations>>

Initialized == lastNow # NoTime

Within(a, b) == a - b <= Window /\ b - a <= Window

\* assertSubmissionEligible() and the authority's own final reading.
Eligible(c) ==
    /\ Within(clock, c.issued)
    /\ c.op = "rotate-release" => Within(clock, c.activates)

HasReceipt(c) == \E r \in receipts : r.digest = c

\* COALESCE(MAX(sequence),0).
LastSequence ==
    CHOOSE s \in {0} \union {r.sequence : r \in receipts} :
        \A r \in receipts : r.sequence <= s

ActiveAt(r, t) == r.activated <= t /\ (r.retired = NoTime \/ r.retired > t)

-----------------------------------------------------------------------------
\* initializeAuthority() reaches its first INSERT.
InitializeAccepted(c) ==
    /\ c.op = "initialize"
    /\ ~HasReceipt(c)
    /\ ~Initialized
    /\ Cardinality(receipts) < Capacity

\* rotateAuthorityRelease() reaches its UPDATE: cur is the current release and
\* every other row may be deleted.
RotateAccepted(c, cur) ==
    /\ c.op = "rotate-release"
    /\ ~HasReceipt(c)
    /\ Initialized
    /\ receipts # {}             \* lifecycle_receipt_coverage
    /\ Cardinality(receipts) < Capacity
    /\ \A r \in releases : r.id # c.next
    /\ lastNow <= c.activates
    /\ cur.id = c.current /\ cur.retired = NoTime
    /\ Cardinality(releases) <= 2
    /\ \A old \in releases \ {cur} :
          old.retired # NoTime /\ old.retired + Retention <= c.activates

\* key_id is UNIQUE: the INSERT of the next release must not meet its key.
Accepted(c) ==
    \/ InitializeAccepted(c)
    \/ \E cur \in releases : RotateAccepted(c, cur) /\ cur.key # c.key

NewRelease(c) == [id |-> c.next, key |-> c.key, activated |-> c.activates,
                  retired |-> NoTime]

\* insertReceipt(), in the transaction of the mutation it describes.
InsertReceipt(c) ==
    /\ receipts' = receipts \union
          {[digest |-> c, sequence |-> LastSequence + 1, applied |-> clock]}
    /\ mutations' = Append(mutations, c)

\* executeSignedAuthorityInitialization() with a fresh command.
Initialize(c) ==
    /\ Eligible(c) /\ InitializeAccepted(c)
    /\ lastNow' = c.issued
    /\ releases' = releases \union {NewRelease(c)}
    /\ InsertReceipt(c)
    /\ UNCHANGED clock

\* Mutant: the previous release retires when the command is applied.
RotateRetiringNow(c) ==
    /\ Eligible(c)
    /\ \E cur \in releases :
          /\ RotateAccepted(c, cur) /\ cur.key # c.key
          /\ releases' = {[cur EXCEPT !.retired = clock], NewRelease(c)}
    /\ InsertReceipt(c)
    /\ UNCHANGED <<clock, lastNow>>

\* executeSignedAuthorityReleaseRotation() with a fresh command.
Rotate(c) ==
    /\ Eligible(c)
    /\ \E cur \in releases :
          /\ RotateAccepted(c, cur) /\ cur.key # c.key
          /\ releases' = {[cur EXCEPT !.retired = c.retires], NewRelease(c)}
    /\ InsertReceipt(c)
    /\ UNCHANGED <<clock, lastNow>>

Execute(c) == Initialize(c) \/ Rotate(c)

\* claimPre and consumePost move the authority's time, if a release is active.
Admit ==
    /\ Initialized /\ clock >= lastNow
    /\ \E r \in releases : ActiveAt(r, clock)
    /\ lastNow' = clock
    /\ UNCHANGED <<clock, releases, receipts, mutations>>

Tick ==
    /\ clock < MaxTime
    /\ clock' = clock + 1
    /\ UNCHANGED <<lastNow, releases, receipts, mutations>>

Init ==
    /\ clock = 0
    /\ lastNow = NoTime
    /\ releases = {}
    /\ receipts = {}
    /\ mutations = <<>>

Next ==
    \/ \E c \in Commands : Initialize(c) \/ Rotate(c)
    \/ Admit
    \/ Tick

Spec == Init /\ [][Next]_vars

-----------------------------------------------------------------------------
(* Properties.                                                             *)

Release == [id : {c.next : c \in Commands}, key : {c.key : c \in Commands},
            activated : Nat, retired : Nat \union {NoTime}]

\* Releases and receipts are rows made from commands, with times in range.
TypeOK ==
    /\ clock \in Nat
    /\ lastNow \in Nat \union {NoTime}
    /\ releases \subseteq Release
    /\ receipts \subseteq [digest : Commands, sequence : Nat \ {0}, applied : Nat]
    /\ mutations \in Seq(Commands)

\* A command changes the releases at most once, and the receipts are exactly
\* the history of the changes in their order, however often a command is
\* presented again (findReceipt, insertReceipt).
ReceiptsAreTheHistory ==
    /\ \A i, j \in 1 .. Len(mutations) : mutations[i] = mutations[j] => i = j
    /\ {<<r.sequence, r.digest>> : r \in receipts}
          = {<<i, mutations[i]>> : i \in 1 .. Len(mutations)}

\* "Exactly one current release is configured, with at most one previous
\* release. Release IDs and key IDs are unique" (rotateAuthorityRelease).
OneCurrentRelease ==
    /\ \A a, b \in releases :
          \/ a = b
          \/ a.id # b.id /\ a.key # b.key /\ (a.retired = NoTime <=> b.retired # NoTime)
    /\ Initialized <=> \E r \in releases : r.retired = NoTime

\* From the time the authority answers at (authorityNow) there is always a
\* release that is active: a rotation neither retires the current release
\* before the next one is active nor deletes one that is still needed.
AlwaysServed ==
    Initialized /\ clock >= lastNow => \E r \in releases : ActiveAt(r, clock)

\* The history of releases is recorded in full, names one current release, and
\* leaves no moment without an active one (rotateAuthorityRelease, insertReceipt).
RotationIsSafe == ReceiptsAreTheHistory /\ OneCurrentRelease /\ AlwaysServed

-----------------------------------------------------------------------------
(* The inductive invariant behind RotationIsSafe.  It holds of an authority *)
(* that begins with Init or with a release from before there were receipts. *)

TimesInv == clock \in Nat /\ lastNow \in Nat \union {NoTime} /\ mutations \in Seq(Commands)

\* The receipts count the mutations, each was due when it was applied, and the
\* first of them alone is an initialization.
HistoryInv ==
    /\ receipts \subseteq [digest : Commands, sequence : Nat \ {0}, applied : Nat]
    /\ IsFiniteSet(receipts) /\ Cardinality(receipts) = Len(mutations)
    /\ Len(mutations) <= Capacity
    /\ ReceiptsAreTheHistory
    /\ \A r \in receipts : Within(r.applied, r.digest.activates)
    /\ \A i \in 1 .. Len(mutations) : mutations[i].op = "initialize" <=> i = 1

IsRow(r) ==
    /\ r = [id |-> r.id, key |-> r.key, activated |-> r.activated, retired |-> r.retired]
    /\ r.activated \in Nat /\ r.retired \in Nat \union {NoTime}

\* One row, which serves already; it is the initialization's unless that has no receipt.
OneRow ==
    /\ Initialized /\ Len(mutations) <= 1
    /\ \E cur \in releases :
          /\ releases = {cur} /\ IsRow(cur)
          /\ cur.retired = NoTime /\ cur.activated <= lastNow
          /\ Len(mutations) = 1 => cur = NewRelease(mutations[1])

\* The row a rotation left and the row it made: the old one serves already and
\* goes on until the new one does.
TwoRows ==
    /\ Initialized /\ Len(mutations) >= 2
    /\ \E old, cur \in releases :
          /\ releases = {old, cur} /\ IsRow(old) /\ IsRow(cur)
          /\ old.id # cur.id /\ old.key # cur.key
          /\ old.retired # NoTime /\ cur.retired = NoTime
          /\ old.activated <= cur.activated
          /\ old.activated <= clock \/ old.activated <= lastNow
          /\ old.retired - cur.activated \in 1 .. Overlap

RowsInv == (~Initialized /\ releases = {} /\ mutations = <<>>) \/ OneRow \/ TwoRows

LifecycleInv == TimesInv /\ HistoryInv /\ RowsInv
=============================================================================
