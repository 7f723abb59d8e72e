--------------------------- MODULE ExternalReducer ---------------------------
(***************************************************************************)
(* The external lane of the collector (lab/defense/external-reducer.ts):   *)
(* a request from a remote peer is known only by the events of the three   *)
(* processes, which come on three pipes in no order.  The reducer opens it *)
(* with the plane's INGRESS_ACCEPTED, holds what came before that, judges  *)
(* and counts the request once it is over, and forgets it.                 *)
(*                                                                         *)
(* Traffic is given: for every nonce the frames each process will send     *)
(* about it, a frame being a sequence of events that arrive together.      *)
(* Ages replace times and stop at the grace they are compared with.  The   *)
(* traces kept for a reader of the evidence are left out.                  *)
(***************************************************************************)
EXTENDS RequestLedger, Bags

CONSTANTS
    Traffic,         \* nonce -> [plane, boundary, app], each a sequence of frames
    AllowedShed,     \* decisions whose refusals a workload expects
    MaxActive,       \* maxActive
    MaxOrphans,      \* maxOrphans
    RecentRing,      \* recentRing
    MaxDecisions,    \* maxDecisions
    MaxPerStream,    \* maxEventsPerStream
    DownstreamGrace, \* downstreamGraceMs
    OrphanGrace      \* orphanGraceMs

Nonces == DOMAIN Traffic
Streams == {"plane", "boundary", "app"}
Downstream == {"boundary", "app"}
Open == -1           \* age of a request whose plane stream has not ended

ASSUME LimitsAssumption ==
    /\ MaxActive \in Nat /\ MaxOrphans \in Nat /\ RecentRing \in Nat /\ MaxDecisions \in Nat
    /\ MaxPerStream \in Nat \ {0} /\ DownstreamGrace \in Nat \ {0} /\ OrphanGrace \in Nat \ {0}

VARIABLES
    arrived,  \* per nonce and stream: how many of its frames have arrived
    reducer,  \* active, orphans, recent, tally, and whether an anomaly was reported
    waited,   \* whether any time has passed
    over      \* whether the reducer has been finalized

reducerVars == <<arrived, reducer, waited, over>>

Put(f, n, value) == [m \in DOMAIN f \union {n} |-> IF m = n THEN value ELSE f[m]]
Drop(f, n) == [m \in DOMAIN f \ {n} |-> f[m]]
Report(r, wrong) == [r EXCEPT !.reported = @ \/ wrong]

\* attributeShed(): a refusal is expected only if L2 made it, was allowed to, and nothing was sent on.
attributeShed(plane) ==
    CASE Saw(plane, "L1_SHED")  -> "l1_shed"
      [] Saw(plane, "L1_ERROR") -> "l1_error"
      [] Saw(plane, "L2_DECIDED") /\ ValueOf(plane, "L2_DECIDED").outcome = "shed" ->
            IF Saw(plane, "EGRESS_ATTEMPTED") THEN "l2_shed_with_egress"
            ELSE IF ValueOf(plane, "L2_DECIDED") \in AllowedShed THEN "expected" ELSE "l2_shed_other"
      [] Saw(plane, "L2_DECIDED") /\ ValueOf(plane, "L2_DECIDED").outcome = "error" -> "l2_error"
      [] Saw(plane, "EGRESS_ATTEMPTED") -> "proxied_503"
      [] OTHER -> "other"

Bucket(plane) == IF Saw(plane, "L2_DECIDED") THEN ValueOf(plane, "L2_DECIDED").lane ELSE "none"

\* count(): plane events by kind, the others one by one, the outcome, and the cause of a 503.
count(q) ==
    LET each(s) == FoldLeft(LAMBDA bag, e : bag (+) SetToBag({<<s, e.k>>}), EmptyBag, q[s])
        status == IF Saw(q.plane, "INGRESS_RESPONDED") THEN ValueOf(q.plane, "INGRESS_RESPONDED") ELSE 0
    IN  SetToBag({<<"plane", k>> : k \in Range(KindsOf(q.plane))} \union {<<"outcome", terminalOutcomeL2(q.plane)>>}
                   \union (IF Saw(q.app, "APP_MUTATED") THEN {<<"mutated by", Bucket(q.plane)>>} ELSE {})
                   \union (IF status = 503 THEN {<<"503", attributeShed(q.plane)>>} ELSE {})
                   \union (IF status > 503 \/ status \in 500 .. 502 THEN {<<"5xx", "other">>} ELSE {}))
          (+) each("boundary") (+) each("app")

Tallied(r, key) == IF key \in DOMAIN r.tally THEN r.tally[key] ELSE 0

\* remember(): the ring of the nonces that were closed last.
remember(ring, n) ==
    LET longer == Append(ring, n)
    IN  IF Len(longer) > RecentRing THEN Tail(longer) ELSE longer

\* Mutant: a request that did not end is dropped without a word.
ReduceSilently(r, n) ==
    LET q == r.active[n] IN
    [r EXCEPT !.active = Drop(@, n), !.tally = @ (+) count(q), !.recent = remember(@, n)]

\* reduce(), with keepDecision(): judged like a protected request, counted, dropped and remembered.
reduce(r, n) ==
    LET q == r.active[n]
        decided == Tallied(r, <<"plane", "L2_DECIDED">>)
        wrong == \/ ~validateLifecycle(q, TRUE) \/ ~validateOriginLineage(q, "protected") \/ ~validateL2Lifecycle(q)
                 \/ q.age = Open
                 \/ Saw(q.plane, "L2_DECIDED") /\ decided >= MaxDecisions
    IN  Report([r EXCEPT !.active = Drop(@, n), !.tally = @ (+) count(q), !.recent = remember(@, n)], wrong)

\* append(): at most maxEventsPerStream of a stream.
append(r, n, s, e) ==
    IF Len(r.active[n][s]) >= MaxPerStream THEN Report(r, TRUE)
    ELSE [r EXCEPT !.active[n][s] = Append(@, e)]

\* downstreamSatisfied(): nothing was sent, it never reached the boundary, or all who have it are done.
downstreamSatisfied(q) ==
    \/ ~Saw(q.plane, "EGRESS_ATTEMPTED")
    \/ Saw(q.plane, "EGRESS_FAILED") /\ ValueOf(q.plane, "EGRESS_FAILED") \in {"refused", "canon", "sign"}
    \/ /\ Times(q.boundary, BoundaryTerminals) > 0
       /\ \/ ~Saw(q.boundary, "BOUNDARY_FORWARD_RESPONDED")
          \/ Times(q.app, AppTerminals \union {"APP_REFUSED"}) > 0

tryComplete(r, n) ==
    LET q == r.active[n] IN
    IF q.age # Open /\ (downstreamSatisfied(q) \/ q.age >= DownstreamGrace) THEN reduce(r, n) ELSE r

\* The request is opened, and what was held for it is taken over.
opened(r, n, e) ==
    LET held == IF n \in DOMAIN r.orphans THEN r.orphans[n] ELSE [boundary |-> <<>>, app |-> <<>>, age |-> 0]
        fresh == [r EXCEPT !.active = Put(@, n, [plane |-> <<e>>, boundary |-> <<>>, app |-> <<>>, age |-> Open]),
                           !.orphans = Drop(@, n), !.tally = @ (+) SetToBag({<<"accepted", "external">>})]
        boundary == FoldLeft(LAMBDA s, h : append(s, n, "boundary", h), fresh, held.boundary)
    IN  FoldLeft(LAMBDA s, h : append(s, n, "app", h), boundary, held.app)

\* ingestPlane(); an event of a nonce nobody opened is the collector's unknown_nonce.
ingestPlane(r, n, e) ==
    IF e.k = "INGRESS_ACCEPTED"
    THEN IF n \in DOMAIN r.active \union Range(r.recent) THEN Report(r, TRUE)
         ELSE IF Cardinality(DOMAIN r.active) >= MaxActive THEN Report(r, TRUE)
         ELSE opened(r, n, e)
    ELSE IF n \notin DOMAIN r.active THEN Report(r, TRUE)
    ELSE LET added == append(r, n, "plane", e)
             ended == [added EXCEPT !.active[n].age = IF e.k \in Terminals /\ @ = Open THEN 0 ELSE @]
         IN  tryComplete(ended, n)

\* ingestDownstream().
ingestDownstream(r, n, s, e) ==
    CASE n \in DOMAIN r.active   -> tryComplete(append(r, n, s, e), n)
      [] n \in Range(r.recent)   -> Report(r, TRUE)
      [] n \in DOMAIN r.orphans  -> [r EXCEPT !.orphans[n][s] = Append(@, e)]
      [] Cardinality(DOMAIN r.orphans) >= MaxOrphans -> Report(r, TRUE)
      [] OTHER -> [r EXCEPT !.orphans =
                      Put(@, n, Put([boundary |-> <<>>, app |-> <<>>, age |-> 0], s, <<e>>))]

\* reportOrphan(): refusals alone are counted without a name, anything else is an anomaly.
reportOrphan(r, n) ==
    LET o == r.orphans[n]
        boundaryRefusal == /\ o.boundary # <<>> /\ o.app = <<>>
                           /\ Range(KindsOf(o.boundary)) \subseteq
                                 {"BOUNDARY_ARRIVED", "BOUNDARY_REJECTED"} \union BoundaryTerminals
                           /\ Saw(o.boundary, "BOUNDARY_REJECTED")
        appRefusal == o.boundary = <<>> /\ o.app # <<>> /\ Range(KindsOf(o.app)) = {"APP_REFUSED"}
        without == [r EXCEPT !.orphans = Drop(@, n)]
    IN  IF boundaryRefusal \/ appRefusal
        THEN [without EXCEPT !.tally = @ (+) SetToBag({<<"anonymous", "refused">>})]
        ELSE Report(without, TRUE)

\* deriveExternalAccounting(), E1 to E8 of a run without a canary; E7's buckets are JourneyLanes's.
\* own are the processes' counters.
deriveExternalAccounting(r, own) ==
    LET t(s, key) == Tallied(r, <<s, key>>)
        o(s, key) == Tallied([tally |-> own], <<s, key>>)
        outcomes == {"client_aborted", "l2_shed", "l2_error", "rejected", "shed", "error", "egress_failed", "proxied"}
    IN  /\ t("accepted", "external") = MapThenSumSet(LAMBDA k : t("outcome", k), outcomes)
        /\ t("outcome", "unresolved") = 0
        /\ t("plane", "L1_ENTERED") = t("accepted", "external")
        /\ t("plane", "L1_ENTERED") = MapThenSumSet(LAMBDA k : t("plane", k), Verdicts)
        /\ t("plane", "L2_ENTERED") = t("plane", "L1_PASSED")
        /\ t("plane", "L2_DECIDED") = t("plane", "L2_ENTERED")
        /\ t("plane", "EGRESS_ATTEMPTED") = t("plane", "EGRESS_RESPONDED") + t("plane", "EGRESS_FAILED")
        /\ t("plane", "EGRESS_FAILED") = 0
        /\ t("plane", "PROOF_ISSUED") = t("plane", "EGRESS_ATTEMPTED")
        /\ \A k \in {"BOUNDARY_ARRIVED", "BOUNDARY_ADMITTED"} : o("boundary", k) = t("boundary", k)
        /\ o("boundary", "BOUNDARY_REJECTED") + t("boundary", "BOUNDARY_REJECTED") = 0
        /\ t("boundary", "BOUNDARY_ADMITTED") = t("boundary", "APP_PROOF_ISSUED")
        /\ \A k \in {"APP_ADMITTED", "APP_EXECUTED", "APP_MUTATED"} : o("app", k) = t("app", k)
        /\ o("app", "APP_REFUSED") + t("app", "APP_REFUSED") = 0
        /\ t("app", "APP_ADMITTED") = t("boundary", "BOUNDARY_FORWARD_RESPONDED")
        /\ \A lane \in {"credited", "open", "none"} : t("mutated by", lane) = 0
        /\ \A key \in DOMAIN r.tally : key[1] \in {"503", "5xx"} => key[2] = "expected"

InTurn(order, f(_, _), r) == FoldLeft(f, r, order)

-----------------------------------------------------------------------------
(* ingestFrame(), ingestBoundaryFrame(), ingestAppFrame() for one nonce    *)

AllArrived(n, s) == arrived[n][s] = Len(Traffic[n][s])

Arrive(n, s) ==
    LET one(r, e) == IF s = "plane" THEN ingestPlane(r, n, e) ELSE ingestDownstream(r, n, s, e) IN
    /\ ~over /\ ~AllArrived(n, s)
    /\ reducer' = FoldLeft(one, reducer, Traffic[n][s][arrived[n][s] + 1])
    /\ arrived' = [arrived EXCEPT ![n][s] = @ + 1]
    /\ UNCHANGED <<waited, over>>

\* Time passes for whatever waits.
Wait ==
    /\ ~over
    /\ reducer' = [reducer EXCEPT
          !.active  = [n \in DOMAIN @ |->
             [@[n] EXCEPT !.age = IF @ = Open \/ @ = DownstreamGrace THEN @ ELSE @ + 1]],
          !.orphans = [n \in DOMAIN @ |->
             [@[n] EXCEPT !.age = IF @ = OrphanGrace THEN @ ELSE @ + 1]]]
    /\ waited' = TRUE
    /\ UNCHANGED <<arrived, over>>

\* sweep(), once a second.
sweep ==
    /\ ~over
    /\ \E order \in SetToSeqs({n \in DOMAIN reducer.active : reducer.active[n].age >= DownstreamGrace}) :
          LET r == InTurn(order, reduce, reducer) IN
          reducer' = InTurn(SetToSeq({n \in DOMAIN r.orphans : r.orphans[n].age >= OrphanGrace}), reportOrphan, r)
    /\ UNCHANGED <<arrived, waited, over>>

\* finalize(), after the ledger is frozen.
FinalizeExternal ==
    LET r == InTurn(SetToSeq(DOMAIN reducer.active), reduce, reducer)
    IN  /\ ~over /\ over' = TRUE
        /\ reducer' = InTurn(SetToSeq(DOMAIN r.orphans), reportOrphan, r)
        /\ UNCHANGED <<arrived, waited>>

ReducerInit ==
    /\ arrived = [n \in Nonces |-> [s \in Streams |-> 0]]
    /\ reducer = [active |-> <<>>, orphans |-> <<>>, recent |-> <<>>, tally |-> EmptyBag, reported |-> FALSE]
    /\ waited = FALSE /\ over = FALSE

ReducerNext ==
    \/ \E n \in Nonces, s \in Streams : Arrive(n, s)
    \/ Wait \/ sweep \/ FinalizeExternal

-----------------------------------------------------------------------------
(* Properties                                                              *)

\* The whole of a request, as the processes sent it.
Whole(n) == [s \in Streams |-> FlattenSeq(Traffic[n][s])]

HopsAgree(q) == validateLifecycle(q, TRUE) /\ validateOriginLineage(q, "protected") /\ validateL2Lifecycle(q)

Begun == {n \in Nonces : \E s \in Streams : arrived[n][s] > 0}
Claimed == {n \in Begun : Traffic[n].plane # <<>>}
IsRefusal(n) == Saw(Whole(n).boundary, "BOUNDARY_REJECTED") \/ Saw(Whole(n).app, "APP_REFUSED")

Truth == FoldLeft(LAMBDA bag, n : bag (+) count(Whole(n)) (+) SetToBag({<<"accepted", "external">>}),
                  EmptyBag, SetToSeq(Claimed))

\* The boundary's and the app's own counters: what they did, attributed or not.
Own == FoldLeft(LAMBDA bag, n : bag (+) count(Whole(n)), EmptyBag, SetToSeq(Begun))

\* external-reducer.ts: "Nothing that was fatal stays quiet."  When all that the processes sent about
\* the requests of a run has arrived and no anomaly was reported, every request that came in through
\* the plane ended and its hops agree about it, the counters are exactly those of these requests,
\* each counted once and whole, and whatever reached a hop without the plane was refused there,
\* however the pipes were reordered and however late a frame came.
QuietIsExact ==
    /\ over /\ ~reducer.reported
    /\ \A n \in Begun, s \in Streams : AllArrived(n, s)
    /\ \A n \in Claimed : ~IsRefusal(n)
    => /\ \A key \in DOMAIN reducer.tally \ {<<"anonymous", "refused">>} :
             reducer.tally[key] = Tallied([tally |-> Truth], key)
       /\ DOMAIN Truth \subseteq DOMAIN reducer.tally
       /\ \A n \in Claimed : Times(Whole(n).plane, Terminals) > 0 /\ HopsAgree(Whole(n))
       /\ \A n \in Begun \ Claimed : IsRefusal(n)

\* A request all hops of which agree, and whose boundary heard from the app.
Sound(n) ==
    /\ n \in Claimed
    /\ HopsAgree(Whole(n))
    /\ Traffic[n].app # <<>> => Saw(Whole(n).boundary, "BOUNDARY_FORWARD_RESPONDED")

\* "Downstream events arrive on their own IPC pipes and may beat the plane's INGRESS_ACCEPTED":
\* as long as nothing is late, sound requests within the caps raise no anomaly in any order.
PromptIsQuiet ==
    reducer.reported =>
       \/ waited \/ over
       \/ \E n \in Begun : ~Sound(n)
       \/ Cardinality(Begun) > MaxActive

\* A refusal that comes when its request is forgotten is counted without a name and reported by
\* nobody.  The identities find it: a quiet run whose books balance saw only requests that came
\* through the plane, were refused by no hop, and were served or turned away as expected.
BalancedIsServed ==
    /\ over /\ ~reducer.reported
    /\ \A n \in Begun, s \in Streams : AllArrived(n, s)
    /\ deriveExternalAccounting(reducer, Own)
    => \A n \in Begun :
          /\ n \in Claimed /\ ~IsRefusal(n) /\ HopsAgree(Whole(n))
          /\ \/ terminalOutcomeL2(Whole(n).plane) \in {"proxied", "rejected", "client_aborted"}
             \/ terminalOutcomeL2(Whole(n).plane) = "l2_shed" /\ attributeShed(Whole(n).plane) = "expected"

ExternalLaneIsExact == QuietIsExact /\ PromptIsQuiet /\ BalancedIsServed
=============================================================================
