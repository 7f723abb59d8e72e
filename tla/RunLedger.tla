------------------------------ MODULE RunLedger ------------------------------
(***************************************************************************)
(* The verdict of a laboratory run over everything that was recorded:      *)
(* Collector.finalize() and the accounting of lab/defense, for the two     *)
(* compositions that mutate an application: the origin run (no L2,         *)
(* APP-NON-BYPASS-VALID) and an arm of the collapse run (with L2,          *)
(* LAYER-DIVERSITY-VALID).                                                 *)
(*                                                                         *)
(* A request is its streams, the lane it was registered on and what its    *)
(* client saw; "render" marks a form that an open decision let through.    *)
(* A canary journey is its POST, the step that mutates.  The streams are   *)
(* complete (EventChannel) and nothing is judged before the ledger is      *)
(* frozen, so the events of a request are recorded in one step.            *)
(* Latencies, header corpora and the fixed corpus counts are left out.     *)
(***************************************************************************)
EXTENDS RequestLedger

CONSTANTS
    Canary(_),   \* the journeys of a run with (TRUE) or without (FALSE) L2: a set of requests
    Items(_),    \* what else may happen: sets of requests that happen together
    MaxItems     \* how many of them happen in one run

\* Only finitely many requests happen, and of each only finitely many events are kept.
ASSUME LedgerAssumption ==
    \A with \in BOOLEAN : \A item \in Items(with) \union {Canary(with)} :
       /\ IsFiniteSet(item)
       /\ \A q \in item : \A s \in {"plane", "boundary", "app"} : IsFiniteSet(DOMAIN q[s])

Lanes == {"protected", "control", "pre_ingress"} \union RejectedLanes \union PositiveControls

VARIABLES
    l2,       \* whether the plane of this run has L2
    others,   \* the requests recorded besides the canary's
    happened, \* how many items they are
    verdict

ledgerVars == <<l2, others, happened, verdict>>

requests == Canary(l2) \union others

\* A request nobody registered: its nonce is unknown, or its events name none.
Registered == {q \in requests : q.lane \in Lanes}
Strangers == requests \ Registered
On(lanes) == {q \in Registered : q.lane \in lanes}
Protected == On({"protected"})
Journeys(lane) == {q \in On({lane}) : q.journey # 0}

\* Requests that left an event of this kind in a stream, and events of this kind.
Having(R, s, kind) == Cardinality({q \in R : Saw(q[s], kind)})
Recorded(R, s, kind) == UNION {{q} \X {i \in DOMAIN q[s] : q[s][i].k = kind} : q \in R}
Events(R, s, kind) == Cardinality(Recorded(R, s, kind))

-----------------------------------------------------------------------------
(* Anomalies: what the collector says of single requests                   *)

\* ingestFrame(), ingestBoundaryFrame() and ingestAppFrame() for a nonce that was never registered.
Unknown(q) ==
    \/ q.named /\ (q.plane # <<>> \/ q.boundary # <<>>)
    \/ \E e \in Range(q.app) : e.k # "APP_REFUSED"

\* The harness, the plane and the client of one request agree (validateLifecycle(), final).
LifecycleHolds(q, with) ==
    /\ q.client.result # "none"
    /\ q.lane # "protected" => q.plane = <<>>
    /\ q.lane = "control" =>
          /\ Times(q.origin, {"ORIGIN_RECEIVED"}) = 1
          /\ Times(q.origin, {"ORIGIN_COMPLETED", "ORIGIN_ABORTED"}) = 1
    /\ q.lane # "control" => q.origin = <<>>
    /\ q.lane \in RejectedLanes \union {"pre_ingress"} =>
          Times(q.app, {"APP_ADMITTED"} \union AppTerminals) = 0
    /\ q.lane = "protected" =>
          /\ validateLifecycle(q, with)
          /\ q.client.result = "response" /\ Saw(q.plane, "INGRESS_RESPONDED") =>
                q.client.status = ValueOf(q.plane, "INGRESS_RESPONDED")

\* verifyDirect(): one case of the direct corpus behaved exactly as specified.
verifyDirect(q) ==
    CASE q.expect = "parser" ->
           /\ q.boundary = <<>> /\ q.app = <<>>
           /\ q.client.result = "response" => q.client.status \in {400, 431}
      [] q.expect = "positive" ->
           /\ Times(q.app, {"APP_ADMITTED"}) = 1 /\ Times(q.app, {"APP_EXECUTED"}) = 1
           /\ Saw(q.app, "APP_COMPLETED") /\ ValueOf(q.app, "APP_COMPLETED") = 200
           /\ ~Saw(q.app, "APP_MUTATED")
           /\ q.lane = "positive_control_boundary" => Saw(q.boundary, "BOUNDARY_ADMITTED")
           /\ q.lane = "positive_control_app" => q.boundary = <<>>
           /\ q.client.result = "response" /\ q.client.status = 200
      [] q.expect = "none" -> TRUE
      [] OTHER ->
           /\ Times(q.app, {"APP_ADMITTED", "APP_EXECUTED", "APP_MUTATED"}) = 0
           /\ IF q.lane = "direct_boundary_rejected"
              THEN /\ q.app = <<>> /\ ~Saw(q.boundary, "BOUNDARY_ADMITTED")
                   /\ Saw(q.boundary, "BOUNDARY_REJECTED") /\ ValueOf(q.boundary, "BOUNDARY_REJECTED") = q.expect
              ELSE /\ q.boundary = <<>>
                   /\ Saw(q.app, "APP_REFUSED") /\ ValueOf(q.app, "APP_REFUSED") = q.expect
           /\ q.client.result = "response" => q.client.status = 403

\* finalize(): what is said against one request, on a plane with or without L2.
Anomalous(q, with) ==
    IF q.lane \notin Lanes THEN Unknown(q)
    ELSE \/ ~LifecycleHolds(q, with) \/ ~validateOriginLineage(q, q.lane)
         \/ with /\ q.lane = "protected" /\ ~validateL2Lifecycle(q)
         \/ ~verifyDirect(q)

NoAnomalies == \A q \in requests : ~Anomalous(q, l2)

-----------------------------------------------------------------------------
(* Accounting: what must add up over all of them                           *)

\* Protected requests that the plane took as far as this.
In(kind) == Having(Protected, "plane", kind)

\* deriveAccounting(), over the lanes of the first slice.
PlaneIdentities ==
    LET received == {q \in Protected : Saw(q.app, "APP_ADMITTED")}
        resolved == {q \in Protected : terminalOutcomeL2(q.plane) # "unresolved"}
        parserRejected == Cardinality({q \in Strangers : ~q.named /\ Saw(q.plane, "PARSER_REJECTED")})
    IN  /\ Cardinality(Protected) = In("INGRESS_ACCEPTED")
        /\ resolved = Protected
        /\ In("L1_ENTERED") = In("L1_PASSED") + In("L1_REJECTED") + In("L1_SHED") + In("L1_ERROR")
        /\ In("L1_ENTERED") = In("INGRESS_ACCEPTED")
        /\ In("EGRESS_ATTEMPTED") = In("L1_PASSED")
        /\ In("EGRESS_ATTEMPTED") = In("EGRESS_RESPONDED") + In("EGRESS_FAILED")
        /\ Cardinality(received) = In("EGRESS_RESPONDED") + Having(received, "plane", "EGRESS_FAILED")
        /\ Events(Protected, "app", "APP_ADMITTED")
             = Events(Protected, "app", "APP_COMPLETED") + Events(Protected, "app", "APP_ABORTED")
        /\ \A q \in received : Saw(q.plane, "EGRESS_ATTEMPTED")
        /\ Events(On({"control"}), "origin", "ORIGIN_RECEIVED") = Cardinality(On({"control"}))
        /\ Cardinality(On({"pre_ingress"})) = parserRejected
        /\ \A q \in On({"protected", "control", "pre_ingress"}) : q.client.result # "none"

Proceeds(q) ==
    Saw(q.plane, "L2_DECIDED") /\ ValueOf(q.plane, "L2_DECIDED").outcome \in {"admitted", "degraded"}

Dispositions(q) == Times(q.plane, {"L2_ENROLLED", "L2_ENROLL_SKIPPED"})

\* deriveLaneAccounting(): the identities of a plane with L2.  Those about the buckets, the filter
\* and the credit tags are JourneyLanes's.
LaneIdentities ==
    /\ Cardinality(Protected) = In("INGRESS_ACCEPTED")
    /\ \A q \in Protected : terminalOutcomeL2(q.plane) # "unresolved"
    /\ In("L1_ENTERED") = In("INGRESS_ACCEPTED")
    /\ In("L1_ENTERED") = In("L1_PASSED") + In("L1_REJECTED") + In("L1_SHED") + In("L1_ERROR")
    /\ In("L2_ENTERED") = In("L1_PASSED")
    /\ In("L2_DECIDED") = In("L2_ENTERED")
    /\ In("EGRESS_ATTEMPTED") = Cardinality({q \in Protected : Proceeds(q)})
    /\ In("EGRESS_ATTEMPTED") = In("EGRESS_RESPONDED") + In("EGRESS_FAILED")
    /\ \A q \in Protected : Dispositions(q) <= 1 /\ (q.render /\ Proceeds(q) => Dispositions(q) = 1)

\* deriveOriginAccounting(): every hop hands on exactly what it was given, and each process's own
\* counters, which count strangers too, equal what the ledger attributes.
HopIdentities ==
    LET plane(kind) == Having(Protected, "plane", kind)
        boundary(kind) == Having(Protected, "boundary", kind)
        app(kind) == Having(Protected, "app", kind)
        unsigned == {q \in Protected : /\ Saw(q.plane, "EGRESS_ATTEMPTED") /\ Saw(q.plane, "EGRESS_FAILED")
                                       /\ ~Saw(q.plane, "PROOF_ISSUED")}
    IN  /\ plane("EGRESS_ATTEMPTED") = plane("PROOF_ISSUED") + Cardinality(unsigned)
        /\ plane("PROOF_ISSUED") = boundary("BOUNDARY_ADMITTED")
        /\ boundary("BOUNDARY_REJECTED") = 0
        /\ boundary("BOUNDARY_ADMITTED") = boundary("APP_PROOF_ISSUED")
        /\ boundary("APP_PROOF_ISSUED") = app("APP_ADMITTED")
        /\ boundary("BOUNDARY_FORWARDED") = boundary("APP_PROOF_ISSUED")
        /\ app("APP_ADMITTED") = app("APP_EXECUTED")
        /\ app("APP_ADMITTED") = app("APP_COMPLETED") + app("APP_ABORTED")
        /\ boundary("BOUNDARY_FORWARDED")
             = boundary("BOUNDARY_FORWARD_RESPONDED") + boundary("BOUNDARY_FORWARD_FAILED")
        /\ \A q \in Protected : Saw(q.app, "APP_ADMITTED") <=> LedgerLineageComplete(q)

CountersEqualLedger ==
    LET controls == On(PositiveControls)
        attributed(kind) == Events(Protected, "app", kind) + Events(controls, "app", kind)
    IN  /\ \A kind \in {"APP_EXECUTED", "APP_MUTATED"} : Events(requests, "app", kind) = attributed(kind)
        /\ \A kind \in {"APP_ADMITTED", "APP_EXECUTED", "APP_MUTATED"} \union AppTerminals :
              Events(requests, "app", kind) = Events(Registered, "app", kind)
        /\ \A kind \in {"BOUNDARY_ARRIVED", "BOUNDARY_REJECTED", "BOUNDARY_ADMITTED", "APP_PROOF_ISSUED",
                        "BOUNDARY_FORWARDED", "BOUNDARY_FORWARD_RESPONDED", "BOUNDARY_FORWARD_FAILED"}
                         \union BoundaryTerminals :
              Events(requests, "boundary", kind) = Events(Registered, "boundary", kind)
        \* no_anonymous_decisions
        /\ Events(Strangers, "boundary", "BOUNDARY_REJECTED") + Events(Strangers, "app", "APP_REFUSED") = 0

\* What the client of a POST took for success: isRedirect(), and step 4 of runJourney().
SawRedirect(q) == q.client.result = "response" /\ q.client.status = 200 /\ q.client.redirect

Mutations(R) == Events(R, "app", "APP_MUTATED")
LedgerCorrelated == {q \in Protected : Saw(q.app, "APP_MUTATED") /\ LedgerLineageComplete(q)}
ClientObserved == {q \in Journeys("protected") : SawRedirect(q)}

\* Mutant: only the totals are compared.
TotalsAgree == Cardinality(LedgerCorrelated) = Mutations(requests)

\* o2.mutation_ledger_equals_app and o2.mutation_per_record_agreement, of the canary's POSTs.
MutationsAgree ==
    /\ Cardinality(LedgerCorrelated) = Mutations(requests)
    /\ \A q \in Journeys("protected") :
          (q.client.result = "response" /\ q.client.status = 200) <=> Mutations({q}) = 1

ControlMutations ==
    Cardinality({q \in Journeys("control") : SawRedirect(q)}) = Cardinality({q \in On({"control"}) : q.changed})

DirectIdentities ==
    LET boundary == On({"direct_boundary_rejected"})
        app == On({"direct_app_rejected"})
        controls == On(PositiveControls)
    IN  /\ Cardinality(boundary) = Having(boundary, "boundary", "BOUNDARY_REJECTED")
                                     + Cardinality({q \in Registered : q.expect = "parser"})
        /\ Cardinality(app) = Having(app, "app", "APP_REFUSED")
        /\ \A kind \in {"APP_ADMITTED", "APP_EXECUTED", "APP_MUTATED"} : Having(boundary \union app, "app", kind) = 0
        /\ Having(controls, "app", "APP_ADMITTED") = Cardinality({q \in Registered : q.expect = "positive"})
        /\ Having(controls, "app", "APP_EXECUTED") = Having(controls, "app", "APP_ADMITTED")
        /\ Mutations(controls) = 0

OriginIdentities ==
    HopIdentities /\ CountersEqualLedger /\ MutationsAgree /\ ControlMutations /\ DirectIdentities

-----------------------------------------------------------------------------
(* Journeys                                                                *)

\* journeyCompletionRates() against a minimum of 1.
JourneysComplete == \A lane \in {"protected", "control"} :
    Journeys(lane) # {} /\ \A q \in Journeys(lane) : SawRedirect(q)

\* compareParity(): the protected journey is indistinguishable from the control journey.
compareParity ==
    \A c \in Journeys("control") : \E p \in Journeys("protected") : p.journey = c.journey /\ p.client = c.client

\* canaryByPhase(), legitimate_refusals_zero.
NoCanaryRefused ==
    \A q \in Journeys("protected") :
       /\ terminalOutcomeL2(q.plane) \notin {"rejected", "shed", "error", "l2_shed", "l2_error"}
       /\ q.client.status \notin {503, 429}

\* decideOriginVerdict() over deriveAccounting() and deriveOriginAccounting().
decideOriginVerdict ==
    /\ NoAnomalies /\ PlaneIdentities /\ OriginIdentities
    /\ Cardinality(ClientObserved) = Cardinality(LedgerCorrelated) /\ ClientObserved # {}
    /\ JourneysComplete /\ compareParity

\* The gate mutation_reconciled of runArm(): hostile fixtures mutate too, by their own budget.
MutationReconciled ==
    LET hostile == {q \in Protected : q.journey = 0 /\ SawRedirect(q)} IN
    Cardinality(ClientObserved) + Cardinality(hostile) = Cardinality(LedgerCorrelated)

identityGates == NoAnomalies /\ LaneIdentities /\ OriginIdentities

continuityGates == JourneysComplete /\ NoCanaryRefused /\ compareParity

\* The verdict on a collapse run with one arm.
decideCollapseVerdict == identityGates /\ MutationReconciled /\ continuityGates

-----------------------------------------------------------------------------
(* The run                                                                 *)

LedgerInit ==
    /\ l2 \in BOOLEAN
    /\ others = {}
    /\ happened = 0 /\ verdict = "none"

\* sent() .. clientCompleted(), with the frames of the processes in between.
Happen(item) ==
    /\ verdict = "none" /\ happened < MaxItems
    /\ ~(item \subseteq requests)
    /\ others' = others \union item /\ happened' = happened + 1
    /\ UNCHANGED <<l2, verdict>>

JudgeRun ==
    /\ verdict = "none"
    /\ verdict' = IF (IF l2 THEN decideCollapseVerdict ELSE decideOriginVerdict) THEN "valid" ELSE "invalid"
    /\ UNCHANGED <<l2, others, happened>>

LedgerNext ==
    \/ \E item \in Items(l2) : Happen(item)
    \/ JudgeRun

LedgerSpec == LedgerInit /\ [][LedgerNext]_ledgerVars

-----------------------------------------------------------------------------
(* Properties                                                              *)

\* What a run is valid of: the app executed nothing but what came down the whole chain or is a
\* declared positive control, no request was lost or is still open, every journey on either lane
\* ended in the one mutation its client was told of, and no mutation is unaccounted for: without L2
\* each belongs to a journey, with L2 there are as many as clients that were told of one.
Earned ==
    /\ \A q \in requests : Saw(q.app, "APP_EXECUTED") =>
          \/ q.lane = "protected" /\ LedgerLineageComplete(q)
          \/ q.lane \in PositiveControls /\ ~Saw(q.app, "APP_MUTATED")
    /\ \A q \in Protected : terminalOutcomeL2(q.plane) # "unresolved"
    /\ \A q \in Journeys("protected") : SawRedirect(q) /\ Mutations({q}) = 1
    /\ \A q \in Journeys("control") : SawRedirect(q)
    /\ IF l2 THEN Mutations(requests) = Cardinality({q \in Protected : SawRedirect(q)})
             ELSE \A q \in requests : Saw(q.app, "APP_MUTATED") => q.journey # 0

\* No combination of lost answers, false successes, leaks and unattributed work lets a run pass that
\* did not earn it: errors of opposite sign do not cancel in the identities.
VerdictIsEarned == verdict = "valid" => Earned
=============================================================================
