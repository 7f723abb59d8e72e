--------------------------- MODULE RequestLedger ---------------------------
(***************************************************************************)
(* What the events of one request must look like: the closed automata of   *)
(* the three processes and the rules that relate their streams             *)
(* (defense/core/ledger.ts, lineage.ts, l2-lifecycle.ts).                  *)
(*                                                                         *)
(* An event is [k, v]: its kind and the one further field a rule reads (a  *)
(* status, a decision, a cause; of a hop's admission, one tag for the hop  *)
(* number and the proofs it rests on).  Sequence numbers are EventChannel's, *)
(* how the proofs come to be HopChain's.                                   *)
(*                                                                         *)
(* A decision of L2 has its lane and outcome; numbered, when it carries    *)
(* the bucket's clock, level and number; tag, when it carries a credit tag; *)
(* the lane on which a discarded evaluation spent or touched; and its      *)
(* shadow, the outcome and lane it had before it was simulated.  Basis and *)
(* shadow are set together; the reason of a shed follows from its lane.    *)
(***************************************************************************)
EXTENDS Integers, Sequences, FiniteSets, SequencesExt

Terminals == {"INGRESS_RESPONDED", "INGRESS_ABORTED"}
Verdicts  == {"L1_PASSED", "L1_REJECTED", "L1_SHED", "L1_ERROR"}

NEXT_PLANE_KINDS_L2(kind) ==
    CASE kind = "START"            -> {"INGRESS_ACCEPTED"}
      [] kind = "INGRESS_ACCEPTED" -> {"L1_ENTERED"}
      [] kind = "L1_ENTERED"       -> Verdicts
      [] kind = "L1_PASSED"        -> {"L2_ENTERED"}
      [] kind = "L2_ENTERED"       -> {"L2_DECIDED"}
      [] kind = "L2_DECIDED"       -> {"EGRESS_ATTEMPTED"} \union Terminals
      [] kind = "EGRESS_ATTEMPTED" -> {"PROOF_ISSUED", "EGRESS_RESPONDED", "EGRESS_FAILED"}
      [] kind = "PROOF_ISSUED"     -> {"EGRESS_RESPONDED", "EGRESS_FAILED"}
      [] kind = "EGRESS_RESPONDED" -> {"L2_ENROLLED", "L2_ENROLL_SKIPPED"} \union Terminals
      [] kind = "EGRESS_FAILED"    -> {"L2_ENROLL_SKIPPED"} \union Terminals
      [] kind \in Terminals        -> {}
      [] OTHER                     -> Terminals

\* Without L2: a pass goes straight to egress, and no L2 event is legal.
NEXT_PLANE_KINDS(kind) ==
    CASE kind = "L1_PASSED" -> {"EGRESS_ATTEMPTED"}
      [] kind \in {"EGRESS_RESPONDED", "EGRESS_FAILED"} -> Terminals
      [] kind \in {"L2_ENTERED", "L2_DECIDED", "L2_ENROLLED", "L2_ENROLL_SKIPPED"} -> {}
      [] OTHER -> NEXT_PLANE_KINDS_L2(kind)

BoundaryTerminals == {"BOUNDARY_RESPONDED", "BOUNDARY_ABORTED"}

NEXT_BOUNDARY_KINDS(kind) ==
    CASE kind = "START"              -> {"BOUNDARY_ARRIVED"}
      [] kind = "BOUNDARY_ARRIVED"   -> {"BOUNDARY_REJECTED", "BOUNDARY_ADMITTED"}
      [] kind = "BOUNDARY_ADMITTED"  -> {"APP_PROOF_ISSUED"} \union BoundaryTerminals
      [] kind = "APP_PROOF_ISSUED"   -> {"BOUNDARY_FORWARDED"}
      [] kind = "BOUNDARY_FORWARDED" -> {"BOUNDARY_FORWARD_RESPONDED", "BOUNDARY_FORWARD_FAILED"}
      [] kind \in {"BOUNDARY_REJECTED", "BOUNDARY_FORWARD_RESPONDED", "BOUNDARY_FORWARD_FAILED"}
                                     -> BoundaryTerminals
      [] OTHER                       -> {}

AppTerminals == {"APP_COMPLETED", "APP_ABORTED"}

NEXT_APP_KINDS(kind) ==
    CASE kind = "START"        -> {"APP_ADMITTED", "APP_REFUSED"}
      [] kind = "APP_ADMITTED" -> {"APP_EXECUTED"} \union AppTerminals
      [] kind = "APP_EXECUTED" -> {"APP_MUTATED"} \union AppTerminals
      [] kind = "APP_MUTATED"  -> AppTerminals
      [] OTHER                 -> {}

\* automaton(): every event is a legal successor of the one before it.
automaton(kinds, successors(_)) ==
    \A i \in DOMAIN kinds : kinds[i] \in successors(IF i = 1 THEN "START" ELSE kinds[i - 1])

-----------------------------------------------------------------------------
(* One request: its plane, boundary and app streams                        *)

KindsOf(stream) == [i \in DOMAIN stream |-> stream[i].k]
Saw(stream, kind) == kind \in Range(KindsOf(stream))
ValueOf(stream, kind) == stream[CHOOSE i \in DOMAIN stream : stream[i].k = kind].v
Times(stream, kinds) == Cardinality({i \in DOMAIN stream : stream[i].k \in kinds})

\* terminalOutcomeL2(), with terminalOutcome() for what L2 did not refuse.
terminalOutcomeL2(plane) ==
    LET refusal == IF Saw(plane, "L2_DECIDED") THEN ValueOf(plane, "L2_DECIDED").outcome ELSE "none"
    IN  IF Saw(plane, "INGRESS_ABORTED") THEN "client_aborted"
        ELSE IF ~Saw(plane, "INGRESS_RESPONDED") THEN "unresolved"
        ELSE IF refusal = "shed" THEN "l2_shed"
        ELSE IF refusal = "error" THEN "l2_error"
        ELSE IF Saw(plane, "L1_REJECTED") THEN "rejected"
        ELSE IF Saw(plane, "L1_SHED") THEN "shed"
        ELSE IF Saw(plane, "L1_ERROR") THEN "error"
        ELSE IF Saw(plane, "EGRESS_FAILED") THEN "egress_failed"
        ELSE IF Saw(plane, "EGRESS_RESPONDED") THEN "proxied"
        ELSE "unresolved"

\* planeStatusFor(): the status the client must have been given.
StatusOwed(plane) ==
    IF Saw(plane, "L1_REJECTED") THEN ValueOf(plane, "L1_REJECTED")
    ELSE IF Saw(plane, "L1_SHED") \/ Saw(plane, "L1_ERROR") THEN 503
    ELSE IF Saw(plane, "L2_DECIDED") /\ ValueOf(plane, "L2_DECIDED").outcome \in {"shed", "error"} THEN 503
    ELSE IF Saw(plane, "EGRESS_FAILED") THEN IF ValueOf(plane, "EGRESS_FAILED") = "timeout" THEN 504 ELSE 502
    ELSE ValueOf(plane, "EGRESS_RESPONDED")

\* validateLifecycle(), final, of a request to the plane: one legal plane stream to its end, and an
\* app that agrees with it.
validateLifecycle(q, l2) ==
    LET origin == SelectSeq(KindsOf(q.app), LAMBDA k : k \in {"APP_ADMITTED"} \union AppTerminals)
    IN  /\ IF l2 THEN automaton(KindsOf(q.plane), NEXT_PLANE_KINDS_L2)
                 ELSE automaton(KindsOf(q.plane), NEXT_PLANE_KINDS)
        /\ q.plane # <<>> /\ Last(q.plane).k \in Terminals
        /\ Times(q.plane, Verdicts) <= 1
        /\ Times(q.app, {"APP_ADMITTED"}) <= 1 /\ Times(q.app, AppTerminals) <= 1
        /\ origin # <<>> => Head(origin) = "APP_ADMITTED"
        /\ Saw(q.app, "APP_ADMITTED") => Saw(q.plane, "EGRESS_ATTEMPTED")
        /\ Saw(q.plane, "EGRESS_RESPONDED") =>
              /\ Saw(q.app, "APP_ADMITTED") /\ Times(q.app, AppTerminals) > 0
              /\ Saw(q.app, "APP_COMPLETED") =>
                    ValueOf(q.app, "APP_COMPLETED") = ValueOf(q.plane, "EGRESS_RESPONDED")
        /\ Saw(q.plane, "INGRESS_RESPONDED") =>
              ValueOf(q.plane, "INGRESS_RESPONDED") = StatusOwed(q.plane)

\* The chain behind an admission by the app, each link naming the same hop and proof.
Chained(q, root) ==
    /\ Saw(q.boundary, "BOUNDARY_ADMITTED") /\ Saw(q.boundary, "APP_PROOF_ISSUED") /\ Saw(q.app, "APP_ADMITTED")
    /\ ValueOf(q.boundary, "BOUNDARY_ADMITTED") = root
    /\ ValueOf(q.boundary, "APP_PROOF_ISSUED") = root
    /\ ValueOf(q.app, "APP_ADMITTED") = root

LedgerLineageComplete(q) ==
    /\ Saw(q.plane, "EGRESS_ATTEMPTED") /\ Saw(q.plane, "PROOF_ISSUED")
    /\ Chained(q, ValueOf(q.plane, "PROOF_ISSUED"))

\* The lineage that entitles the app to admit a request of this lane.
Lineage(q, lane) ==
    CASE lane = "protected"                 -> LedgerLineageComplete(q)
      [] lane = "positive_control_boundary" -> /\ Saw(q.boundary, "BOUNDARY_ADMITTED")
                                               /\ Chained(q, ValueOf(q.boundary, "BOUNDARY_ADMITTED"))
      [] OTHER                              -> q.boundary = <<>> /\ Saw(q.app, "APP_ADMITTED")

PositiveControls == {"positive_control_boundary", "positive_control_app"}
RejectedLanes == {"direct_boundary_rejected", "direct_app_rejected"}

\* What a direct attempt may leave behind: refusals.
OnlyRefused(q, lane) ==
    /\ lane = "direct_app_rejected" => q.boundary = <<>>
    /\ Times(q.boundary, {"BOUNDARY_ADMITTED", "APP_PROOF_ISSUED"}) = 0
    /\ Times(q.app, {"APP_ADMITTED", "APP_EXECUTED", "APP_COMPLETED", "APP_MUTATED"}) = 0

\* What the boundary and the plane say of each other, for a request that came through the plane.
HopsMatch(q) ==
    /\ Saw(q.plane, "EGRESS_ATTEMPTED") => Saw(q.plane, "PROOF_ISSUED") \/ Saw(q.plane, "EGRESS_FAILED")
    /\ ~Saw(q.boundary, "BOUNDARY_REJECTED")
    /\ Saw(q.boundary, "BOUNDARY_ADMITTED") =>
          /\ Saw(q.plane, "EGRESS_ATTEMPTED") /\ Saw(q.plane, "PROOF_ISSUED")
          /\ ValueOf(q.boundary, "BOUNDARY_ADMITTED") = ValueOf(q.plane, "PROOF_ISSUED")
    /\ Saw(q.plane, "EGRESS_RESPONDED") => Saw(q.boundary, "BOUNDARY_ADMITTED")

\* validateOriginLineage(), final: nothing reached the app but by the whole chain of admissions.
validateOriginLineage(q, lane) ==
    LET entered   == Saw(q.app, "APP_ADMITTED")
        executed  == Saw(q.app, "APP_EXECUTED")
        forwarded == Saw(q.boundary, "BOUNDARY_FORWARD_RESPONDED")
    IN  /\ automaton(KindsOf(q.boundary), NEXT_BOUNDARY_KINDS)
        /\ automaton(KindsOf(q.app), NEXT_APP_KINDS)
        /\ Times(q.app, {"APP_MUTATED"}) <= 1
        /\ CASE lane \in {"control", "pre_ingress"} -> q.boundary = <<>> /\ q.app = <<>>
             [] lane \in RejectedLanes -> OnlyRefused(q, lane)
             [] OTHER ->
                  /\ lane = "protected" => HopsMatch(q)
                  /\ lane = "positive_control_app" => q.boundary = <<>>
                  /\ lane \in PositiveControls => entered
                  /\ entered => Lineage(q, lane) /\ Times(q.app, AppTerminals) > 0
                  /\ executed => entered
                  /\ Saw(q.app, "APP_MUTATED") => executed
                  /\ q.boundary # <<>> =>
                        /\ Times(q.boundary, {"BOUNDARY_REJECTED", "BOUNDARY_ADMITTED"}) > 0
                        /\ Times(q.boundary, BoundaryTerminals) > 0
                  /\ ~(Saw(q.boundary, "APP_PROOF_ISSUED") /\ ~entered /\ Saw(q.app, "APP_REFUSED"))
                  /\ forwarded => entered
                  /\ forwarded /\ Saw(q.app, "APP_COMPLETED") =>
                        ValueOf(q.boundary, "BOUNDARY_FORWARD_RESPONDED") = ValueOf(q.app, "APP_COMPLETED")

-----------------------------------------------------------------------------
(* The rules of L2                                                         *)

BucketLanes == {"credited", "unverified"}
Natural == <<"none", "none">>    \* the shadow of a decision that was not simulated

proceeds(d) == d.outcome \in {"admitted", "degraded"}

\* The closed matrix of class, lane and outcome.
isValidDecision(class, d) ==
    IF class = "open" THEN d.lane = "open" /\ proceeds(d)
    ELSE \/ d.lane \in BucketLanes /\ d.outcome \in {"admitted", "shed"}
         \/ d.lane = "none" /\ d.outcome \in {"shed", "error"}

\* Which of its further fields a decision must carry, and which it must not.
FieldsAccepted(d) ==
    /\ d.lane \in BucketLanes => d.numbered
    /\ d.lane = "open" => ~d.numbered
    /\ (d.lane = "credited" /\ d.outcome = "admitted") <=> d.tag
    /\ d.spent # "none" \/ d.touched # "none" => d.outcome \in {"error", "shed"} /\ d.lane = "none"

\* The disposition of a render agrees with its decision; reason is that of a skipped enrolment.
SkipAccepted(d, simulated, reason) ==
    /\ reason = "degraded" <=> d.outcome = "degraded"
    /\ reason = "simulated" => simulated

EnrolmentAccepted(d, simulated, responded) == ~simulated /\ d.outcome = "admitted" /\ responded

\* validateL2Lifecycle(), final: both layers were passed, and egress follows the decision.  Of the
\* events of this form only a decision says that it was simulated.
validateL2Lifecycle(q) ==
    LET attempted == Saw(q.plane, "EGRESS_ATTEMPTED")
        decided   == Saw(q.plane, "L2_DECIDED")
        d         == ValueOf(q.plane, "L2_DECIDED")
        disposed  == Times(q.plane, {"L2_ENROLLED", "L2_ENROLL_SKIPPED"})
    IN  /\ attempted => Saw(q.plane, "L1_ENTERED") /\ Saw(q.plane, "L2_ENTERED")
        /\ Times(q.plane, {"L2_DECIDED"}) <= Times(q.plane, {"L2_ENTERED"})
        /\ Saw(q.plane, "L2_ENTERED") => decided \/ Saw(q.plane, "INGRESS_ABORTED")
        /\ decided =>
              /\ isValidDecision(d.class, d) /\ FieldsAccepted(d)
              /\ IF proceeds(d) THEN attempted \/ Saw(q.plane, "INGRESS_ABORTED") ELSE ~attempted
        /\ disposed <= 1
        /\ disposed > 0 => decided /\ d.class = "open" /\ proceeds(d)
        /\ Saw(q.plane, "L2_ENROLLED") =>
              EnrolmentAccepted(d, d.shadow # Natural, Saw(q.plane, "EGRESS_RESPONDED"))
        /\ Saw(q.plane, "L2_ENROLL_SKIPPED") =>
              SkipAccepted(d, d.shadow # Natural, ValueOf(q.plane, "L2_ENROLL_SKIPPED"))
=============================================================================
