----------------------------- MODULE LoadPolicy -----------------------------
(***************************************************************************)
(* What the load laboratory decides before and beside an engine:           *)
(* lab/policy/target-policy.ts (which run is authorised, and until when),  *)
(* lab/policy/workloads.ts (the reviewed shape), lab/policy/thresholds.ts  *)
(* (when a run must stop and what passes) and the command line of          *)
(* lab/run.ts.  A host is the class of addresses it belongs to; time is    *)
(* counted in ticks from the start of the engine.                          *)
(***************************************************************************)
EXTENDS Naturals, Sequences, FiniteSetsExt

CONSTANTS
  Workloads,     \* the reviewed workload of each engine: phases and ceilings
  CliLimits,     \* the --max-* values an operator may type
  OperatorFiles, \* the sets of target definitions an operator may supply
  MaxLifetime,   \* MAX_REMOTE_TARGET_LIFETIME_HOURS
  Stop, Pass,    \* the threshold set
  K6Wall,        \* ticks a k6 run may take
  MaxTime        \* bound on the clock

VARIABLES
  now,           \* the clock
  request,       \* what the command line asked for
  limits,        \* the effective limits of the authorised run
  until,         \* authorizedUntilMs; Never for a local target
  result         \* the result the run reports

policyVars == <<request, limits, until>>

None == "none"
Never == MaxTime + 1
Engines == {"http", "http-closed-loop", "k6"}

-----------------------------------------------------------------------------
(* Targets: [id, class, host, methods, paths, disposable, expires].        *)

POST_PATHS == {"/api/public-inquiries"}
LAB_PATH_CATALOGUE == {"/"} \union POST_PATHS
DeniedPaths == {"/admin", "/v1", "/api/cron"}

isLiveLimitmarkHost(h) == h \in {"live domain", "admission-rpc label"}
isProviderInfrastructureHost(h) == h \in {"provider domain", "provider range"}
isLoopbackLiteral(h) == h = "loopback"
parseIpv4(h) == h \in {"loopback", "address", "reserved", "provider range"}
forbiddenRemoteAddress(h) == h \in {"loopback", "reserved"}

BUILTIN_TARGETS ==
  {[id |-> "local", class |-> "lab-local", host |-> "loopback", methods |-> {"GET", "POST"},
    paths |-> LAB_PATH_CATALOGUE, disposable |-> FALSE, expires |-> Never]}

\* A definition is refused unless it is plainly a disposable lab target.
validateTargetDefinition(t) ==
  /\ ~isLiveLimitmarkHost(t.host) /\ ~isProviderInfrastructureHost(t.host)
  /\ \/ /\ t.class = "lab-local" /\ isLoopbackLiteral(t.host)
        /\ ~t.disposable /\ t.expires = Never
     \/ /\ t.class = "lab-remote" /\ parseIpv4(t.host) /\ ~forbiddenRemoteAddress(t.host)
        /\ t.disposable /\ t.expires > now /\ t.expires - now <= MaxLifetime
  /\ t.paths # {} /\ t.paths \subseteq LAB_PATH_CATALOGUE
  /\ "POST" \in t.methods => t.paths \intersect POST_PATHS # {}

\* One invalid or repeated definition fails the whole load.
buildRegistry(definitions) ==
  /\ \A t \in BUILTIN_TARGETS \union definitions : validateTargetDefinition(t)
  /\ \A t, u \in BUILTIN_TARGETS \union definitions : t.id = u.id => t = u

checkPath(path) == path \notin DeniedPaths

\* One request of a workload to a target.
authorizeOne(t, w, method, path) ==
  /\ ~isLiveLimitmarkHost(t.host) /\ ~isProviderInfrastructureHost(t.host)
  /\ method \in t.methods /\ path \in t.paths /\ checkPath(path)
  /\ method = "POST" => path \in POST_PATHS
  /\ <<method, path>> \in w.requests

\* The command line: a target of the registry, the tree and the options.
Requests == [engine : Engines, definitions : OperatorFiles, target : {"local", "remote"},
             clean : BOOLEAN, proven : BOOLEAN, plain : BOOLEAN, guarded : BOOLEAN, cli : CliLimits]

Registered(r) == \E t \in BUILTIN_TARGETS \union r.definitions : t.id = r.target
TargetOf(r) == CHOOSE t \in BUILTIN_TARGETS \union r.definitions : t.id = r.target
remote(r) == TargetOf(r).class = "lab-remote"

-----------------------------------------------------------------------------
\* Rate times duration; a phase never emits more.
PhaseCap(p) == p.duration \div p.interval
plannedEnvelope(phases) ==
  [interval |-> Min({phases[i].interval : i \in DOMAIN phases}),
   concurrency |-> Max({phases[i].concurrency : i \in DOMAIN phases}),
   duration |-> MapThenSumSet(LAMBDA i : phases[i].duration, DOMAIN phases),
   total |-> MapThenSumSet(LAMBDA i : PhaseCap(phases[i]), DOMAIN phases)]

\* The catalogue is refused at load when a workload exceeds its reviewed ceilings.
validateWorkloadCatalogue(w) ==
  LET planned == plannedEnvelope(w.phases) IN
  /\ planned.interval >= w.ceilings.interval
  /\ planned.concurrency <= w.ceilings.concurrency
  /\ planned.duration <= w.ceilings.duration
  /\ planned.total <= w.ceilings.total

\* A phase, and the shape of a reviewed workload and of the values an operator may type.
Rules == {"measured", "health"}
Phases == [duration : Nat, interval : Nat \ {0}, concurrency : Nat, timeout : Nat, rule : Rules]
ASSUME ShapeAssumption ==
  /\ \A e \in Engines : /\ Workloads[e].phases \in Seq(Phases) /\ Workloads[e].phases # << >>
                        /\ Workloads[e].ceilings.concurrency \in Nat
  /\ CliLimits \subseteq [interval : Nat, concurrency : Nat, duration : Nat]
  /\ MaxTime \in Nat

ASSUME WorkloadAssumption == \A e \in Engines : validateWorkloadCatalogue(Workloads[e])

-----------------------------------------------------------------------------
\* A limit may only lower what was reviewed; several phases run their full duration.
LimitsAccepted(w, cli) ==
  /\ cli.interval >= w.ceilings.interval
  /\ cli.concurrency \in 1 .. w.ceilings.concurrency
  /\ cli.duration \in 1 .. w.ceilings.duration
  /\ cli.duration < w.ceilings.duration => Len(w.phases) = 1

LoweredPhase(p, cli) ==
  [p EXCEPT !.duration = Min({@, cli.duration}), !.interval = Max({@, cli.interval}),
            !.concurrency = Min({@, cli.concurrency})]

applyCliLimits(w, cli) ==
  LET phases == [i \in DOMAIN w.phases |-> LoweredPhase(w.phases[i], cli)] IN
  [phases |-> phases, duration |-> cli.duration,
   total |-> Min({w.ceilings.total, plannedEnvelope(phases).total})]

\* A lab-local run needs a destination the lab itself established.
checkDestinationProof(r) == ~remote(r) /\ r.engine # "http-closed-loop" => r.proven

\* A level is run exactly as reviewed; --app-container is for the open loop, whatever its target.
OptionsAccepted(r) ==
  /\ r.plain
  /\ r.engine = "http-closed-loop" => r.cli = [f \in DOMAIN r.cli |-> Workloads[r.engine].ceilings[f]]
  /\ r.guarded => r.engine = "http"

\* Every request the workload can issue is authorised before any of them is made.
authorizeRun(r) ==
  LET t == TargetOf(r)
      w == Workloads[r.engine]
  IN /\ now < t.expires
     /\ remote(r) => r.clean
     /\ LimitsAccepted(w, r.cli)
     /\ r.engine = "http-closed-loop" => remote(r)
     /\ \A q \in w.requests : authorizeOne(t, w, q[1], q[2])

K6MayFinish(r) ==
  LET expiry == TargetOf(r).expires IN r.engine = "k6" => expiry = Never \/ now + K6Wall <= expiry

Acceptable(r) ==
  /\ buildRegistry(r.definitions) /\ Registered(r)
  /\ OptionsAccepted(r) /\ authorizeRun(r) /\ checkDestinationProof(r) /\ K6MayFinish(r)

\* Authorisation is a property of the whole run.
StillAuthorized(t) == t < until

-----------------------------------------------------------------------------
(* Thresholds.  An answer is good, late (beyond the latency thresholds) or *)
(* failed; with fewer samples than a percentile resolves, one late answer  *)
(* is the percentile.                                                      *)

Outcomes == {"good", "late", "failed"}
One(b) == IF b THEN 1 ELSE 0
NoHealth == [measured |-> 0, failed |-> 0, consecutive |-> 0, late |-> FALSE]
Observe(h, outcome) ==
  [measured |-> h.measured + 1, failed |-> h.failed + One(outcome = "failed"),
   consecutive |-> IF outcome = "failed" THEN h.consecutive + 1 ELSE 0, late |-> h.late \/ outcome = "late"]

evaluateStop(h) ==
  \/ h.consecutive >= Stop.consecutive
  \/ /\ h.measured >= Stop.afterSamples
     /\ h.failed * 100 >= Stop.errorPercent * h.measured \/ h.late

evaluateHttpPass(stats) ==
  LET Measured == {i \in DOMAIN stats : stats[i].rule = "measured"}
      Total(f) == MapThenSumSet(LAMBDA i : stats[i][f], Measured)
  IN /\ \A i \in DOMAIN stats : stats[i].rule = "health" => stats[i].attempted > 0 /\ stats[i].failed = 0
     /\ Measured # {} => Total("attempted") >= Pass.minSamples
     /\ Total("failed") * 100 <= Pass.errorPercent * Total("attempted")
     /\ \A i \in Measured : ~stats[i].late
=============================================================================
