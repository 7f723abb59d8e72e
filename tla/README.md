# Limitmark verification

TLA+ models of the parts of Limitmark whose correctness depends on order: two
invocations that overlap, a process that dies between two writes, an answer that
never arrives, a clock that steps back, a form that is submitted late, a proof that is
presented twice. The models are checked with TLC on small instances, and
the safety properties of the state machines that guard stored data and
what must happen at most once (attempts, permits, commands, receipts) are proved with TLAPS for every
instance.

Paths are relative to the repository root.

## 1. The system

Limitmark takes inquiries from a public web form and lets administrators work on
them. A request passes a signer at the edge, the application server, an admission
authority and a bot check before it is stored; storing it also queues a
notification e-mail. Operators initialize the admission authority and rotate its
release keys with signed commands that travel through a mailbox; what the authority
answers is signed as well and read back by the operator. A defense plane stands in front
of a boundary and a protected application, and a laboratory drives, breaks, measures
and judges it.

| component | state | operations | called by |
|---|---|---|---|
| notification outbox (`src/lib/notification-outbox-repository.ts`, `outbox-processor.ts`, `notification-retry-policy.ts`) and e-mail adapter (`resend-notification-adapter.ts`) | table `notification_outbox` | claimBatch, deliver, markSent, markFailure | the cron route, possibly several invocations at once |
| inquiry creation (`src/lib/inquiry-repository.ts`) | `inquiries`, `inquiry_events`, `notification_outbox` | create (idempotent by submission token) | public inquiry flow |
| public inquiry flow (`src/lib/public-inquiry-flow.server.ts`) | none of its own | claimPre, Turnstile, consumePost, create, in this order | the public form |
| admission client and service (`src/lib/admission-client.server.ts`, `workers/admission-service/service.ts`, `auth.ts`) | configuration of releases | sign and send; authenticate and call the authority | public inquiry flow |
| admission authority (`workers/admission-service/authority.ts`) | SQLite of one Durable Object: `authority_meta`, `active_releases`, `nonces`, `observations`, `lifecycle_receipts` | claimPre, consumePost, cleanup, alarm, initialize, rotate, inspect | admission service, lifecycle executor, settlement |
| dispatch guard and mailbox (`workers/lifecycle-mailbox/*`, `workers/operator-lifecycle-executor.ts`, `operator/lifecycle-submitter.ts`) | SQLite of the guard: claims, latch, settlements; result bucket | process, settle, publish | a schedule, possibly overlapping; operators |
| signed results (`workers/admission-service/authority-attestation*.ts`, `src/lib/authority-result-*.ts`, `operator/authority-result-reader.ts`, `workers/lifecycle-observer.ts`) | result bucket, trust manifest | sign, relay, observe, read | executor, observer, operator |
| signer provisioning (`operator/staging-attestation-*.ts`, `staging-key-protection.ts`) | key files, Worker secrets | generate, derive, submit | operator |
| admin mutations (`src/lib/admin-inquiry-mutation-repository.ts`, `inquiry-status-workflow.ts`) | `inquiries`, `inquiry_events`, `admin_notes` | changeStatus, addNote, archive, restore | server actions of the admin pages |
| admin gateway and authentication (`workers/admin-gateway/gateway.ts`, `src/lib/admin-auth-core.ts`), JWKS cache (`workers/shared/bounded-jwks.ts`) | key cache, refresh in flight, time of the last attempt | verify, forward; getKey, refreshCache | administrators' browsers |
| defense plane (`defense/plane/*`, `defense/core/composer.ts`) | requests under way, bulkheads | one handler per request, closing | clients |
| second layer (`defense/core/lanes.ts`, `credit-filter.ts`) | two buckets, filter generations, use ledger | decide, enroll, record | defense plane |
| hops (`defense/core/hop-admission.ts`, `replay-guard.ts`, `defense/boundary`, `defense/origin`) | replay sets, requests under way | admit, forward, execute | defense plane, anyone on the host |
| event channel, collector, reducer, accounting (`defense/core/ledger.ts`, `lab/defense/collector.ts`, `external-reducer.ts`, `*-accounting.ts`) | queues, windows, ledger of requests, verdict | emit, flush, acknowledge, reduce, finalize | children of a run and the harness |
| collapse run, field level, load engines (`lab/defense/ba0-collapse-run.ts`, `ba0-field-run.ts`, `lab/run.ts`, `lab/load/*`) | arms; level state machine and STOP latch; phases, pace, lease, container | one run | operator of the laboratory |

Interactions: `create` commits the inquiry and its outbox row in one transaction;
the cron route later takes the row. The public flow calls the authority twice and
never retries a consuming call. The mailbox calls the guard, the guard calls the
executor at most once per command, the executor calls the authority; a settlement
reads the authority's receipts and lets the guard accept the next command. The
plane signs a proof for the boundary, the boundary signs one for the application,
and all three emit events over bounded channels to the collector of the run.

What is hard, and what correctness means there:

* **Outbox.** Claims with leases, invocations that overlap or are killed, a
  provider whose answer is lost. Correct: nobody owns a row twice, success is
  never recorded falsely, a late result decides nothing, every row is decided.
* **Public inquiry flow.** Redelivered requests, forms submitted again after a lost
  answer, a commit whose outcome its sender never learns. Correct: one inquiry per
  submission token, created only by a handler that passed every gate itself, a
  thank-you page only for what is stored, handlers that end.
* **Admission.** Replays after the nonce row was pruned, windows of
  different lengths pruned together, a clock that steps back, a service that reads the clock
  before it waits. Correct: a signed request is admitted once, a permit is used
  once and only for its request, quotas hold in every window, and what is recorded is what was signed.
* **Authority lifecycle and its results.** Sequences of rotations, commands presented
  again, answers that are delayed, misplaced or signed with an older key. Correct: receipts are the history,
  exactly one current release, always an active one; what an operator reads was true.
* **Dispatch.** A crash between a write and its reaching the disk, a call that
  executes after its caller died, runs that overlap. Correct: one executor call per
  command, evidence and notes that are true, evidence that arrives.
* **Admin mutations.** Select-then-update under READ COMMITTED, stale forms, keys that rotate.
  Correct: no lost update, events that are the history, no edge outside the
  workflow, no key used longer than lifetime and grace allow.
* **Plane and hops.** Deadlines, disconnects, late verdicts and answers in any order; proofs
  presented twice, body reads that fail, purges, restarts. Correct: event streams the
  validators accept, every place and every credit settled once, no proof admitted twice.
* **Laboratory.** Children that die or hang, events out of order, a STOP at any moment, checks that hang,
  containers that cannot be killed. Correct: no loss becomes silence, no verdict is given
  that was not earned, traffic stops when the lease ends, and every run ends.

`PROJECT.json` lists every component and, under `hazards`, the lines where these
things can go wrong with the properties that would show it.

## 2. Modules

| module | models |
|---|---|
| `Outbox` | the outbox table, the workers and the provider; what the adapter makes of the provider's answers |
| `NotificationPromise` | what the outbox promises: queued, decided once, sent only if accepted |
| `PublicInquiry` | handlers of the public form and the tables they write, around `AdmissionPromise` and `NotificationPromise` |
| `AdmissionPromise` | what the authority promises: a signed nonce is admitted once, and consumed once after that |
| `AdmissionAuthority` | claimPre, consumePost, cleanup and alarm of the authority |
| `AdmissionService` | client, network and service in front of `AdmissionAuthority` |
| `AuthorityLifecycle` | initialization and rotation of the authority by signed commands |
| `LifecycleDispatch` | mailbox runs, dispatch guard, executor and result bucket around an instance of `AuthorityLifecycle` |
| `AttestedResult` | signed results: coordinator, relays, observer and reader, extending `AuthorityLifecycle` |
| `SignerProvisioning` | how the signing key gets from the operator's files into the Worker |
| `AdminInquiry`, `InquiryWorkflow` | administrators' mutations of an inquiry; the status graph they implement |
| `BoundedJwks`, `AdminAccess` | the key cache; gateway and application check around `AdminInquiry` |
| `JourneyLanes` | the second layer with the laboratory's replay of its buckets |
| `DefensePlane` | the front's handler, composers, enrolment and closing |
| `SemanticRequest`, `HopChain` | the closed form of a request; boundary and application with their replay guards |
| `RequestLedger` | the automata the events of a request must follow, and the fields its decision must and must not have |
| `EventChannel`, `ExternalReducer`, `RunLedger` | how a run gets its evidence, what it makes of external requests, how it is judged |
| `CollapseArm` | the predecessor-collapse run |
| `FieldLevel` | a level of the field qualification with its STOP |
| `LoadPolicy`, `LoadEngines`, `LoadRun` | authorisation and limits; open and closed loop; the k6 container and a run of one of the three |
| `MC*` | values of the constants for TLC and, where two systems share a run, which of them moves |
| `*Proofs` | proofs about the module of that name, or about the parts section 5 names |

A definition whose comment begins with "Mutant:" is no part of any specification. It is the next
definition with a plausible mistake in it; putting it in that definition's place
must make a property fail, which `PROJECT.json` lists under `mutants`.

### Outbox

Columns are functions on `Rows`. `claimBatch` is two steps, because a second worker
and the late result of a third can meet the row locks between its SELECT and its
COMMIT: `SelectCandidates` (SKIP LOCKED, ORDER BY, LIMIT) and `CommitClaim`. Each
adapter call is a step (`Deliver`), whose answer and whose effect at the provider
differ when an answer is lost (`Deliveries`: every reply of the provider with whether it took the message),
and each record is a step (`MarkSent`, `MarkFailure`) that re-checks `ownedLease`.
`Crash` ends an invocation anywhere: an open claim rolls back, a committed one waits for its lease.

### PublicInquiry

The k-th delivery of a signed request is handler k, whose `pc` is its place in
`executeVerifiedPublicInquiry`. `wire` holds the call a handler has sent and nobody
has executed: `Timeout`, `LoseCommit` and `Crash` end the handler and leave the call
there, so that it may still be executed when no one listens. An answer that is lost
after the call was executed needs no action of its own: a caller that gave up just before
the execution is in the same state. The authority is `AdmissionPromise`, which
`AdmissionAuthority` implements (`KeepsPromise`), and the outbox is `NotificationPromise`, which
`Outbox` implements. `create` is a transaction: `Insert` waits for an uncommitted row
of the same token (`InsertMayProceed`), `SendCommit` writes the event and the outbox
row, `Commit` is the database's step, and `Rollback` is how the database ends the
transaction of a client that is gone. Messages that ask the visitor to try again
are one answer. All forms of the instance share a token, since different tokens share nothing. `EverythingIsSettled`
says that again and again every delivery has ended and every stored notification is decided; deliveries are
finite, so in the end all of them are.

### AdmissionAuthority and AdmissionService

Each call of the authority is one synchronous transaction and one action. Calls that return before
they write are stuttering steps. `clock` is what `Date.now()` returns inside the
object; `StepBack` lets it go back, which `authorityNow` has to handle. `grants` and
`uses` are histories of the allowed answers and appear in no guard. `FirstAlarm` is
the time of the first cleanup alarm, or `NoTime`: `alarm()` re-arms itself, but
nothing in the repository arms it the first time. In `AdmissionService` a message carries its
MAC as the key it was made with; a request is three steps (`Receive` with the one clock reading, `Authenticate` after
the awaits, and the call), between which releases may be deployed.

### AuthorityLifecycle, LifecycleDispatch and AttestedResult

A command stands for its digest. In `LifecycleDispatch` the code between two awaits
is one step, and `ledger` and `durable` are the guard's tables in memory and on disk:
`sync()` or a flush of the platform makes them equal, `GuardCrash` goes back to
`durable`. A call that was sent is not taken back by the death of its sender: it
becomes an orphan and may still execute (`OrphanExecutes`). The authority inside is
`A == INSTANCE AuthorityLifecycle`, so that a command executes here under exactly the
guards of that module. In `AttestedResult` a signature is the fingerprint of the key that signed exactly this
statement, statements are records with the fields of the code, and `readAuthorityResult` is the operator's whole reader.

### SignerProvisioning

Two invocations of the tools, each killed anywhere; the machine they run on (shell,
configuration files, ACLs, pinned Wrangler) changes between their steps. The checks inside one `derive` or
`revalidate` are one step. The Worker signs with whatever three values it finds.

### AdminInquiry, AdminAccess and BoundedJwks

One row, because mutations of different inquiries share nothing. A page holds the row it
was rendered from; a transaction holds the row its SELECT returned. `Update` takes
its new status and the event's metadata from that copy and compares revision and
status in its WHERE clause, as the code does. `AdminAccess` lets a mutation begin only after gateway and
application each verified the assertion; `BoundedJwks` keeps times as ages cut off above the largest constant they are compared with.

### JourneyLanes

A decision is one synchronous function, hence one step. The clock has `Res` ticks per millisecond,
because buckets read whole milliseconds and epochs begin at the construction of the filter. A token sets bits; a
token whose bits are all set by others is a false positive and is treated as one. `audit` is the laboratory's replay.

### DefensePlane and CollapseArm

An action of `DefensePlane` is what the handler does between two awaits; deadlines, verdicts,
upstream answers, flushes and disconnects are separate actions. `Progress` is what fairness is given to.
A decision is a record with the fields the validators look at: lane, outcome, whether a bucket numbered it (`dt`, `lvl`, `lseq`
together), whether it has a credit tag, what it `spent` or `touched`, and its shadow. `LaneDecisions` are what the lanes may make,
`discard` what the stage makes of a decision that came too late, `Delivered` what an override leaves of it. The validators are
translated whole, and the plane does not always satisfy them: section 4 lists the three kinds of decisions (`Disputed`)
that `l2-lifecycle.ts` rejects. `StreamsAreAccepted` says that these and no others are rejected.
`CollapseArm` is the run of five arms: a control message and a request are ordered only by the plane's
acknowledgement, and the fault message has none, so its crossing the request is an action.

### HopChain

`atB` and `atA` are presentations at the boundary and at the application: an issued
envelope, whole, altered or recombined. A replay set is a set of entries with retention and state; `reserve`
purges first when it is due or the set is full. A process that restarts has an empty set and a later fence.

### Evidence of a run

`EventChannel` has per child a queue, a window and a pipe in both directions; an event is
its number. `ExternalReducer` is given the frames the three processes send about each nonce and
takes them in any order. `RunLedger` records requests whole and computes the verdict. The three share nothing but the frozen ledger, so `MCCollector`
explores one at a time.

### FieldLevel, LoadRun

`FieldLevel` is one event loop with a script (`pc`, `inside`) and events that interleave with its awaits. A round of
canaries is one look at the machine and up to two awaited journeys: in baseline and recovery a control journey
(`StartJourney`, `EndControl`) and then, without another look, the protected one (`EndJourney`). A
reason is "failing" or "operational", what its class decides. `LoadRun` authorises with `LoadPolicy`, then lets one engine of
`LoadEngines`, or the k6 container, run under one clock and turns what it returned into the result.

## 3. Runs

| run | instance | shows |
|---|---|---|
| `outbox` | 2 rows, 2 workers, lease 1, 2 attempts; one late tick or one killed invocation | exclusive leases, counted calls, overruns that are paid for, one call per attempt, live leases not stolen, the newest attempt decides, every row decided, refinement of `NotificationPromise` |
| `admission` | 2 nonces of one client, a second client, two releases, an armed alarm or one step back of the clock; and one request's calls through the service while releases change | single admission and consumption, quotas in every window, answers that are about what was signed, refinement of `AdmissionPromise` |
| `dispatch` | 2 commands, 2 runs, one fault anywhere | one executor call per command, true settlements, notes and evidence, permanent claims, evidence that is published in the end |
| `inquiries` | 3 deliveries of 3 signed requests under one token, one of them with an edited form; and 2 administrators, revisions up to the limit, 2 keys in a cache of one | one authorised inquiry per token, true thank-you pages, rows stored together, handlers that end, notifications that are decided; events are the history, no lost update, refinement of `InquiryWorkflow`, no key used too long, a published key is cached in the end |
| `attested` | an initialization and a rotation (or the release that was there before receipts), 2 slots, 2 nonces, 2 calls, readers whose clock is behind or ahead; 2 provisioning tools, 3 keys, one change of the machine | receipts are the history, one current release, always an active one; every state can be signed and read, what the operator reads is true; a signer holds one key of the custody, and reports are honest |
| `lanes` | 4 tokens that share filter bits, three epochs, buckets of one | the two filters are the window of enrolments, K uses per enrolment, a ledger that never refuses, an audit that replays |
| `plane` | 2 requests with places of one in each bulkhead; a collapse run on its track | streams the validators accept but for the disputed decisions, credit and places settled once, closing drains, an arm that passed has happened |
| `rejected` | the same plane | **violated**: a plane that simulates nothing emits a decision that the validator rejects (section 4) |
| `hops` | 3 requests, 2 presentations at each gate, one slot in each replay set, one restart | no proof admitted twice, nothing executed without its lineage, replay sets that remember and reservations that are being read |
| `channel` | 2 children with queues and windows at their limits; external requests with frames in any order; runs with up to 2 items of evidence | a valid stream is complete, the external lane counts exactly, a valid verdict was earned, every run is judged |
| `field` | one round of journeys in a phase, one external request, a plane that may crash | a level is valid only if earned and leaves nothing behind, the first STOP is final for phases and rounds, every level ends |
| `load` | 9 operator files, 4 limits; 2 phases, 2 closed-loop workers, a container that two kills may not end | traffic stops with the lease, pace and ceilings hold, results are earned, every run ends |

**Bounds.** `MaxLate` is the number of ticks that pass while someone works: one tick
is enough to expire a lease of one under a worker that holds it. `MaxCrashes`,
`MaxFaults` and `MaxChanges`: one fault reaches every single point of failure. The
inductive invariants are proved without these limits. `MaxTime` of the authority
exceeds the retention of nonces plus the freshness of requests, so that a request
can be presented again after its row is gone; windows, retention and lifetimes keep
the order they have in the code (burst window within client window,
`MaxAge + FutureSkew < NonceRetention`). `Capacity`, `GuardCapacity`, `RevisionLimit`,
`ReplayCapacity`, `MaxConcurrent`, queue and window capacities are as small as they can be,
because the interesting case is that they are full; each is reached. Lifetimes are two or three ticks, so that
everything that can expire does. Counters of the laboratory are scaled down by the
same factor in what is sent and what is expected.

**Two systems in one run.** `admission`, `attested`, `plane`, `channel` and `inquiries` explore two or three
systems that share no variable. Their MC module lets one
move while the other is where it began (`...AtRest`), which reaches every state of each and not
the product. `plane` does not explore a collapse run after a gate has failed, `channel` not a ledger after an anomaly:
either settles the result. In `plane` only the reader of the form disconnects by itself; the other client stays until it is
cut off. In `inquiries` the administrators open their pages right after a first fetch, and the key set stands still
from then on; keys rotate and fetches fail in the behaviours where nobody has a page open.
Of the two requests with the same form, `s1` is the one that is delivered first.

**Deadlock.** `outbox` and `dispatch` never stop. The other
runs say `CHECK_DEADLOCK FALSE`: a level, a load run, a judged run and a set of handlers end, and
the clocks of the rest end at a bound (`MaxTime`, `MaxArmTime`).

**Symmetry** is used for tokens, slots, nonces and tools, in runs without liveness.

**Fairness.**
`Outbox`: the scheduler invokes the route again and again, a started
invocation goes on unless it is killed (of which there are finitely many), and time passes while
everyone waits. `PublicInquiry`: a handler goes on unless it is
killed, since every call it waits for has a timeout or ends with its connection; the database executes
what it was sent or rolls back a lost client; the outbox decides its rows, which is what
`outbox` shows. The authority may stay silent for ever. `LifecycleDispatch`: a run that is not killed goes
on, and the schedule comes back to every slot (strong fairness of `Begin`: a slot is
read whenever the schedule fires, and a run can only be busy in between).
`BoundedJwks`: time passes, a fetch ends within its timeout, an issuer that answers again and again
sometimes answers soundly, and administrators keep arriving with a published key, one that stays published. `DefensePlane`: the event loop runs what is due,
timers included, and a socket that was destroyed reports it; clients and the upstream may be silent for ever.
`EventChannel`: timers fire, pipes deliver to processes that live, the harness goes on; a child may hang or die, for which the harness has
deadlines. `FieldLevel`: the script and timers go on; children need not answer. `LoadRun`: the clock and everything that is due
at a time; requests settle within their timeout, the daemon need not answer.

## 4. Observations

What follows was met while modelling; each is behaviour of the code that a comment, a test or a
document describes differently or not at all. The first is checked by a run that expects its violation.

*Decisions the validator rejects.* `l2-lifecycle.ts:41-47` says which fields a decision must carry. Three kinds of decisions of
the plane do not (`Disputed` in `DefensePlane`; no others, which `StreamsAlwaysAccepted` proves):
* An open request whose decision the composer discarded. `l2-stage.ts:93` reports `spent: "open"` although an open
  decision takes nothing, and the event is flagged as "spent or touched on a decision that was not discarded" (`:45`) and as
  "a discarded decision has no lane" (`:46`). It needs no simulation, only a second layer that is late, and is the
  finding of run `rejected`. `lanes.ts:349` counts such a `spent` as unverified while `lane-accounting.ts:117` knows only credited
  and unverified, so the identity at `lane-accounting.ts:202` fails for such a run too.
* A saturation shed that the harness overrides: `front.ts:349` gives it the lane "unverified" without the number of a
  bucket's decision (`:42`).
* A credited shed that the harness overrides: it becomes a credited admission without a tag (`:44`).

*Stored data.*
* The budget of attempts is tested when a failure is recorded, not when a row is claimed
  (`notification-outbox-repository.ts:53`). A killed invocation can add an attempt to the
  "five total attempts" of the documentation; `OverrunIsPaidFor` bounds the excess, and is proved.
* A row can end `failed` although an earlier attempt, whose answer was lost, was accepted.
* A form that was committed after its answer was lost can be told that nothing was transmitted when it is submitted
  again and refused before `create`.
* `authority.ts:361` arms the next alarm only inside `alarm()`: rows of an idle authority stay until the
  next call prunes them; no decision is affected. `cleanup()` deletes at a time it does not write to
  `last_now_ms`: with an armed alarm and a clock corrected backwards a nonce could be admitted again.
  No code arms the alarm, hence `DeletionsAreFinal`.
* `processor.ts:20` looks and puts in two calls and can replace an envelope published in between by its diagnostic (compare `wire.ts:58`);
  the next scheduled run repairs it while the command is fresh (`EvidenceIsPublished`). `lifecycle-observer.ts:26` does the same after `:21`.
* Provisioning killed between the key and its record leaves a private key nobody loads. A zero exit of wrangler is taken as applied here,
  while `staging-attestation-secret-engine.ts:284` says that it is no evidence of the provider's.
* `admission-service/index.ts` keeps the rejected promise of a failed configuration (`handlerPromise ??=`).

*Laboratory.*
* `canaryPhase` looks at the machine once for a round (`ba0-field-run.ts:344`) and awaits the control journey before it starts
  the protected one (`:347-348`): a STOP in that await is followed by a protected journey, while `field-state.ts:58` says that no
  new phase, canary or work may start once a STOP began. `StopIsFinal` promises it of phases and rounds; the interrupted journey is
  recorded as such (`:350`).
* A STOP that is latched before the plane exists marks the ingress as closed (`ba0-field-run.ts:266`), so the closing step
  (`:373`) is skipped and the ingress stays open until the plane is terminated; `advance("DONE")` is swallowed when SNAPSHOT was skipped;
  traffic after the end of the window is noticed only by a tick.
* A load run cut between two phases has no stop reason and is judged PASS with its later phases never run
  (`engine.ts:228`, `run.ts:217`; compare `target-policy.ts:341`), hence the clause `~hard` of
  `ResultIsEarned`. The second expiry check of `sendAuthorized` can make a run REFUSED after traffic (`run.ts:226`).
  A closed loop that reaches its ceiling with one worker can complete while another's transport fails.
* `engine.ts:157` speaks of "roughly maxStaleMs" of traffic after ownership is lost; what holds, and is proved, is three times that: a check
  may have seen the destination long before it answers. `closed-loop.ts:201` says that starts are at least `intervalMs` apart; the slots are, but a worker
  may oversleep its own, so that two sends can be closer.
* The collapse run's fault message has no acknowledgement, only a pause; a late one ends in an invalid run, not in a
  wrong verdict. With the `delay` fault a forward that timed out emits APP_ABORTED and later APP_EXECUTED.
  A sender lost while its proof is being admitted may leave no terminal event (`boundary` registers "close" after the await).
* The external reducer reports anonymously a refusal about a request its ring no longer holds, and flags application events
  after a boundary that ended without FORWARD_RESPONDED as late.

## 5. Proofs

`THEOREM`s hold for all constants that satisfy the named `ASSUME`s of the modules,
which TLC evaluates in every run. Each proof shows that an inductive invariant (`IInv` or a name of its own) holds
initially and is preserved by every action (one lemma per action), and derives the
properties from it. Every one was checked with TLC before it was proved.

* **OutboxProofs.** All safety properties of `outbox` and
  the refinement, with two facts it implies: no false success and terminal rows that are final. `IInv` adds to the properties what a worker holds at each stage, that
  locked candidates stay eligible (so that a claim never steals a live lease), and
  that an attempt number belongs to one job (so that `ownedLease` identifies its
  worker). `BudgetInv`, inductive relative to `IInv`, is the argument for `OverrunIsPaidFor`: a row that is
  worked on has an attempt left, or a living worker holds its lease and the ticks since it read the clock were all late. An
  expired lease therefore leaves an attempt to whoever takes it over, and a worker that is killed pays with its death.
* **AdmissionAuthorityProofs.** `AdmissionsAreSound` and types, under `DeletionsAreFinal`: no alarm was armed
  or the clock does not step back. The core is `GrantInv`: the row of an admitted nonce exists or
  its retention has ended before any time at which the authority will decide again (`Floor`); since retention
  exceeds age plus skew, the nonce is then stale. `AuthorityKeepsPromise` proves the refinement of `AdmissionPromise`
  under the same condition. `WindowsRespected` follows from `KeptInv`: an event has its rows until no window that ends at
  `Floor` or later can count it, so `count()` finds at least what was answered, and an allowed call had room. It needs
  that the burst window is no longer than the client's (`authority.ts:21`: one minute and ten), because rows are pruned
  with the latter. `AdmittedAsSigned` is proved of `ServiceSpec`, the calls that come through the service, without a bound on messages, isolates
  or deployments: rows and answers stand for each other, and a message to consume is about an admission.
* **InquiryProofs.** The public flow: `CreationIsSound`. `FlowInv` adds that a handler that has not
  started left no trace (`ArrivalInv`), what is true while a call is under way, whether its sender
  still lives or not (`CallInv`), and that no two rows, committed or open, share a token (`RowInv`):
  committed rows alone are not inductive, because a commit is executed long after its insert was checked.
  The mutations: the history of events, stale forms that change nothing, and the refinement of
  `InquiryWorkflow`. `CopiesInv`: a copy of the
  row with the row's revision is the row; so what an UPDATE takes from its SELECT is
  true when it writes. `AccessRunsMutations` shows that the application behind gateway and access check runs nothing else.
  `WithdrawnKeysExpire` is the safety half of `KeysAreCurrent`. `KeyInv` follows a key from the issuer: it was published at most a
  fetch before it was cached, and what a waiting call remembers is older by no more than the fetch it waits for.
* **MessagingProofs, the dispatch.** `CommandsRunOnce`, `ReportsAreTrue` and `ClaimsArePermanent`. `IInv` says that the latch is
  the one unsettled claim in memory and on disk, that the disk is never ahead, that
  the insert winner of a command is alone from claim to answer, and that a refused command is
  neither applied nor under way (`Dead`), without which a refusal could turn out false later.
* **MessagingProofs, the event channels.** `StreamsAreWhole`, from `ChannelAssumption` alone (caps and frames hold at least one
  event): any children, any order of frames, acknowledgements, timers, hangs, crashes and kills. `ChannelInv` says of a child that
  lives, or has not started, that each number it gave is dropped and counted, waits in the queue, is on the pipe or was received, and
  is in one of these places only (`Flow`); that the acknowledgements on their way add up to no more than what was received and not yet told
  (`Told`); and of every child, dead ones included, that a ledger without an anomaly is the first numbers in order
  (`Consecutive`). A crash takes the queue and may take frames, so accounting stops with the child, but order does not: a
  ledger is only ever extended, and a gap is an anomaly for good. The frames on a pipe are a sequence of sequences. Their
  numbers are treated as a set (`OnPipe`) whose cardinality a frame that leaves or arrives changes by its length, because a sum
  over the pipe would be an induction over data. What `flush()` sends is shown to be exactly the front of the queue (`FramesWhole`).
* **MessagingProofs, the verdict of a run.** `VerdictIsEarned`, for any requests of which finitely many events were recorded
  (`LedgerAssumption`). The judgement is one step, so the argument is not in an invariant but in the arithmetic of the
  identities: an event kind that a lane may not have makes a count positive; a request with work has a lane that may do it
  (`WorkWhere`); and since the positive controls mutated nothing, each mutation is one of a protected request whose chain is complete
  (`MutationsCorrelated`), so equal totals name the same requests.
* **AttestedResultProofs.** `RotationIsSafe` of the authority alone and among everything around it, and `ResultsAreTrue`.
  `LifecycleInv` says that receipts count the mutations, each applied when it was due, and that the windows of the releases
  leave no gap from the last observed time on. `AttestedInv` adds that every call, stored object and answered nonce carries
  only statements that stay true (`StaysTrue`): receipts are never deleted, and a command reported missing had no receipt
  when the nonce of the report was drawn (`asked`). Only envelopes an authority signed have to be true.
  The module also proves `ProvisioningIsSafe` of the signer's key. `ProvisioningInv` says of each tool what it has done so
  far: a key moves through the custody in one order, generation writes its two files as one pair that nobody else touches
  in between, and while a submission is alone under its lock the signer holds the key of the tool that submits it or what was there before.
* **DefensePathProofs, the hops.** `AdmittedOnceWithLineage` and `GuardsAreExact`. `HopInv` says why a gate takes no proof twice
  (`Spent`): the proof is older than the gate's process, its window is over, or the gate remembers it until past the last
  moment at which the window would accept it; and that an entry is reserved exactly while a living handler holds its ticket.
  Boundary and app are treated apart. The margin of a retention and the tick a process takes to start are what the proof needs.
* **DefensePathProofs, the plane.** `StreamsAreAccepted` and `SettledExactly`, for any requests and bulkheads, from `KindsAssumption`
  (the form's routes are open targets: `core/enrollment.ts:30`, `core/lanes.ts:40`) and `BulkheadAssumption`. `StoryInv` says of a request
  at each point of its handler which kinds it has emitted, each once and in a legal order (`Stream`), so that no step has to recompute
  the automaton over the events: an event is added to a stream whose last kind it may follow. While an answer leaves, the invariant
  remembers by which event it was settled and what was owed for it (`Answered`), whether its observation still waits (`Pending`) or has
  its one disposition (`Disposed`): without it the status of a response and the credit of a late delivery are not inductive. The counters
  are the cardinalities of the running and of the abandoned evaluations, and a request has at most one evaluation of each layer (`RunInv`).
  Every decision the stage can make has the fields of its kind (`Shaped`), so what an override leaves of it is rejected exactly when
  it is one of the three disputed kinds (`Explained`, `DeliveredIsValid`).
* **DefenseLabProofs, the lanes.** `CreditIsExact` and `BucketsReplayExactly`. `LanesInv` has a part for each thing that is remembered:
  the clock, the two filters (each is the window of its epoch's enrolments), the buckets, the use ledger, the uses of an
  enrolment, what was paid for, and the audit. Two arguments carry it. A use record is purged only when its epoch has left
  the window in which its token can still be a member of a filter, so no use is forgotten while it counts. And every record
  of an epoch was paid for from the credited bucket, whose refill bounds what an epoch can pay; a ledger of
  `requiredLedgerCapacity` therefore never refuses a record, whatever the rates are. The replay agrees with the buckets
  because refills compose: two refills in a row are one over the whole time, also when the first was cut at the burst.
  TLC cannot enumerate the ranges in `LanesInv`; it checked a form without them.
* **DefenseLabProofs, the field level.** `LevelIsSound` and `StopIsFinal`. `FieldInv` says where the machine stands at each entry of the script
  while no STOP began (`Course`), so that a STOP can begin until the sequence has closed the ingress and never after it, and a
  phase is left out only after one. What a complete outcome rests on is therefore fixed once the evidence is written, while ticks
  and signals still arrive. The verdict needs that no request is ambiguous and the counts agree, which leaves no stray request.
  The theorems assume nothing about which children may crash, how many canaries run, or how many requests arrive.
* **LabRunProofs, the load run.** `LeaseBoundsTraffic`, `PaceHolds` and `ResultIsEarned`, from `ShapeAssumption` (durations, intervals and
  limits are numbers, no interval is zero, no workload is empty) and `LeaseAssumption`. `LoadInv` has a part for each engine; an
  engine that is not the run's own is still in its initial state. A check that is out is at most two stale periods old, because
  the clock does not pass its timer, and one that saw the destination was asked for before the loss (`LeaseInv`). Every send and
  every sleeping worker holds a slot of its own (`ClosedPaceInv`): a worker may oversleep and overtake another, so the sends so
  far alone are not inductive, and what is counted is the sends and the sleepers due by each later tick. Each attempt is answered,
  lost or on the wire, and one that was cut short is counted on both sides (`AnswersInv`). What the thresholds compute from the
  phases is a fold and stays opaque: `PASS` is proved to imply a whole run, whatever the thresholds say.

* **LabRunProofs, the collapse run.** `PassedArmHappened`, from `CollapseAssumption` (sizes and times are positive and both acknowledgements
  fit into the client's patience), of `CollapseSpec`, whose steps are the collapse steps of `plane`; gates may fail here and the run goes on. The
  gates read counts and outcomes; `CollapseInv` says why these prove what the report claims. An arm that is refused, late or unacknowledged leaves a
  false record, so while every record grants, what a step asks for is armed before its request is sent (`Asking`). The arms used are exactly those
  the requests took (`Taking`). The pipe is ordered, so the answer to the last probe was given after the last arm, and a probe that
  counts as many used as armed says that none is left (`Telling`). Planes of C0r and C0 stay as they were forked (`AsForked`), and in C2p an outcome
  that a fault explains is that of a request that failed (`Traced`).

Only model-checked: all liveness properties, which need fairness and `ENABLED` (`AlwaysServed` is stated for a clock that
does not step back); and `ExternalLaneIsExact`. The external reducer folds bags of events per
request, so what its report says of all of them would be an induction over data, and the property is also about promptness, which holds only
while its ring is large enough for the traffic: `MCCollector` chooses such a ring, the code leaves it to the caller.

## 6. Not modelled

* Signatures, MACs, canonical encodings and size checks beyond what a property tells apart: a signature is the key it was
  made with, an encoding is canonical or not.
* Lanes: the pressure and recovery cycles of the collapse run, which `JourneyLanes` covers without the network. Latencies, percentiles and warm-up
  of the load engines, dropped requests, the restart and database workloads; the first ownership check, which has no time limit.
* Steps of the wall clock inside hops, plane and cache (monotonic or short-lived there); a process takes at least one tick to restart.
* Field levels: which of several reasons was first within its class, the cap of 64 reasons, and external attempts after the drain.
* Provisioning: races of the file system between a check and the spawn it permits, and the deletion of the Worker after its confirmation.
* Admin: page rendering, key resolution inside the library of the application; a gateway timeout is an administrator turned away.
* User interface, deployment checks, static scripts and the content of reports. `PROJECT.json` names them under `components`.

## 7. Plan

`ExternalReducer`: that a lane's verdict does not depend on the order of the events, which is an induction over data today.
