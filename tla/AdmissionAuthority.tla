------------------------- MODULE AdmissionAuthority -------------------------
(***************************************************************************)
(* The admission authority: one Durable Object with a SQLite store whose   *)
(* claimPre, consumePost and cleanup are one synchronous transaction each. *)
(* It admits a signed request once (nonce), hands out a permit for it,     *)
(* consumes the permit once, and keeps rolling-window quotas.              *)
(*                                                                         *)
(* A table is a set of rows.  The object's clock normally advances; it may *)
(* also be observed stepping back, which authorityNow() handles.  A call   *)
(* that is refused before its transaction writes anything is a stuttering  *)
(* step and has no action.                                                 *)
(***************************************************************************)
EXTENDS Integers, FiniteSets

CONSTANTS
    Nonces,          \* nonces of signed requests
    Clients,         \* client pseudonyms, each standing for its request binding
    ClientOf,        \* the client a nonce was signed for
    IssueTimes,      \* issuedAtMs values the signer may have put in a request
    Releases,        \* the active_releases rows: [id, activated, retired]
    Policy,          \* admissionPolicy
    PermitLifetime,  \* PRE_PERMIT_LIFETIME_MS
    NonceRetention,  \* NONCE_RETENTION_MS
    MaxAge,          \* INGRESS_MAX_AGE_MS
    FutureSkew,      \* INGRESS_FUTURE_SKEW_MS
    CleanupRows,     \* maximumRows of cleanup()
    AlarmPeriod,     \* the delay alarm() re-arms itself with
    FirstAlarm,      \* when the first alarm is due, NoTime if none is ever set
    MaxTime,         \* bound: last time at which a call arrives
    Horizon,         \* bound: last time of the clock
    MaxStepsBack     \* bound: how often the clock may be seen stepping back

NoTime == -1

ReleaseIds == {r.id : r \in Releases}
Windows    == [limit : Nat, window : Nat]

ASSUME InputsAssumption ==
    /\ ClientOf \in [Nonces -> Clients]
    /\ IssueTimes \subseteq Nat
    /\ \A r \in Releases : r.activated \in Nat /\ r.retired \in Nat \union {NoTime}
ASSUME PolicyAssumption ==
    Policy \in [pre  : [client : Windows, clientBurst : Windows, global : Windows],
                post : [client : Windows, global : Windows]]
\* A burst is counted among rows that are kept for the client's window.
ASSUME BurstAssumption == Policy.pre.clientBurst.window <= Policy.pre.client.window
ASSUME TimesAssumption ==
    /\ PermitLifetime \in Nat /\ NonceRetention \in Nat
    /\ MaxAge \in Nat /\ FutureSkew \in Nat
    /\ MaxAge + FutureSkew < NonceRetention
    /\ CleanupRows \in Nat \ {0} /\ AlarmPeriod \in Nat
    /\ FirstAlarm \in Nat \union {NoTime}
    /\ MaxTime \in Nat /\ Horizon \in Nat /\ MaxStepsBack \in Nat

VARIABLES
    clock,         \* what Date.now() returns inside the object
    lastNow,       \* authority_meta.last_now_ms
    nonces,        \* rows of table nonces
    observations,  \* rows of table observations
    alarmAt,       \* the pending alarm of the object, or NoTime
    issuedAt,      \* issuedAtMs of each signed request, fixed by the signer
    nextId,        \* random row ids and permits: fresh on every allowed call
    grants,        \* history: allowed claimPre answers
    uses,          \* history: allowed consumePost answers
    stepsBack      \* consumption of MaxStepsBack

store == <<lastNow, nonces, observations>>
vars  == <<clock, store, alarmAt, issuedAt, nextId, grants, uses, stepsBack>>

-----------------------------------------------------------------------------
\* Mutant: time that went backwards is not refused.
AuthorityNowUnordered(rel) ==
    \E r \in Releases : /\ r.id = rel
                        /\ r.activated <= clock
                        /\ r.retired = NoTime \/ r.retired > clock

\* authorityNow(): the clock has not stepped behind last_now_ms and the
\* release is active at the observed time.
AuthorityNow(rel) ==
    /\ clock >= lastNow
    /\ \E r \in Releases : /\ r.id = rel
                           /\ r.activated <= clock
                           /\ r.retired = NoTime \/ r.retired > clock

\* assertIngressFresh().
Fresh(n, t) ==
    /\ issuedAt[n] <= t + FutureSkew
    /\ issuedAt[n] >= t - MaxAge

\* Mutant: every observation is pruned with the global window of its stage.
ExpiredByGlobalWindow(o, t) == o.at <= t - Policy[o.stage].global.window

Expired(o, t) == o.at <= t - Policy[o.stage][o.scope].window

\* prune(): what a transaction at time t leaves of the two tables.
LiveObservations(t) == {o \in observations : ~Expired(o, t)}
LiveNonces(t)       == {row \in nonces : row.retainUntil > t}

\* count(): observations of one subject in the window (t - window, t].
CountIn(stage, scope, subject, window, t) ==
    Cardinality({o \in LiveObservations(t) :
                   /\ o.stage = stage /\ o.scope = scope /\ o.subject = subject
                   /\ o.at > t - window /\ o.at <= t})

PreLimited(c, t) ==
    LET p == Policy.pre IN
    \/ CountIn("pre", "client", c, p.clientBurst.window, t) >= p.clientBurst.limit
    \/ CountIn("pre", "client", c, p.client.window, t) >= p.client.limit
    \/ CountIn("pre", "global", "*", p.global.window, t) >= p.global.limit

PostLimited(c, t) ==
    LET p == Policy.post IN
    \/ CountIn("post", "client", c, p.client.window, t) >= p.client.limit
    \/ CountIn("post", "global", "*", p.global.window, t) >= p.global.limit

Observation(id, stage, scope, subject, t) ==
    [id |-> id, stage |-> stage, scope |-> scope, subject |-> subject, at |-> t]

\* The client and the global row an allowed call inserts.
Observed(stage, c, t) ==
    {Observation(nextId, stage, "client", c, t), Observation(nextId, stage, "global", "*", t)}

-----------------------------------------------------------------------------
\* initializeAuthority() has run: the sentinel row exists, the tables are empty.
Init ==
    /\ clock = 0
    /\ lastNow = 0
    /\ nonces = {}
    /\ observations = {}
    /\ alarmAt = FirstAlarm
    /\ issuedAt \in [Nonces -> IssueTimes]
    /\ nextId = 0
    /\ grants = {}
    /\ uses = {}
    /\ stepsBack = 0

\* claimPre with an envelope that is too old or too far in the future: the
\* transaction still commits, so the observed time is kept.
ClaimPreStale(n, rel) ==
    /\ clock <= MaxTime /\ AuthorityNow(rel)
    /\ ~Fresh(n, clock)
    /\ lastNow' = clock
    /\ UNCHANGED <<clock, nonces, observations, alarmAt, issuedAt, nextId, grants,
                   uses, stepsBack>>

\* The answers that prune and keep the time but admit nothing.
Deny ==
    /\ lastNow' = clock
    /\ nonces' = LiveNonces(clock)
    /\ observations' = LiveObservations(clock)
    /\ UNCHANGED <<clock, alarmAt, issuedAt, nextId, grants, uses, stepsBack>>

\* claimPre answering "replay" or "limited".
ClaimPreDenied(n, rel) ==
    /\ clock <= MaxTime /\ AuthorityNow(rel)
    /\ Fresh(n, clock)
    /\ \/ \E row \in LiveNonces(clock) : row.nonce = n
       \/ PreLimited(ClientOf[n], clock)
    /\ Deny

\* Mutant: a nonce is forgotten together with its permit.
ClaimPreShortRetention(n, rel) ==
    /\ clock <= MaxTime /\ AuthorityNow(rel)
    /\ Fresh(n, clock)
    /\ ~\E row \in LiveNonces(clock) : row.nonce = n
    /\ ~PreLimited(ClientOf[n], clock)
    /\ lastNow' = clock
    /\ observations' = LiveObservations(clock)
                         \union Observed("pre", ClientOf[n], clock)
    /\ nonces' = LiveNonces(clock) \union
         {[nonce |-> n, release |-> rel, client |-> ClientOf[n], permit |-> nextId,
           expires |-> clock + PermitLifetime,
           retainUntil |-> clock + PermitLifetime, consumed |-> FALSE]}
    /\ grants' = grants \union
         {[nonce |-> n, client |-> ClientOf[n], permit |-> nextId, at |-> clock]}
    /\ nextId' = nextId + 1
    /\ UNCHANGED <<clock, alarmAt, issuedAt, uses, stepsBack>>

\* claimPre answering "allowed" with a fresh permit.
ClaimPre(n, rel) ==
    /\ clock <= MaxTime /\ AuthorityNow(rel)
    /\ Fresh(n, clock)
    /\ ~\E row \in LiveNonces(clock) : row.nonce = n
    /\ ~PreLimited(ClientOf[n], clock)
    /\ lastNow' = clock
    /\ observations' = LiveObservations(clock)
                         \union Observed("pre", ClientOf[n], clock)
    /\ nonces' = LiveNonces(clock) \union
         {[nonce |-> n, release |-> rel, client |-> ClientOf[n], permit |-> nextId,
           expires |-> clock + PermitLifetime,
           retainUntil |-> clock + NonceRetention, consumed |-> FALSE]}
    /\ grants' = grants \union
         {[nonce |-> n, client |-> ClientOf[n], permit |-> nextId, at |-> clock]}
    /\ nextId' = nextId + 1
    /\ UNCHANGED <<clock, alarmAt, issuedAt, uses, stepsBack>>

\* The nonce row a consumePost call has to present exactly, unexpired.
Matches(row, n, rel, c, permit) ==
    /\ row.nonce = n /\ row.release = rel
    /\ row.client = c /\ row.permit = permit
    /\ row.expires > clock

\* consumePost answering "unavailable", "replay" or "limited" after pruning.
ConsumePostDenied(n, rel, c, permit) ==
    /\ clock <= MaxTime /\ AuthorityNow(rel)
    /\ \/ ~\E row \in LiveNonces(clock) : Matches(row, n, rel, c, permit)
       \/ \E row \in LiveNonces(clock) : row.nonce = n /\ row.consumed
       \/ PostLimited(c, clock)
    /\ Deny

\* consumePost answering "allowed".
ConsumePost(n, rel, c, permit) ==
    /\ clock <= MaxTime /\ AuthorityNow(rel)
    /\ \E row \in LiveNonces(clock) :
          /\ Matches(row, n, rel, c, permit)
          /\ ~row.consumed
          /\ nonces' = (LiveNonces(clock) \ {row})
                          \union {[row EXCEPT !.consumed = TRUE]}
    /\ ~PostLimited(c, clock)
    /\ lastNow' = clock
    /\ observations' = LiveObservations(clock) \union Observed("post", c, clock)
    /\ uses' = uses \union
         {[nonce |-> n, client |-> c, permit |-> permit, at |-> clock, id |-> nextId]}
    /\ nextId' = nextId + 1
    /\ UNCHANGED <<clock, alarmAt, issuedAt, grants, stepsBack>>

\* At most CleanupRows of a set of expired rows, all of them if they fit.
Deleted(D, expired) ==
    /\ D \subseteq expired
    /\ D = expired \/ Cardinality(D) = CleanupRows
    /\ Cardinality(D) <= CleanupRows

\* alarm(): cleanup(), which does not write last_now_ms, then re-arm.
Alarm ==
    /\ alarmAt # NoTime /\ alarmAt <= clock
    /\ IF clock >= lastNow
         THEN /\ \E D \in SUBSET observations :
                    /\ Deleted(D, {o \in observations : Expired(o, clock)})
                    /\ observations' = observations \ D
              /\ \E D \in SUBSET nonces :
                    /\ Deleted(D, {row \in nonces : row.retainUntil <= clock})
                    /\ nonces' = nonces \ D
         ELSE UNCHANGED <<nonces, observations>>
    /\ alarmAt' = clock + AlarmPeriod
    /\ UNCHANGED <<clock, lastNow, issuedAt, nextId, grants, uses, stepsBack>>

\* Time passes.  Once no call arrives any more it does not overtake a due alarm,
\* so that Horizon cuts off no alarm that still has rows to delete.
Tick ==
    /\ clock < Horizon
    /\ clock < MaxTime \/ alarmAt = NoTime \/ alarmAt > clock
    /\ clock' = clock + 1
    /\ UNCHANGED <<store, alarmAt, issuedAt, nextId, grants, uses, stepsBack>>

\* The object's clock is corrected backwards, or the object moves to a machine
\* whose clock is behind.
StepBack ==
    /\ stepsBack < MaxStepsBack
    /\ \E t \in 0 .. clock - 1 : clock' = t
    /\ stepsBack' = stepsBack + 1
    /\ UNCHANGED <<store, alarmAt, issuedAt, nextId, grants, uses>>

Next ==
    \/ \E n \in Nonces, rel \in ReleaseIds :
          ClaimPreStale(n, rel) \/ ClaimPreDenied(n, rel) \/ ClaimPre(n, rel)
    \/ \E n \in Nonces, rel \in ReleaseIds, c \in Clients, g \in grants :
          \/ ConsumePostDenied(n, rel, c, g.permit)
          \/ ConsumePost(n, rel, c, g.permit)
    \/ Alarm
    \/ Tick
    \/ StepBack

Spec == Init /\ [][Next]_vars

-----------------------------------------------------------------------------
(* Properties.                                                             *)

NonceRow == [nonce : Nonces, release : ReleaseIds, client : Clients, permit : Nat,
             expires : Nat, retainUntil : Nat, consumed : BOOLEAN]

\* Rows, histories and times have the types of their columns.
TypeOK ==
    /\ clock \in Nat
    /\ lastNow \in Nat
    /\ nonces \subseteq NonceRow
    /\ \A o \in observations :
          /\ o.id \in Nat /\ o.at \in Nat
          /\ o.stage \in {"pre", "post"} /\ o.scope \in {"client", "global"}
    /\ alarmAt \in Nat \union {NoTime}
    /\ issuedAt \in [Nonces -> IssueTimes]
    /\ nextId \in Nat
    /\ grants \subseteq [nonce : Nonces, client : Clients, permit : Nat, at : Nat]
    /\ uses \subseteq [nonce : Nonces, client : Clients, permit : Nat, at : Nat,
                       id : Nat]
    /\ stepsBack \in 0 .. MaxStepsBack

\* "A duplicate never receives a second execution authorization, even if it
\* presents the identical envelope": a signed nonce is admitted at most once,
\* also after its row has been pruned or cleaned up (claimPre, prune, cleanup).
NonceAdmittedOnce ==
    \A g, h \in grants : g.nonce = h.nonce => g = h

\* A permit is consumed at most once and a nonce leads to at most one
\* consumption (consumePost).
PermitConsumedOnce ==
    \A u, v \in uses : u.nonce = v.nonce \/ u.permit = v.permit => u = v

\* Every consumption rests on an admission of the same nonce for the same
\* client whose permit had not expired: permits cannot be mixed between
\* requests and do not outlive their minute.
UseFollowsGrant ==
    \A u \in uses : \E g \in grants :
        /\ g.nonce = u.nonce /\ g.client = u.client /\ g.permit = u.permit
        /\ g.at <= u.at /\ u.at < g.at + PermitLifetime

\* Events of a history in the window that ends with event e.
WithinWindow(history, e, window) ==
    {h \in history : h.at > e.at - window /\ h.at <= e.at}

OfClient(history, c) == {h \in history : h.client = c}

\* A history stays within a quota in every window that ends with one of its events.
Within(history, quota) ==
    \A e \in history : Cardinality(WithinWindow(history, e, quota.window)) <= quota.limit

\* In every window (t - w, t] of authority time the admissions and the
\* consumptions stay within every quota, although rows are pruned per stage
\* and scope with different windows (prune, count).
WindowsRespected ==
    /\ Within(grants, Policy.pre.global) /\ Within(uses, Policy.post.global)
    /\ \A c \in Clients : /\ Within(OfClient(grants, c), Policy.pre.clientBurst)
                         /\ Within(OfClient(grants, c), Policy.pre.client)
                         /\ Within(OfClient(uses, c), Policy.post.client)

\* "Persistent authority time is nondecreasing": admissions are recorded in
\* the order of authority time even if the clock is seen stepping back.
AuthorityTimeAdvances ==
    LET events == {<<g.permit, g.at>> : g \in grants} \union
                  {<<u.id, u.at>> : u \in uses}
    IN  \A e, f \in events : e[1] < f[1] => e[2] <= f[2]

\* "A duplicate never receives a second execution authorization": a nonce is
\* admitted once and consumed once, the consumption follows its admission
\* within the permit's life, and all of it in the order of authority time
\* (claimPre, consumePost, prune, cleanup, authorityNow).
AdmissionsAreSound ==
    NonceAdmittedOnce /\ PermitConsumedOnce /\ UseFollowsGrant /\ AuthorityTimeAdvances

-----------------------------------------------------------------------------
(* What the authority promises to the public inquiry flow.                 *)

Promise == INSTANCE AdmissionPromise

\* Windows, pruning, cleanup and permits implement AdmissionPromise: every step
\* admits one nonce that was never admitted, consumes one that was admitted and
\* never consumed, or changes nothing its callers can see.
KeepsPromise == Promise!Spec

-----------------------------------------------------------------------------
(* The inductive invariant behind the safety properties.  It needs that a  *)
(* row is never deleted at a time later than one the authority decides at  *)
(* afterwards: either no alarm was ever armed, so that only transactions   *)
(* that write last_now_ms delete, or the clock does not step back.         *)

DeletionsAreFinal == FirstAlarm = NoTime \/ MaxStepsBack = 0

\* No decision is taken at a time before Floor.
Floor == IF FirstAlarm = NoTime THEN lastNow ELSE clock

FloorInv ==
    /\ FirstAlarm = NoTime => alarmAt = NoTime
    /\ FirstAlarm # NoTime => lastNow <= clock

\* The row of an admitted nonce stays until the nonce can no longer be fresh.
GrantInv ==
    \A g \in grants :
        /\ g.at <= Floor
        /\ issuedAt[g.nonce] <= g.at + FutureSkew
        /\ g.permit < nextId
        /\ \/ \E row \in nonces : row.nonce = g.nonce
           \/ g.at + NonceRetention <= Floor

\* Rows come from admissions, one per nonce (its PRIMARY KEY).
RowInv ==
    /\ \A row \in nonces : \E g \in grants :
          /\ g.nonce = row.nonce /\ g.client = row.client /\ g.permit = row.permit
          /\ row.expires = g.at + PermitLifetime
          /\ row.retainUntil = g.at + NonceRetention
    /\ \A a, b \in nonces : a.nonce = b.nonce => a = b

PermitsAreDistinct == \A g, h \in grants : g.permit = h.permit => g = h

\* A consumed nonce is marked as such for as long as its row exists.
UseInv ==
    \A u \in uses :
        /\ u.id < nextId /\ u.at <= Floor
        /\ \A row \in nonces : row.nonce = u.nonce => row.consumed

IInv ==
    /\ TypeOK
    /\ FloorInv
    /\ GrantInv
    /\ RowInv
    /\ NonceAdmittedOnce
    /\ PermitsAreDistinct
    /\ UseInv
    /\ UseFollowsGrant
    /\ PermitConsumedOnce
    /\ AuthorityTimeAdvances

\* An event's row is kept as long as a window that ends at Floor or later can count it.
Kept(id, stage, scope, subject, t) ==
    \/ Observation(id, stage, scope, subject, t) \in observations
    \/ t <= Floor - Policy[stage][scope].window

\* Quotas hold because no event that counts has lost its rows: what count() finds
\* is at least what was answered.
KeptInv ==
    /\ \A g \in grants : /\ Kept(g.permit, "pre", "client", g.client, g.at)
                         /\ Kept(g.permit, "pre", "global", "*", g.at)
    /\ \A u \in uses : /\ Kept(u.id, "post", "client", u.client, u.at)
                       /\ Kept(u.id, "post", "global", "*", u.at)
    /\ \A u, v \in uses : u.id = v.id => u = v

QuotaInv ==
    /\ IsFiniteSet(observations) /\ IsFiniteSet(grants) /\ IsFiniteSet(uses)
    /\ KeptInv
    /\ WindowsRespected
=============================================================================
