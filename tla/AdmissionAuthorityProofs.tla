---------------------- MODULE AdmissionAuthorityProofs ----------------------
(***************************************************************************)
(* Proofs about the admission authority, for any requests, clients,        *)
(* releases, quotas and times with MaxAge + FutureSkew < NonceRetention,   *)
(* as long as deletions are final (see DeletionsAreFinal), and about the   *)
(* calls that reach it through the service.                                *)
(***************************************************************************)
EXTENDS AdmissionService, FiniteSetTheorems, TLAPS

USE DEF NoTime

\* What every transaction that answers at the current clock does to Floor:
\* it does not decrease, and the rows it prunes are old with respect to it.
LEMMA FloorStep ==
  ASSUME IInv, DeletionsAreFinal, [Next]_vars
  PROVE  /\ Floor \in Nat /\ Floor' \in Nat /\ Floor <= Floor'
         /\ lastNow' # lastNow => lastNow' = clock /\ Floor' = clock
         /\ FloorInv'
<1> USE TimesAssumption DEF IInv, TypeOK, FloorInv, Floor, DeletionsAreFinal, store
<1>1. ASSUME NEW n \in Nonces, NEW rel \in ReleaseIds,
             ClaimPreStale(n, rel) \/ ClaimPreDenied(n, rel) \/ ClaimPre(n, rel)
      PROVE  clock >= lastNow /\ lastNow' = clock /\ UNCHANGED <<clock, alarmAt>>
  BY <1>1 DEF ClaimPreStale, ClaimPreDenied, ClaimPre, Deny, AuthorityNow
<1>2. ASSUME NEW n \in Nonces, NEW rel \in ReleaseIds, NEW c \in Clients, NEW p,
             ConsumePostDenied(n, rel, c, p) \/ ConsumePost(n, rel, c, p)
      PROVE  clock >= lastNow /\ lastNow' = clock /\ UNCHANGED <<clock, alarmAt>>
  BY <1>2 DEF ConsumePostDenied, ConsumePost, Deny, AuthorityNow
<1>3. ASSUME clock >= lastNow, lastNow' = clock, UNCHANGED <<clock, alarmAt>>
      PROVE  /\ Floor \in Nat /\ Floor' \in Nat /\ Floor <= Floor'
             /\ Floor' = clock
             /\ FloorInv'
  BY <1>3
<1>4. CASE Alarm
  BY <1>4 DEF Alarm
<1>5. CASE Tick
  BY <1>5 DEF Tick
<1>6. CASE StepBack
  BY <1>6 DEF StepBack
<1>7. CASE UNCHANGED vars
  BY <1>7 DEF vars
<1> QED
  BY <1>1, <1>2, <1>3, <1>4, <1>5, <1>6, <1>7 DEF Next

\* A step that admits and consumes nothing, and deletes only rows whose
\* retention has ended, preserves the invariant.
LEMMA QuietStep ==
  ASSUME IInv, DeletionsAreFinal, [Next]_vars, TypeOK',
         UNCHANGED <<issuedAt, nextId, grants, uses>>,
         nonces' \subseteq nonces,
         \A row \in nonces \ nonces' : row.retainUntil <= Floor'
  PROVE  IInv'
<1> USE TimesAssumption DEF IInv
<1>f. Floor \in Nat /\ Floor' \in Nat /\ Floor <= Floor' /\ FloorInv'
  BY FloorStep
<1>t. /\ \A g \in grants : g.at \in Nat /\ g.permit \in Nat /\ g.nonce \in Nonces
      /\ \A u \in uses : u.at \in Nat /\ u.id \in Nat
  BY DEF TypeOK
<1>1. GrantInv'
  <2> SUFFICES ASSUME NEW g \in grants
               PROVE  /\ g.at <= Floor'
                      /\ issuedAt[g.nonce] <= g.at + FutureSkew
                      /\ g.permit < nextId
                      /\ \/ \E row \in nonces' : row.nonce = g.nonce
                         \/ g.at + NonceRetention <= Floor'
    BY DEF GrantInv
  <2>1. /\ g.at <= Floor
        /\ issuedAt[g.nonce] <= g.at + FutureSkew
        /\ g.permit < nextId
        /\ \/ \E row \in nonces : row.nonce = g.nonce
           \/ g.at + NonceRetention <= Floor
    BY DEF GrantInv
  <2>2. g.at <= Floor' /\ (g.at + NonceRetention <= Floor => g.at + NonceRetention <= Floor')
    BY <1>f, <1>t, <2>1
  <2>3. ASSUME NEW row \in nonces, row.nonce = g.nonce, row \notin nonces'
        PROVE  g.at + NonceRetention <= Floor'
    <3>1. PICK h \in grants : h.nonce = row.nonce /\ row.retainUntil = h.at + NonceRetention
      BY DEF RowInv
    <3>2. h = g
      BY <2>3, <3>1 DEF NonceAdmittedOnce
    <3> QED
      BY <2>3, <3>1, <3>2
  <2> QED
    BY <2>1, <2>2, <2>3
<1>2. RowInv'
  BY DEF RowInv
<1>3. UseInv'
  <2> SUFFICES ASSUME NEW u \in uses
               PROVE  /\ u.id < nextId /\ u.at <= Floor'
                      /\ \A row \in nonces' : row.nonce = u.nonce => row.consumed
    BY DEF UseInv
  <2> QED
    BY <1>f, <1>t DEF UseInv
<1>4. /\ NonceAdmittedOnce' /\ PermitsAreDistinct' /\ UseFollowsGrant'
      /\ PermitConsumedOnce' /\ AuthorityTimeAdvances'
  BY DEF NonceAdmittedOnce, PermitsAreDistinct, UseFollowsGrant,
         PermitConsumedOnce, AuthorityTimeAdvances
<1> QED
  BY <1>f, <1>1, <1>2, <1>3, <1>4

\* claimPre's refusals and consumePost's refusals.
LEMMA DeniedStep ==
  ASSUME IInv, DeletionsAreFinal, Next, Deny
  PROVE  IInv'
<1>1. TypeOK'
  BY DEF IInv, TypeOK, Deny, LiveNonces, LiveObservations
<1>2. Floor' \in Nat /\ (Floor' = clock \/ lastNow' = lastNow)
  BY FloorStep
<1>3. Floor' = clock
  BY <1>2 DEF Deny, Floor
<1>4. \A row \in nonces \ nonces' : row.retainUntil <= Floor'
  BY <1>3 DEF Deny, LiveNonces, IInv, TypeOK, NonceRow
<1>5. nonces' \subseteq nonces /\ UNCHANGED <<issuedAt, nextId, grants, uses>>
  BY DEF Deny, LiveNonces
<1> QED
  BY <1>1, <1>4, <1>5, QuietStep

\* A stale envelope is answered without touching the store.
LEMMA StaleStep ==
  ASSUME IInv, DeletionsAreFinal, Next,
         NEW n \in Nonces, NEW rel \in ReleaseIds, ClaimPreStale(n, rel)
  PROVE  IInv'
<1>1. TypeOK'
  BY DEF IInv, TypeOK, ClaimPreStale
<1>2. nonces' = nonces /\ UNCHANGED <<issuedAt, nextId, grants, uses>>
  BY DEF ClaimPreStale
<1> QED
  BY <1>1, <1>2, QuietStep

\* The alarm deletes expired rows at the current clock.
LEMMA AlarmStep ==
  ASSUME IInv, DeletionsAreFinal, Next, Alarm
  PROVE  IInv'
<1>1. TypeOK'
  BY TimesAssumption DEF IInv, TypeOK, Alarm, Deleted
<1>2. Floor' = clock
  BY DEF IInv, FloorInv, Floor, Alarm
<1>3. /\ nonces' \subseteq nonces
      /\ \A row \in nonces \ nonces' : row.retainUntil <= clock
  BY DEF Alarm, Deleted
<1>4. UNCHANGED <<issuedAt, nextId, grants, uses>>
  BY DEF Alarm
<1> QED
  BY <1>1, <1>2, <1>3, <1>4, QuietStep

\* The clock moves, in either direction, and the store does not.
LEMMA ClockStep ==
  ASSUME IInv, DeletionsAreFinal, [Next]_vars, Tick \/ StepBack \/ UNCHANGED vars
  PROVE  IInv'
<1>1. TypeOK'
  BY TimesAssumption DEF IInv, TypeOK, Tick, StepBack, vars, store
<1>2. nonces' = nonces /\ UNCHANGED <<issuedAt, nextId, grants, uses>>
  BY DEF Tick, StepBack, vars, store
<1> QED
  BY <1>1, <1>2, QuietStep

\* claimPre admits no nonce twice: the row of an earlier admission is only gone
\* once the envelope is too old to be fresh.
LEMMA ClaimPreAdmitsNew ==
  ASSUME IInv, DeletionsAreFinal, Next,
         NEW n \in Nonces, NEW rel \in ReleaseIds, ClaimPre(n, rel),
         NEW g \in grants
  PROVE  g.nonce # n
<1> SUFFICES ASSUME g.nonce = n PROVE FALSE
  OBVIOUS
<1>t. /\ g.at \in Nat /\ clock \in Nat /\ lastNow \in Nat /\ issuedAt[n] \in Nat
      /\ Floor \in Nat
  BY InputsAssumption DEF IInv, TypeOK, Floor
<1>1. issuedAt[n] >= clock - MaxAge /\ clock >= lastNow
  BY DEF ClaimPre, Fresh, AuthorityNow
<1>2. Floor <= clock
  BY <1>t, <1>1 DEF Floor
<1>3. issuedAt[n] <= g.at + FutureSkew
  BY DEF IInv, GrantInv
<1>4. clock < g.at + NonceRetention
  BY <1>t, <1>1, <1>3, TimesAssumption
<1>5. PICK row \in nonces : row.nonce = n
  BY <1>t, <1>2, <1>4, TimesAssumption DEF IInv, GrantInv
<1>6. PICK h \in grants : h.nonce = row.nonce /\ row.retainUntil = h.at + NonceRetention
  BY DEF IInv, RowInv
<1>7. h = g
  BY <1>5, <1>6 DEF IInv, NonceAdmittedOnce
<1>8. row \in LiveNonces(clock)
  BY <1>t, <1>4, <1>6, <1>7, TimesAssumption DEF LiveNonces
<1> QED
  BY <1>5, <1>8 DEF ClaimPre

\* The transaction that admits a nonce and issues its permit.
LEMMA ClaimPreStep ==
  ASSUME IInv, DeletionsAreFinal, Next,
         NEW n \in Nonces, NEW rel \in ReleaseIds, ClaimPre(n, rel)
  PROVE  IInv'
<1> DEFINE new == [nonce |-> n, client |-> ClientOf[n], permit |-> nextId, at |-> clock]
           row == [nonce |-> n, release |-> rel, client |-> ClientOf[n],
                   permit |-> nextId, expires |-> clock + PermitLifetime,
                   retainUntil |-> clock + NonceRetention, consumed |-> FALSE]
<1> USE TimesAssumption, InputsAssumption
<1>a. /\ grants' = grants \union {new}
      /\ nonces' = LiveNonces(clock) \union {row}
      /\ observations' = LiveObservations(clock)
                           \union Observed("pre", ClientOf[n], clock)
      /\ nextId' = nextId + 1 /\ lastNow' = clock
      /\ clock >= lastNow
      /\ UNCHANGED <<clock, alarmAt, issuedAt, uses, stepsBack>>
  BY DEF ClaimPre, AuthorityNow
<1>t. /\ clock \in Nat /\ lastNow \in Nat /\ nextId \in Nat
      /\ ClientOf[n] \in Clients /\ issuedAt[n] \in Nat
      /\ \A g \in grants : /\ g.at \in Nat /\ g.permit \in Nat /\ g.nonce \in Nonces
                           /\ issuedAt[g.nonce] \in Nat
      /\ \A u \in uses : u.at \in Nat /\ u.id \in Nat /\ u.permit \in Nat
      /\ \A r \in nonces : r.retainUntil \in Nat
  BY DEF IInv, TypeOK, NonceRow
<1>l. LiveNonces(clock) \subseteq nonces
      /\ \A r \in nonces \ LiveNonces(clock) : r.retainUntil <= clock
  BY <1>t DEF LiveNonces
<1>n. \A g \in grants : g.nonce # n
  BY ClaimPreAdmitsNew
<1>f. /\ Floor \in Nat /\ Floor' \in Nat /\ Floor <= Floor' /\ FloorInv'
      /\ Floor' = clock
  BY FloorStep, <1>a DEF Floor
<1>r. /\ new.nonce = n /\ new.client = ClientOf[n] /\ new.permit = nextId
      /\ new.at = clock
      /\ row.nonce = n /\ row.client = ClientOf[n] /\ row.permit = nextId
      /\ row.expires = clock + PermitLifetime
      /\ row.retainUntil = clock + NonceRetention
  OBVIOUS
<1>s. /\ new \in [nonce : Nonces, client : Clients, permit : Nat, at : Nat]
      /\ row \in NonceRow
  BY <1>t DEF NonceRow
<1> HIDE DEF new, row
<1>1. TypeOK'
  <2>3. \A o \in observations' :
          /\ o.id \in Nat /\ o.at \in Nat
          /\ o.stage \in {"pre", "post"} /\ o.scope \in {"client", "global"}
    BY <1>a, <1>t DEF Observed, Observation, LiveObservations, IInv, TypeOK
  <2> QED
    <3>1. nonces' \subseteq NonceRow
      BY <1>a, <1>l, <1>s DEF IInv, TypeOK
    <3>2. grants' \subseteq [nonce : Nonces, client : Clients, permit : Nat, at : Nat]
      BY <1>a, <1>s DEF IInv, TypeOK
    <3>3. nextId' \in Nat
      BY <1>a, <1>t
    <3> QED
      BY <1>a, <2>3, <3>1, <3>2, <3>3 DEF IInv, TypeOK
<1>2. GrantInv'
  <2> SUFFICES ASSUME NEW g \in grants'
               PROVE  /\ g.at <= Floor'
                      /\ issuedAt[g.nonce] <= g.at + FutureSkew
                      /\ g.permit < nextId'
                      /\ \/ \E r \in nonces' : r.nonce = g.nonce
                         \/ g.at + NonceRetention <= Floor'
    BY <1>a DEF GrantInv
  <2>1. CASE g = new
    <3>1. issuedAt[n] <= clock + FutureSkew
      BY DEF ClaimPre, Fresh
    <3> QED
      BY <2>1, <3>1, <1>a, <1>t, <1>f, <1>r
  <2>2. CASE g \in grants
    <3>1. /\ g.at <= Floor
          /\ issuedAt[g.nonce] <= g.at + FutureSkew
          /\ g.permit < nextId
          /\ \/ \E r \in nonces : r.nonce = g.nonce
             \/ g.at + NonceRetention <= Floor
      BY <2>2 DEF IInv, GrantInv
    <3>2. /\ g.at <= Floor' /\ g.permit < nextId'
          /\ g.at + NonceRetention <= Floor => g.at + NonceRetention <= Floor'
      BY <1>a, <1>t, <1>f, <2>2, <3>1
    <3>3. ASSUME NEW r \in nonces, r.nonce = g.nonce, r \notin nonces'
          PROVE  g.at + NonceRetention <= Floor'
      <4>1. PICK h \in grants : h.nonce = r.nonce /\ r.retainUntil = h.at + NonceRetention
        BY DEF IInv, RowInv
      <4>2. h = g
        BY <2>2, <3>3, <4>1 DEF IInv, NonceAdmittedOnce
      <4> QED
        BY <1>a, <1>l, <1>f, <3>3, <4>1, <4>2
    <3> QED
      BY <3>1, <3>2, <3>3
  <2> QED
    BY <1>a, <2>1, <2>2
<1>3. RowInv'
  <2>1. ASSUME NEW r \in nonces'
        PROVE  \E g \in grants' :
                 /\ g.nonce = r.nonce /\ g.client = r.client /\ g.permit = r.permit
                 /\ r.expires = g.at + PermitLifetime
                 /\ r.retainUntil = g.at + NonceRetention
    <3>1. CASE r = row
      BY <3>1, <1>a, <1>r
    <3>2. CASE r \in nonces
      BY <3>2, <1>a DEF IInv, RowInv
    <3> QED
      BY <1>a, <1>l, <3>1, <3>2
  <2>2. \A r \in nonces : r.nonce # n
    BY <1>n DEF IInv, RowInv
  <2>3. \A a, b \in nonces' : a.nonce = b.nonce => a = b
    BY <1>a, <1>l, <1>r, <2>2 DEF IInv, RowInv
  <2> QED
    BY <2>1, <2>3 DEF RowInv
<1>4. NonceAdmittedOnce' /\ PermitsAreDistinct'
  <2>1. \A g \in grants : g.permit # nextId
    BY <1>t DEF IInv, GrantInv
  <2> QED
    BY <1>a, <1>n, <1>r, <2>1 DEF IInv, NonceAdmittedOnce, PermitsAreDistinct
<1>5. UseInv'
  <2>1. \A u \in uses : u.nonce # n
    BY <1>n DEF IInv, UseFollowsGrant
  <2> SUFFICES ASSUME NEW u \in uses
               PROVE  /\ u.id < nextId' /\ u.at <= Floor'
                      /\ \A r \in nonces' : r.nonce = u.nonce => r.consumed
    BY <1>a DEF UseInv
  <2>2. /\ u.id < nextId /\ u.at <= Floor
        /\ \A r \in nonces : r.nonce = u.nonce => r.consumed
    BY DEF IInv, UseInv
  <2>3. \A r \in nonces' : r.nonce = u.nonce => r.consumed
    BY <1>a, <1>l, <1>r, <2>1, <2>2
  <2> QED
    BY <1>a, <1>t, <1>f, <2>2, <2>3
<1>6. UseFollowsGrant' /\ PermitConsumedOnce'
  BY <1>a DEF IInv, UseFollowsGrant, PermitConsumedOnce
<1>7. AuthorityTimeAdvances'
  <2>1. \A g \in grants : g.permit < nextId /\ g.at <= clock
    BY <1>t, <1>f DEF IInv, GrantInv
  <2>2. \A u \in uses : u.id < nextId /\ u.at <= clock
    BY <1>t, <1>f DEF IInv, UseInv
  <2> DEFINE old == {<<g.permit, g.at>> : g \in grants} \union
                    {<<u.id, u.at>> : u \in uses}
  <2>3. {<<g.permit, g.at>> : g \in grants'} \union {<<u.id, u.at>> : u \in uses'}
          = old \union {<<nextId, clock>>}
    BY <1>a, <1>r
  <2>4. \A e \in old : /\ e[1] \in Nat /\ e[2] \in Nat
                       /\ e[1] < nextId /\ e[2] <= clock
    BY <1>t, <2>1, <2>2
  <2>5. \A e, f \in old : e[1] < f[1] => e[2] <= f[2]
    BY DEF IInv, AuthorityTimeAdvances
  <2> HIDE DEF old
  <2>6. \A e, f \in old \union {<<nextId, clock>>} : e[1] < f[1] => e[2] <= f[2]
    BY <1>t, <2>4, <2>5
  <2> QED
    BY <2>3, <2>6 DEF AuthorityTimeAdvances
<1> QED
  BY <1>f, <1>1, <1>2, <1>3, <1>4, <1>5, <1>6, <1>7 DEF IInv

\* consumePost consumes a permit of the nonce's only admission, and only if no
\* consumption of that nonce has been recorded.
LEMMA ConsumePostStep ==
  ASSUME IInv, DeletionsAreFinal, Next,
         NEW n \in Nonces, NEW rel \in ReleaseIds, NEW c \in Clients,
         NEW p \in Nat, ConsumePost(n, rel, c, p)
  PROVE  IInv'
<1> USE TimesAssumption, InputsAssumption
<1> DEFINE use == [nonce |-> n, client |-> c, permit |-> p, at |-> clock, id |-> nextId]
<1>1. PICK row \in LiveNonces(clock) :
         /\ Matches(row, n, rel, c, p) /\ ~row.consumed
         /\ nonces' = (LiveNonces(clock) \ {row}) \union {[row EXCEPT !.consumed = TRUE]}
  BY DEF ConsumePost
<1> DEFINE spent == [row EXCEPT !.consumed = TRUE]
<1>a. /\ uses' = uses \union {use}
      /\ nonces' = (LiveNonces(clock) \ {row}) \union {spent}
      /\ observations' = LiveObservations(clock) \union Observed("post", c, clock)
      /\ nextId' = nextId + 1 /\ lastNow' = clock
      /\ clock >= lastNow
      /\ UNCHANGED <<clock, alarmAt, issuedAt, grants, stepsBack>>
  BY <1>1 DEF ConsumePost, AuthorityNow
<1>t. /\ clock \in Nat /\ lastNow \in Nat /\ nextId \in Nat
      /\ \A g \in grants : g.at \in Nat /\ g.permit \in Nat /\ g.nonce \in Nonces
      /\ \A u \in uses : u.at \in Nat /\ u.id \in Nat /\ u.permit \in Nat
      /\ \A r \in nonces : r.retainUntil \in Nat /\ r.expires \in Nat
      /\ nonces \subseteq NonceRow
  BY DEF IInv, TypeOK, NonceRow
<1>l. /\ LiveNonces(clock) \subseteq nonces
      /\ \A r \in nonces \ LiveNonces(clock) : r.retainUntil <= clock
      /\ row \in nonces
  BY <1>1, <1>t DEF LiveNonces
<1>m. row.nonce = n /\ row.client = c /\ row.permit = p /\ row.expires > clock
  BY <1>1 DEF Matches
<1>r. /\ use.nonce = n /\ use.client = c /\ use.permit = p /\ use.at = clock
      /\ use.id = nextId
      /\ use \in [nonce : Nonces, client : Clients, permit : Nat, at : Nat, id : Nat]
  BY <1>t
<1>s. /\ spent \in NonceRow
      /\ spent.nonce = row.nonce /\ spent.client = row.client
      /\ spent.permit = row.permit /\ spent.expires = row.expires
      /\ spent.retainUntil = row.retainUntil /\ spent.consumed
  BY <1>t, <1>l DEF NonceRow
<1> HIDE DEF use, spent
<1>f. /\ Floor \in Nat /\ Floor' \in Nat /\ Floor <= Floor' /\ FloorInv'
      /\ Floor' = clock
  BY FloorStep, <1>a DEF Floor
<1>g. PICK g \in grants :
         /\ g.nonce = n /\ g.client = c /\ g.permit = p
         /\ row.expires = g.at + PermitLifetime /\ g.at <= clock
  <2>1. PICK g \in grants :
           /\ g.nonce = row.nonce /\ g.client = row.client /\ g.permit = row.permit
           /\ row.expires = g.at + PermitLifetime
    BY <1>l DEF IInv, RowInv
  <2>2. g.at <= clock
    BY <1>t, <1>f DEF IInv, GrantInv
  <2> QED
    BY <1>m, <2>1, <2>2
<1>u. \A u \in uses : u.nonce # n /\ u.permit # p
  <2> SUFFICES ASSUME NEW u \in uses PROVE u.nonce # n /\ u.permit # p
    OBVIOUS
  <2>1. u.nonce # n
    BY <1>1, <1>l, <1>m DEF IInv, UseInv
  <2>2. PICK h \in grants : h.nonce = u.nonce /\ h.permit = u.permit
    BY DEF IInv, UseFollowsGrant
  <2>3. h.permit = p => h = g
    BY <1>g DEF IInv, PermitsAreDistinct
  <2> QED
    BY <1>g, <2>1, <2>2, <2>3
<1>2. TypeOK'
  <2>1. nonces' \subseteq NonceRow
    BY <1>a, <1>l, <1>t, <1>s
  <2>2. uses' \subseteq [nonce : Nonces, client : Clients, permit : Nat, at : Nat, id : Nat]
    BY <1>a, <1>r DEF IInv, TypeOK
  <2>3. \A o \in observations' :
          /\ o.id \in Nat /\ o.at \in Nat
          /\ o.stage \in {"pre", "post"} /\ o.scope \in {"client", "global"}
    BY <1>a, <1>t DEF Observed, Observation, LiveObservations, IInv, TypeOK
  <2>4. nextId' \in Nat
    BY <1>a, <1>t
  <2> QED
    BY <1>a, <2>1, <2>2, <2>3, <2>4 DEF IInv, TypeOK
<1>3. GrantInv'
  <2> SUFFICES ASSUME NEW h \in grants
               PROVE  /\ h.at <= Floor'
                      /\ issuedAt[h.nonce] <= h.at + FutureSkew
                      /\ h.permit < nextId'
                      /\ \/ \E r \in nonces' : r.nonce = h.nonce
                         \/ h.at + NonceRetention <= Floor'
    BY <1>a DEF GrantInv
  <2>1. /\ h.at <= Floor
        /\ issuedAt[h.nonce] <= h.at + FutureSkew
        /\ h.permit < nextId
        /\ \/ \E r \in nonces : r.nonce = h.nonce
           \/ h.at + NonceRetention <= Floor
    BY DEF IInv, GrantInv
  <2>2. /\ h.at <= Floor' /\ h.permit < nextId'
        /\ h.at + NonceRetention <= Floor => h.at + NonceRetention <= Floor'
    BY <1>a, <1>t, <1>f, <2>1
  <2>3. ASSUME NEW r \in nonces, r.nonce = h.nonce
        PROVE  \/ \E q \in nonces' : q.nonce = h.nonce
               \/ h.at + NonceRetention <= Floor'
    <3>1. CASE r = row
      BY <1>a, <1>s, <2>3, <3>1
    <3>2. CASE r # row /\ r \in LiveNonces(clock)
      BY <1>a, <2>3, <3>2
    <3>3. CASE r \notin LiveNonces(clock)
      <4>1. PICK q \in grants : q.nonce = r.nonce /\ r.retainUntil = q.at + NonceRetention
        BY DEF IInv, RowInv
      <4>2. q = h
        BY <2>3, <4>1 DEF IInv, NonceAdmittedOnce
      <4> QED
        BY <1>l, <1>f, <3>3, <4>1, <4>2
    <3> QED
      BY <3>1, <3>2, <3>3
  <2> QED
    BY <2>1, <2>2, <2>3
<1>4. RowInv'
  <2>1. ASSUME NEW r \in nonces'
        PROVE  \E h \in grants' :
                 /\ h.nonce = r.nonce /\ h.client = r.client /\ h.permit = r.permit
                 /\ r.expires = h.at + PermitLifetime
                 /\ r.retainUntil = h.at + NonceRetention
    <3>1. PICK q \in nonces : /\ r.nonce = q.nonce /\ r.client = q.client
                              /\ r.permit = q.permit /\ r.expires = q.expires
                              /\ r.retainUntil = q.retainUntil
      BY <1>a, <1>l, <1>s
    <3> QED
      BY <1>a, <3>1 DEF IInv, RowInv
  <2>2. \A a, b \in nonces' : a.nonce = b.nonce => a = b
    BY <1>a, <1>l, <1>s DEF IInv, RowInv
  <2> QED
    BY <2>1, <2>2 DEF RowInv
<1>5. NonceAdmittedOnce' /\ PermitsAreDistinct'
  BY <1>a DEF IInv, NonceAdmittedOnce, PermitsAreDistinct
<1>6. UseInv'
  <2> SUFFICES ASSUME NEW u \in uses'
               PROVE  /\ u.id < nextId' /\ u.at <= Floor'
                      /\ \A r \in nonces' : r.nonce = u.nonce => r.consumed
    BY <1>a DEF UseInv
  <2>1. CASE u = use
    <3>1. \A r \in nonces' : r.nonce = n => r.consumed
      BY <1>a, <1>l, <1>m, <1>s DEF IInv, RowInv
    <3> QED
      BY <1>a, <1>t, <1>f, <1>r, <2>1, <3>1
  <2>2. CASE u \in uses
    <3>1. /\ u.id < nextId /\ u.at <= Floor
          /\ \A r \in nonces : r.nonce = u.nonce => r.consumed
      BY <2>2 DEF IInv, UseInv
    <3>2. \A r \in nonces' : r.nonce = u.nonce => r.consumed
      BY <1>a, <1>l, <1>s, <3>1
    <3> QED
      BY <1>a, <1>t, <1>f, <2>2, <3>1, <3>2
  <2> QED
    BY <1>a, <2>1, <2>2
<1>7. UseFollowsGrant'
  <2> SUFFICES ASSUME NEW u \in uses'
               PROVE  \E h \in grants :
                        /\ h.nonce = u.nonce /\ h.client = u.client
                        /\ h.permit = u.permit
                        /\ h.at <= u.at /\ u.at < h.at + PermitLifetime
    BY <1>a DEF UseFollowsGrant
  <2>1. CASE u = use
    BY <1>t, <1>g, <1>m, <1>r, <2>1
  <2>2. CASE u \in uses
    BY <2>2 DEF IInv, UseFollowsGrant
  <2> QED
    BY <1>a, <2>1, <2>2
<1>8. PermitConsumedOnce'
  BY <1>a, <1>r, <1>u DEF IInv, PermitConsumedOnce
<1>9. AuthorityTimeAdvances'
  <2>1. \A h \in grants : h.permit < nextId /\ h.at <= clock
    BY <1>t, <1>f DEF IInv, GrantInv
  <2>2. \A u \in uses : u.id < nextId /\ u.at <= clock
    BY <1>t, <1>f DEF IInv, UseInv
  <2> DEFINE old == {<<h.permit, h.at>> : h \in grants} \union
                    {<<u.id, u.at>> : u \in uses}
  <2>3. {<<h.permit, h.at>> : h \in grants'} \union {<<u.id, u.at>> : u \in uses'}
          = old \union {<<nextId, clock>>}
    BY <1>a, <1>r
  <2>4. \A e \in old : /\ e[1] \in Nat /\ e[2] \in Nat
                       /\ e[1] < nextId /\ e[2] <= clock
    BY <1>t, <2>1, <2>2
  <2>5. \A e, f \in old : e[1] < f[1] => e[2] <= f[2]
    BY DEF IInv, AuthorityTimeAdvances
  <2> HIDE DEF old
  <2>6. \A e, f \in old \union {<<nextId, clock>>} : e[1] < f[1] => e[2] <= f[2]
    BY <1>t, <2>4, <2>5
  <2> QED
    BY <2>3, <2>6 DEF AuthorityTimeAdvances
<1> QED
  BY <1>f, <1>2, <1>3, <1>4, <1>5, <1>6, <1>7, <1>8, <1>9 DEF IInv

-----------------------------------------------------------------------------
\* Every step of the authority keeps the invariant.
LEMMA StepPreserves ==
  ASSUME IInv, DeletionsAreFinal, [Next]_vars
  PROVE  IInv'
<1>1. ASSUME NEW n \in Nonces, NEW rel \in ReleaseIds, Next,
             ClaimPreStale(n, rel) \/ ClaimPreDenied(n, rel) \/ ClaimPre(n, rel)
      PROVE  IInv'
  BY <1>1, StaleStep, DeniedStep, ClaimPreStep DEF ClaimPreDenied
<1>2. ASSUME NEW n \in Nonces, NEW rel \in ReleaseIds, NEW c \in Clients,
             NEW g \in grants, Next,
             ConsumePostDenied(n, rel, c, g.permit) \/ ConsumePost(n, rel, c, g.permit)
      PROVE  IInv'
  <2>1. g.permit \in Nat
    BY DEF IInv, TypeOK
  <2> QED
    BY <1>2, <2>1, DeniedStep, ConsumePostStep DEF ConsumePostDenied
<1>3. ASSUME Next, Alarm PROVE IInv'
  BY <1>3, AlarmStep
<1>4. ASSUME Tick \/ StepBack \/ UNCHANGED vars PROVE IInv'
  BY <1>4, ClockStep
<1> QED
  BY <1>1, <1>2, <1>3, <1>4 DEF Next

\* An empty store satisfies the invariant (initializeAuthority).
LEMMA InitInv == Init => IInv
BY TimesAssumption, InputsAssumption
DEF Init, IInv, TypeOK, FloorInv, Floor, GrantInv, RowInv, NonceAdmittedOnce,
    PermitsAreDistinct, UseInv, UseFollowsGrant, PermitConsumedOnce,
    AuthorityTimeAdvances

\* The inductive invariant of the authority (claimPre, consumePost, cleanup).
THEOREM Invariance ==
  ASSUME DeletionsAreFinal
  PROVE  Spec => []IInv
<1>1. Init => IInv
  BY InitInv
<1>2. IInv /\ [Next]_vars => IInv'
  BY StepPreserves
<1> QED
  BY <1>1, <1>2, PTL DEF Spec

\* The tables of the authority keep their column types (claimPre, consumePost).
THEOREM TypeCorrect ==
  ASSUME DeletionsAreFinal
  PROVE  Spec => []TypeOK
<1>1. IInv => TypeOK
  BY DEF IInv
<1> QED
  BY <1>1, Invariance, PTL

\* A signed nonce is admitted at most once, for any retention longer than the
\* freshness window and however pruning and admissions interleave (claimPre).
THEOREM NoncesAreAdmittedOnce ==
  ASSUME DeletionsAreFinal
  PROVE  Spec => []NonceAdmittedOnce
<1>1. IInv => NonceAdmittedOnce
  BY DEF IInv
<1> QED
  BY <1>1, Invariance, PTL

\* A permit, and a nonce, is consumed at most once (consumePost).
THEOREM PermitsAreConsumedOnce ==
  ASSUME DeletionsAreFinal
  PROVE  Spec => []PermitConsumedOnce
<1>1. IInv => PermitConsumedOnce
  BY DEF IInv
<1> QED
  BY <1>1, Invariance, PTL

\* A consumption rests on an unexpired admission of the same nonce, client and
\* permit (consumePost).
THEOREM UsesFollowGrants ==
  ASSUME DeletionsAreFinal
  PROVE  Spec => []UseFollowsGrant
<1>1. IInv => UseFollowsGrant
  BY DEF IInv
<1> QED
  BY <1>1, Invariance, PTL

\* Decisions are recorded in the order of authority time, whatever the clock
\* does (authorityNow).
THEOREM TimeAdvances ==
  ASSUME DeletionsAreFinal
  PROVE  Spec => []AuthorityTimeAdvances
<1>1. IInv => AuthorityTimeAdvances
  BY DEF IInv
<1> QED
  BY <1>1, Invariance, PTL

\* The authority with its windows, pruning and permits implements the promise its
\* callers rely on (claimPre, consumePost).
THEOREM AuthorityKeepsPromise ==
  ASSUME DeletionsAreFinal
  PROVE  Spec => KeepsPromise
<1>1. Init => Promise!Init
  BY DEF Init, Promise!Init
<1>2. IInv /\ [Next]_vars => [Promise!Next]_(Promise!vars)
  <2> SUFFICES ASSUME IInv, [Next]_vars PROVE [Promise!Next]_(Promise!vars)
    OBVIOUS
  <2>1. ASSUME NEW n \in Nonces, NEW rel \in ReleaseIds, Next, ClaimPre(n, rel)
        PROVE  Promise!Claim(n)
    <3> DEFINE new == [nonce |-> n, client |-> ClientOf[n], permit |-> nextId,
                       at |-> clock]
    <3>1. grants' = grants \union {new} /\ uses' = uses
      BY <2>1 DEF ClaimPre
    <3>2. new.nonce = n
      OBVIOUS
    <3>3. \A g \in grants : g.nonce # n
      BY <2>1, ClaimPreAdmitsNew
    <3> HIDE DEF new
    <3> QED
      BY <3>1, <3>2, <3>3 DEF Promise!Claim
  <2>2. ASSUME NEW n \in Nonces, NEW rel \in ReleaseIds, NEW c \in Clients, NEW p,
               ConsumePost(n, rel, c, p)
        PROVE  Promise!Consume(n)
    <3> DEFINE use == [nonce |-> n, client |-> c, permit |-> p, at |-> clock,
                       id |-> nextId]
    <3>1. uses' = uses \union {use} /\ grants' = grants
      BY <2>2 DEF ConsumePost
    <3>2. use.nonce = n
      OBVIOUS
    <3>3. PICK row \in nonces : row.nonce = n /\ ~row.consumed
      BY <2>2 DEF ConsumePost, LiveNonces, Matches
    <3>4. \E g \in grants : g.nonce = n
      BY <3>3 DEF IInv, RowInv
    <3>5. \A u \in uses : u.nonce # n
      BY <3>3 DEF IInv, UseInv
    <3> HIDE DEF use
    <3> QED
      BY <3>1, <3>2, <3>4, <3>5 DEF Promise!Consume
  <2>3. ASSUME NEW n \in Nonces, NEW rel \in ReleaseIds,
               ClaimPreStale(n, rel) \/ ClaimPreDenied(n, rel)
        PROVE  UNCHANGED Promise!vars
    BY <2>3 DEF ClaimPreStale, ClaimPreDenied, Deny, Promise!vars
  <2>4. ASSUME NEW n \in Nonces, NEW rel \in ReleaseIds, NEW c \in Clients, NEW p,
               ConsumePostDenied(n, rel, c, p)
        PROVE  UNCHANGED Promise!vars
    BY <2>4 DEF ConsumePostDenied, Deny, Promise!vars
  <2>5. ASSUME Alarm \/ Tick \/ StepBack \/ UNCHANGED vars
        PROVE  UNCHANGED Promise!vars
    BY <2>5 DEF Alarm, Tick, StepBack, vars, Promise!vars
  <2> QED
    BY <2>1, <2>2, <2>3, <2>4, <2>5 DEF Next, Promise!Next
<1> QED
  BY <1>1, <1>2, Invariance, PTL DEF Spec, KeepsPromise, Promise!Spec

\* "A duplicate never receives a second execution authorization": nonces are
\* admitted once, permits are consumed once, by whom and within the life they
\* were issued for, and in the order of authority time.
THEOREM AdmissionsStaySound ==
  ASSUME DeletionsAreFinal
  PROVE  Spec => []AdmissionsAreSound
<1>1. IInv => AdmissionsAreSound
  BY DEF IInv, AdmissionsAreSound
<1> QED
  BY <1>1, Invariance, PTL

-----------------------------------------------------------------------------
(* Quotas.                                                                 *)

\* A set whose elements have different images in a finite set is no larger.
LEMMA NoLarger ==
  ASSUME NEW S, NEW R, IsFiniteSet(R), NEW f \in [S -> R],
         \A x, y \in S : f[x] = f[y] => x = y
  PROVE  IsFiniteSet(S) /\ Cardinality(S) <= Cardinality(R)
<1>1. f \in Injection(S, R)
  BY DEF Injection, IsInjective
<1> QED
  BY <1>1, FS_Injection

\* Events whose rows are in the table are counted: count() finds at least as many.
LEMMA Counted ==
  ASSUME IsFiniteSet(observations), NEW stage, NEW scope, NEW subject,
         NEW t \in Nat, NEW w \in Nat,
         Policy[stage][scope].window \in Nat, w <= Policy[stage][scope].window,
         NEW S, NEW id \in [S -> Nat], \A x, y \in S : id[x] = id[y] => x = y,
         \A h \in S : /\ h.at \in Nat /\ h.at > t - w /\ h.at <= t
                      /\ Observation(id[h], stage, scope, subject, h.at) \in observations
  PROVE  /\ IsFiniteSet(S)
         /\ CountIn(stage, scope, subject, w, t) \in Nat
         /\ Cardinality(S) <= CountIn(stage, scope, subject, w, t)
<1> DEFINE R == {o \in LiveObservations(t) :
                   /\ o.stage = stage /\ o.scope = scope /\ o.subject = subject
                   /\ o.at > t - w /\ o.at <= t}
           f == [h \in S |-> Observation(id[h], stage, scope, subject, h.at)]
<1>1. R \subseteq observations
  BY DEF LiveObservations
<1>2. IsFiniteSet(R) /\ Cardinality(R) \in Nat
  BY <1>1, FS_Subset, FS_CardinalityType
<1>3. ASSUME NEW h \in S
      PROVE  Observation(id[h], stage, scope, subject, h.at) \in R
  <2> DEFINE o == Observation(id[h], stage, scope, subject, h.at)
  <2>1. o.stage = stage /\ o.scope = scope /\ o.subject = subject /\ o.at = h.at
    BY DEF Observation
  <2>2. o \in observations /\ o.at > t - w /\ o.at <= t /\ o.at \in Nat
    BY <2>1
  <2> HIDE DEF o
  <2>3. ~(o.at <= t - Policy[stage][scope].window)
    BY <2>2
  <2>4. ~Expired(o, t)
    BY <2>1, <2>3 DEF Expired
  <2>5. o \in R
    BY <2>1, <2>2, <2>4 DEF LiveObservations
  <2> QED
    BY <2>5 DEF o
<1>4. f \in [S -> R]
  BY <1>3
<1>5. ASSUME NEW x \in S, NEW y \in S, f[x] = f[y] PROVE x = y
  <2>1. Observation(id[x], stage, scope, subject, x.at) = Observation(id[y], stage, scope, subject, y.at)
    BY <1>5
  <2>2. id[x] = id[y]
    BY <2>1 DEF Observation
  <2> QED
    BY <2>2
<1>6. CountIn(stage, scope, subject, w, t) = Cardinality(R)
  BY DEF CountIn
<1> HIDE DEF R, f
<1> QED
  BY <1>2, <1>4, <1>5, <1>6, NoLarger

\* A window of a finite history is finite.
LEMMA WindowIsFinite ==
  ASSUME NEW H, IsFiniteSet(H), NEW e, NEW w
  PROVE  /\ IsFiniteSet(WithinWindow(H, e, w))
         /\ Cardinality(WithinWindow(H, e, w)) \in Nat
<1>1. WithinWindow(H, e, w) \subseteq H
  BY DEF WithinWindow
<1> QED
  BY <1>1, FS_Subset, FS_CardinalityType

\* A history within a quota that gets a newest event, whose window has room for it,
\* stays within the quota: no window that ends earlier changes.
LEMMA OneMore ==
  ASSUME NEW H, IsFiniteSet(H), NEW q \in Windows, NEW new, new.at \in Nat,
         \A h \in H : h.at \in Nat /\ h.at <= new.at,
         Within(H, q), Cardinality(WithinWindow(H, new, q.window)) < q.limit
  PROVE  Within(H \union {new}, q)
<1> DEFINE W(e) == WithinWindow(H, e, q.window)
           V(e) == WithinWindow(H \union {new}, e, q.window)
<1>q. q.window \in Nat /\ q.limit \in Nat
  BY DEF Windows
<1>1. Cardinality(V(new)) <= q.limit
  <2>1. V(new) \subseteq W(new) \union {new}
    BY DEF WithinWindow
  <2>2. IsFiniteSet(W(new)) /\ Cardinality(W(new)) \in Nat
    BY WindowIsFinite
  <2> HIDE DEF W, V
  <2>3. /\ IsFiniteSet(W(new) \union {new})
        /\ Cardinality(W(new) \union {new}) <= Cardinality(W(new)) + 1
    <3>1. Cardinality(W(new) \union {new}) = IF new \in W(new) THEN Cardinality(W(new))
                                                           ELSE Cardinality(W(new)) + 1
      BY <2>2, FS_AddElement
    <3>2. IsFiniteSet(W(new) \union {new})
      BY <2>2, FS_AddElement
    <3> QED
      BY <2>2, <3>1, <3>2
  <2>4. Cardinality(W(new) \union {new}) \in Nat
    BY <2>3, FS_CardinalityType
  <2>5. IsFiniteSet(V(new)) /\ Cardinality(V(new)) <= Cardinality(W(new) \union {new})
    BY <2>1, <2>3, FS_Subset
  <2>6. Cardinality(V(new)) \in Nat
    BY <2>5, FS_CardinalityType
  <2>7. Cardinality(W(new)) < q.limit
    BY DEF W
  <2> QED
    BY <1>q, <2>2, <2>3, <2>4, <2>5, <2>6, <2>7
<1>2. ASSUME NEW e \in H, e.at = new.at PROVE V(e) = V(new)
  BY <1>2 DEF WithinWindow
<1>3. ASSUME NEW e \in H, e.at # new.at PROVE V(e) = W(e)
  <2>1. e.at \in Nat /\ e.at < new.at
    BY <1>3
  <2>2. ~(new.at <= e.at)
    BY <2>1
  <2> QED
    BY <2>2 DEF WithinWindow
<1>4. \A e \in H : Cardinality(W(e)) <= q.limit
  BY DEF Within
<1> HIDE DEF W
<1>5. \A e \in H \union {new} : Cardinality(V(e)) <= q.limit
  BY <1>1, <1>2, <1>3, <1>4
<1> QED
  BY <1>5 DEF Within

\* The same for one client's part of a history.
LEMMA OneMoreOfClient ==
  ASSUME NEW H, IsFiniteSet(H), NEW q \in Windows, NEW new, new.at \in Nat,
         \A h \in H : h.at \in Nat /\ h.at <= new.at,
         \A c \in Clients : Within(OfClient(H, c), q),
         new.client \in Clients,
         Cardinality(WithinWindow(OfClient(H, new.client), new, q.window)) < q.limit,
         NEW c \in Clients
  PROVE  Within(OfClient(H \union {new}, c), q)
<1>1. IsFiniteSet(OfClient(H, c))
  BY FS_Subset DEF OfClient
<1>2. OfClient(H, c) \subseteq H
  BY DEF OfClient
<1>3. CASE c = new.client
  <2>1. OfClient(H \union {new}, c) = OfClient(H, c) \union {new}
    BY <1>3 DEF OfClient
  <2>2. Within(OfClient(H, c) \union {new}, q)
    BY <1>1, <1>2, <1>3, OneMore
  <2> QED
    BY <2>1, <2>2
<1>4. CASE c # new.client
  <2>1. OfClient(H \union {new}, c) = OfClient(H, c)
    BY <1>4 DEF OfClient
  <2> QED
    BY <2>1
<1> QED
  BY <1>3, <1>4

\* The quotas of the policy, in the form in which they are used.
LEMMA PolicyTypes ==
  /\ Policy.pre.client \in Windows /\ Policy.pre.clientBurst \in Windows /\ Policy.pre.global \in Windows
  /\ Policy.post.client \in Windows /\ Policy.post.global \in Windows
  /\ Policy["pre"]["client"] = Policy.pre.client /\ Policy["pre"]["global"] = Policy.pre.global
  /\ Policy["post"]["client"] = Policy.post.client /\ Policy["post"]["global"] = Policy.post.global
  /\ \A q \in Windows : q.window \in Nat /\ q.limit \in Nat
BY PolicyAssumption DEF Windows

\* A row that is gone after a step is too old to be counted at any later decision
\* (prune, cleanup).
LEMMA DeletedAreExpired ==
  ASSUME IInv, DeletionsAreFinal, [Next]_vars, NEW o \in observations, o \notin observations'
  PROVE  Expired(o, Floor')
<1>1. ASSUME Next, LiveObservations(clock) \subseteq observations', lastNow' = clock, clock' = clock
      PROVE  Expired(o, Floor')
  <2>1. Floor' = clock
    BY <1>1 DEF Floor
  <2> QED
    BY <1>1, <2>1 DEF LiveObservations
<1>2. ASSUME NEW n \in Nonces, NEW rel \in ReleaseIds,
             ClaimPreDenied(n, rel) \/ ClaimPre(n, rel)
      PROVE  LiveObservations(clock) \subseteq observations' /\ lastNow' = clock /\ clock' = clock
  BY <1>2 DEF ClaimPreDenied, ClaimPre, Deny
<1>3. ASSUME NEW n \in Nonces, NEW rel \in ReleaseIds, NEW c \in Clients, NEW p,
             ConsumePostDenied(n, rel, c, p) \/ ConsumePost(n, rel, c, p)
      PROVE  LiveObservations(clock) \subseteq observations' /\ lastNow' = clock /\ clock' = clock
  BY <1>3 DEF ConsumePostDenied, ConsumePost, Deny
<1>4. CASE Alarm
  <2>1. Floor' = clock
    BY <1>4 DEF IInv, FloorInv, Floor, Alarm
  <2>2. Expired(o, clock)
    BY <1>4 DEF Alarm, Deleted
  <2> QED
    BY <2>1, <2>2
<1>5. ASSUME NEW n \in Nonces, NEW rel \in ReleaseIds, ClaimPreStale(n, rel)
      PROVE  FALSE
  BY <1>5 DEF ClaimPreStale
<1>6. ASSUME Tick \/ StepBack \/ UNCHANGED vars PROVE FALSE
  BY <1>6 DEF Tick, StepBack, vars, store
<1> QED
  BY <1>1, <1>2, <1>3, <1>4, <1>5, <1>6 DEF Next

\* What is kept stays kept.
LEMMA KeptStays ==
  ASSUME IInv, DeletionsAreFinal, [Next]_vars,
         NEW id, NEW stage, NEW scope, NEW subject, NEW t \in Nat,
         Policy[stage][scope].window \in Nat, Kept(id, stage, scope, subject, t)
  PROVE  Kept(id, stage, scope, subject, t)'
<1> DEFINE o == Observation(id, stage, scope, subject, t)
<1>1. o.stage = stage /\ o.scope = scope /\ o.at = t
  BY DEF Observation
<1>2. Floor \in Nat /\ Floor' \in Nat /\ Floor <= Floor'
  BY FloorStep
<1> HIDE DEF o
<1>3. CASE t <= Floor - Policy[stage][scope].window
  <2>1. t <= Floor' - Policy[stage][scope].window
    BY <1>2, <1>3
  <2> QED
    BY <2>1 DEF Kept
<1>4. CASE o \in observations /\ o \notin observations'
  <2>1. Expired(o, Floor')
    BY <1>4, DeletedAreExpired
  <2>2. t <= Floor' - Policy[stage][scope].window
    BY <1>1, <2>1 DEF Expired
  <2> QED
    BY <2>2 DEF Kept
<1>5. CASE o \in observations'
  BY <1>5 DEF Kept, o
<1> QED
  BY <1>3, <1>4, <1>5 DEF Kept, o

\* The rows of earlier events, after any step.
LEMMA EventsStayKept ==
  ASSUME IInv, DeletionsAreFinal, [Next]_vars, KeptInv
  PROVE  /\ \A g \in grants : /\ Kept(g.permit, "pre", "client", g.client, g.at)'
                              /\ Kept(g.permit, "pre", "global", "*", g.at)'
         /\ \A u \in uses : /\ Kept(u.id, "post", "client", u.client, u.at)'
                            /\ Kept(u.id, "post", "global", "*", u.at)'
<1>t. /\ \A g \in grants : g.at \in Nat
      /\ \A u \in uses : u.at \in Nat
  BY DEF IInv, TypeOK
<1>p. /\ Policy["pre"]["client"].window \in Nat /\ Policy["pre"]["global"].window \in Nat
      /\ Policy["post"]["client"].window \in Nat /\ Policy["post"]["global"].window \in Nat
  BY PolicyTypes
<1>1. ASSUME NEW g \in grants
      PROVE  /\ Kept(g.permit, "pre", "client", g.client, g.at)'
             /\ Kept(g.permit, "pre", "global", "*", g.at)'
  <2>0. PICK id, c, t : id = g.permit /\ c = g.client /\ t = g.at
    OBVIOUS
  <2>1. Kept(id, "pre", "client", c, t) /\ Kept(id, "pre", "global", "*", t) /\ t \in Nat
    BY <1>t, <2>0 DEF KeptInv
  <2>2. Kept(id, "pre", "client", c, t)' /\ Kept(id, "pre", "global", "*", t)'
    BY <1>p, <2>1, KeptStays
  <2> QED
    BY <2>0, <2>2
<1>2. ASSUME NEW u \in uses
      PROVE  /\ Kept(u.id, "post", "client", u.client, u.at)'
             /\ Kept(u.id, "post", "global", "*", u.at)'
  <2>0. PICK id, c, t : id = u.id /\ c = u.client /\ t = u.at
    OBVIOUS
  <2>1. Kept(id, "post", "client", c, t) /\ Kept(id, "post", "global", "*", t) /\ t \in Nat
    BY <1>t, <2>0 DEF KeptInv
  <2>2. Kept(id, "post", "client", c, t)' /\ Kept(id, "post", "global", "*", t)'
    BY <1>p, <2>1, KeptStays
  <2> QED
    BY <2>0, <2>2
<1> QED
  BY <1>1, <1>2

\* A step that answers nothing keeps every quota.
LEMMA QuietQuota ==
  ASSUME IInv, DeletionsAreFinal, [Next]_vars, QuotaInv,
         observations' \subseteq observations, UNCHANGED <<grants, uses>>
  PROVE  QuotaInv'
<1>1. IsFiniteSet(observations')
  BY FS_Subset DEF QuotaInv
<1>2. KeptInv'
  BY EventsStayKept DEF QuotaInv, KeptInv
<1>3. WindowsRespected'
  BY DEF QuotaInv, WindowsRespected, Within, OfClient
<1> QED
  BY <1>1, <1>2, <1>3 DEF QuotaInv

\* What claimPre would count is at least what it admitted in the same window.
LEMMA AdmissionsAreCounted ==
  ASSUME IInv, QuotaInv, Floor <= clock, NEW scope \in {"client", "global"}, NEW subject, NEW S,
         \A h \in S : h \in grants /\ Kept(h.permit, "pre", scope, subject, h.at),
         NEW w \in Nat, w <= Policy["pre"][scope].window,
         \A h \in S : h.at > clock - w /\ h.at <= clock
  PROVE  /\ CountIn("pre", scope, subject, w, clock) \in Nat
         /\ IsFiniteSet(S) /\ Cardinality(S) <= CountIn("pre", scope, subject, w, clock)
<1> DEFINE id == [h \in S |-> h.permit]
<1>t. /\ clock \in Nat /\ Floor \in Nat /\ Policy["pre"][scope].window \in Nat
      /\ \A g \in grants : g.at \in Nat /\ g.permit \in Nat
  BY PolicyTypes DEF IInv, TypeOK, Floor
<1>1. id \in [S -> Nat] /\ \A x, y \in S : id[x] = id[y] => x = y
  BY <1>t DEF IInv, PermitsAreDistinct
<1>2. ASSUME NEW h \in S
      PROVE  /\ h.at \in Nat
             /\ Observation(id[h], "pre", scope, subject, h.at) \in observations
  <2>1. h.at \in Nat /\ h.at > clock - w
    BY <1>t
  <2>2. ~(h.at <= Floor - Policy["pre"][scope].window)
    BY <1>t, <2>1
  <2>3. Kept(h.permit, "pre", scope, subject, h.at) /\ id[h] = h.permit
    OBVIOUS
  <2> QED
    BY <2>1, <2>2, <2>3 DEF Kept
<1>3. IsFiniteSet(observations)
  BY DEF QuotaInv
<1> HIDE DEF id
<1>4. \A h \in S : /\ h.at \in Nat /\ h.at > clock - w /\ h.at <= clock
                   /\ Observation(id[h], "pre", scope, subject, h.at) \in observations
  BY <1>2
<1> QED
  BY ONLY <1>t, <1>1, <1>3, <1>4, Counted, w \in Nat, w <= Policy["pre"][scope].window

\* The transaction that admits a nonce found room for it in every quota.
LEMMA ClaimPreQuota ==
  ASSUME IInv, DeletionsAreFinal, Next, QuotaInv,
         NEW n \in Nonces, NEW rel \in ReleaseIds, ClaimPre(n, rel)
  PROVE  QuotaInv'
<1> DEFINE c == ClientOf[n]
<1>n. PICK new : new = [nonce |-> n, client |-> c, permit |-> nextId, at |-> clock]
  OBVIOUS
<1>a. /\ grants' = grants \union {new} /\ uses' = uses
      /\ observations' = LiveObservations(clock) \union Observed("pre", c, clock)
      /\ lastNow' = clock /\ clock' = clock /\ clock >= lastNow
      /\ ~PreLimited(c, clock)
  BY <1>n DEF ClaimPre, AuthorityNow
<1>t. /\ clock \in Nat /\ nextId \in Nat /\ c \in Clients
      /\ \A g \in grants : g.at \in Nat /\ g.permit \in Nat
  BY InputsAssumption DEF IInv, TypeOK
<1>f. Floor \in Nat /\ Floor <= Floor' /\ Floor' = clock
  BY FloorStep, <1>a DEF Floor
<1>g. \A g \in grants : g.at <= clock
  BY <1>f, <1>t DEF IInv, GrantInv
<1>r. new.client = c /\ new.permit = nextId /\ new.at = clock
  BY <1>n
<1>k. KeptInv
  BY DEF QuotaInv
<1>1. IsFiniteSet(observations') /\ IsFiniteSet(grants') /\ IsFiniteSet(uses')
  <2>1. IsFiniteSet(LiveObservations(clock))
    BY FS_Subset DEF QuotaInv, LiveObservations
  <2>2. IsFiniteSet(Observed("pre", c, clock))
    <3> PICK a, b : Observed("pre", c, clock) = {a} \union {b}
      BY DEF Observed
    <3>1. IsFiniteSet({a})
      BY FS_Singleton
    <3>2. IsFiniteSet({a} \union {b})
      BY <3>1, FS_AddElement
    <3> QED
      BY <3>2
  <2> QED
    BY <1>a, <2>1, <2>2, FS_Union, FS_AddElement DEF QuotaInv
<1>2. KeptInv'
  <2>1. /\ Kept(new.permit, "pre", "client", new.client, new.at)'
        /\ Kept(new.permit, "pre", "global", "*", new.at)'
    <3>1. /\ Observation(nextId, "pre", "client", c, clock) \in observations'
          /\ Observation(nextId, "pre", "global", "*", clock) \in observations'
      BY <1>a DEF Observed
    <3>2. PICK i, d, t : i = nextId /\ d = c /\ t = clock
      OBVIOUS
    <3>3. Kept(i, "pre", "client", d, t)' /\ Kept(i, "pre", "global", "*", t)'
      BY <3>1, <3>2 DEF Kept
    <3> QED
      BY <1>r, <3>2, <3>3
  <2> QED
    BY <1>a, <1>k, <2>1, EventsStayKept DEF KeptInv
<1>3. WindowsRespected'
  <2> DEFINE p == Policy.pre
             Mine(q) == WithinWindow(OfClient(grants, c), new, q.window)
             All(q)  == WithinWindow(grants, new, q.window)
  <2>t. IsFiniteSet(grants) /\ \A g \in grants : g.at \in Nat /\ g.at <= new.at
    BY <1>t, <1>g, <1>r DEF QuotaInv
  <2>1. ASSUME NEW q \in {p.client, p.clientBurst}
        PROVE  Cardinality(Mine(q)) < q.limit
    <3>1. q \in Windows /\ q.window <= Policy["pre"]["client"].window
      BY PolicyTypes, BurstAssumption
    <3>2. q.window \in Nat /\ q.limit \in Nat
      BY <3>1, PolicyTypes
    <3>3. \A h \in Mine(q) : /\ h \in grants /\ Kept(h.permit, "pre", "client", c, h.at)
                             /\ h.at > clock - q.window /\ h.at <= clock
      BY <1>r, <1>k DEF WithinWindow, OfClient, KeptInv
    <3> DEFINE S == Mine(q)
    <3> HIDE DEF S
    <3>4. /\ CountIn("pre", "client", c, q.window, clock) \in Nat
          /\ IsFiniteSet(S) /\ Cardinality(S) <= CountIn("pre", "client", c, q.window, clock)
      BY <1>f, <3>1, <3>2, <3>3, AdmissionsAreCounted DEF S
    <3>5. ~(CountIn("pre", "client", c, q.window, clock) >= q.limit)
      BY <1>a DEF PreLimited
    <3>6. Cardinality(S) \in Nat
      BY <3>4, FS_CardinalityType
    <3>7. Cardinality(S) < q.limit
      BY ONLY <3>2, <3>4, <3>5, <3>6
    <3> QED
      BY <3>7 DEF S
  <2>2. Cardinality(All(p.global)) < p.global.limit
    <3> DEFINE S == All(p.global)
               w == p.global.window
    <3>1. w <= Policy["pre"]["global"].window /\ w \in Nat /\ p.global.limit \in Nat
      BY PolicyTypes
    <3>3. \A h \in S : /\ h \in grants /\ Kept(h.permit, "pre", "global", "*", h.at)
                       /\ h.at > clock - w /\ h.at <= clock
      BY <1>r, <1>k DEF WithinWindow, KeptInv
    <3> HIDE DEF S
    <3>5. ~(CountIn("pre", "global", "*", w, clock) >= p.global.limit)
      BY <1>a DEF PreLimited
    <3> HIDE DEF w
    <3>4. /\ CountIn("pre", "global", "*", w, clock) \in Nat
          /\ IsFiniteSet(S) /\ Cardinality(S) <= CountIn("pre", "global", "*", w, clock)
      BY <1>f, <3>1, <3>3, AdmissionsAreCounted
    <3>6. Cardinality(S) \in Nat
      BY <3>4, FS_CardinalityType
    <3>7. Cardinality(S) < p.global.limit
      BY ONLY <3>1, <3>4, <3>5, <3>6
    <3> QED
      BY <3>7 DEF S
  <2>3. Within(grants \union {new}, p.global)
    BY <1>r, <1>t, <2>t, <2>2, PolicyTypes, OneMore DEF QuotaInv, WindowsRespected
  <2>4. ASSUME NEW d \in Clients, NEW q \in {p.client, p.clientBurst}
        PROVE  Within(OfClient(grants \union {new}, d), q)
    <3>1. q \in Windows
      BY PolicyTypes
    <3>2. \A e \in Clients : Within(OfClient(grants, e), q)
      BY DEF QuotaInv, WindowsRespected
    <3>3. Cardinality(WithinWindow(OfClient(grants, new.client), new, q.window)) < q.limit
      BY <1>r, <2>1
    <3>4. new.at \in Nat /\ new.client \in Clients
      BY <1>r, <1>t
    <3> QED
      BY ONLY <2>t, <3>1, <3>2, <3>3, <3>4, d \in Clients, OneMoreOfClient
  <2>5. /\ Within(grants', p.global)
        /\ \A d \in Clients : /\ Within(OfClient(grants', d), p.client)
                              /\ Within(OfClient(grants', d), p.clientBurst)
    BY <1>a, <2>3, <2>4
  <2>6. /\ Within(uses', Policy.post.global)
        /\ \A d \in Clients : Within(OfClient(uses', d), Policy.post.client)
    BY <1>a DEF QuotaInv, WindowsRespected
  <2> QED
    BY <2>5, <2>6 DEF WindowsRespected, Within, OfClient, WithinWindow
<1> QED
  BY <1>1, <1>2, <1>3 DEF QuotaInv
\* What consumePost would count is at least what it let through in the same window.
LEMMA UsesAreCounted ==
  ASSUME IInv, QuotaInv, Floor <= clock, NEW scope \in {"client", "global"}, NEW subject, NEW S,
         \A h \in S : h \in uses /\ Kept(h.id, "post", scope, subject, h.at),
         NEW w \in Nat, w <= Policy["post"][scope].window,
         \A h \in S : h.at > clock - w /\ h.at <= clock
  PROVE  /\ CountIn("post", scope, subject, w, clock) \in Nat
         /\ IsFiniteSet(S) /\ Cardinality(S) <= CountIn("post", scope, subject, w, clock)
<1> DEFINE id == [h \in S |-> h.id]
<1>t. /\ clock \in Nat /\ Floor \in Nat /\ Policy["post"][scope].window \in Nat
      /\ \A u \in uses : u.at \in Nat /\ u.id \in Nat
  BY PolicyTypes DEF IInv, TypeOK, Floor
<1>1. id \in [S -> Nat] /\ \A x, y \in S : id[x] = id[y] => x = y
  BY <1>t DEF QuotaInv, KeptInv
<1>2. ASSUME NEW h \in S
      PROVE  /\ h.at \in Nat
             /\ Observation(id[h], "post", scope, subject, h.at) \in observations
  <2>1. h.at \in Nat /\ h.at > clock - w
    BY <1>t
  <2>2. ~(h.at <= Floor - Policy["post"][scope].window)
    BY <1>t, <2>1
  <2>3. Kept(h.id, "post", scope, subject, h.at) /\ id[h] = h.id
    OBVIOUS
  <2> QED
    BY <2>1, <2>2, <2>3 DEF Kept
<1>3. IsFiniteSet(observations)
  BY DEF QuotaInv
<1> HIDE DEF id
<1>4. \A h \in S : /\ h.at \in Nat /\ h.at > clock - w /\ h.at <= clock
                   /\ Observation(id[h], "post", scope, subject, h.at) \in observations
  BY <1>2
<1> QED
  BY ONLY <1>t, <1>1, <1>3, <1>4, Counted, w \in Nat, w <= Policy["post"][scope].window

\* The transaction that consumes a permit found room for it in every quota.
LEMMA ConsumePostQuota ==
  ASSUME IInv, DeletionsAreFinal, Next, QuotaInv,
         NEW n \in Nonces, NEW rel \in ReleaseIds, NEW c \in Clients,
         NEW permit \in Nat, ConsumePost(n, rel, c, permit)
  PROVE  QuotaInv'
<1>n. PICK new : new = [nonce |-> n, client |-> c, permit |-> permit, at |-> clock, id |-> nextId]
  OBVIOUS
<1>a. /\ uses' = uses \union {new} /\ grants' = grants
      /\ observations' = LiveObservations(clock) \union Observed("post", c, clock)
      /\ lastNow' = clock /\ clock' = clock /\ clock >= lastNow
      /\ ~PostLimited(c, clock)
  BY <1>n DEF ConsumePost, AuthorityNow
<1>t. /\ clock \in Nat /\ nextId \in Nat /\ c \in Clients
      /\ \A u \in uses : u.at \in Nat /\ u.id \in Nat
  BY DEF IInv, TypeOK
<1>f. Floor \in Nat /\ Floor <= Floor' /\ Floor' = clock
  BY FloorStep, <1>a DEF Floor
<1>g. \A u \in uses : u.at <= clock /\ u.id # nextId
  BY <1>f, <1>t DEF IInv, UseInv
<1>r. new.client = c /\ new.id = nextId /\ new.at = clock
  BY <1>n
<1>k. KeptInv
  BY DEF QuotaInv
<1>1. IsFiniteSet(observations') /\ IsFiniteSet(grants') /\ IsFiniteSet(uses')
  <2>1. IsFiniteSet(LiveObservations(clock))
    BY FS_Subset DEF QuotaInv, LiveObservations
  <2>2. IsFiniteSet(Observed("post", c, clock))
    <3> PICK a, b : Observed("post", c, clock) = {a} \union {b}
      BY DEF Observed
    <3>1. IsFiniteSet({a})
      BY FS_Singleton
    <3>2. IsFiniteSet({a} \union {b})
      BY <3>1, FS_AddElement
    <3> QED
      BY <3>2
  <2> QED
    BY <1>a, <2>1, <2>2, FS_Union, FS_AddElement DEF QuotaInv
<1>2. KeptInv'
  <2>1. /\ Kept(new.id, "post", "client", new.client, new.at)'
        /\ Kept(new.id, "post", "global", "*", new.at)'
    <3>1. /\ Observation(nextId, "post", "client", c, clock) \in observations'
          /\ Observation(nextId, "post", "global", "*", clock) \in observations'
      BY <1>a DEF Observed
    <3>2. PICK i, d, t : i = nextId /\ d = c /\ t = clock
      OBVIOUS
    <3>3. Kept(i, "post", "client", d, t)' /\ Kept(i, "post", "global", "*", t)'
      BY <3>1, <3>2 DEF Kept
    <3> QED
      BY <1>r, <3>2, <3>3
  <2>2. \A u, v \in uses' : u.id = v.id => u = v
    BY <1>a, <1>k, <1>g, <1>r DEF KeptInv
  <2>3. /\ \A g \in grants' : /\ Kept(g.permit, "pre", "client", g.client, g.at)'
                              /\ Kept(g.permit, "pre", "global", "*", g.at)'
        /\ \A u \in uses' : /\ Kept(u.id, "post", "client", u.client, u.at)'
                            /\ Kept(u.id, "post", "global", "*", u.at)'
    BY <1>a, <1>k, <2>1, EventsStayKept
  <2> QED
    BY <2>2, <2>3 DEF KeptInv
<1>3. WindowsRespected'
  <2> DEFINE p == Policy.post
             Mine(q) == WithinWindow(OfClient(uses, c), new, q.window)
             All(q)  == WithinWindow(uses, new, q.window)
  <2>t. IsFiniteSet(uses) /\ \A g \in uses : g.at \in Nat /\ g.at <= new.at
    BY <1>t, <1>g, <1>r DEF QuotaInv
  <2>1. ASSUME NEW q \in {p.client}
        PROVE  Cardinality(Mine(q)) < q.limit
    <3>1. q \in Windows /\ q.window <= Policy["post"]["client"].window
      BY PolicyTypes
    <3>2. q.window \in Nat /\ q.limit \in Nat
      BY <3>1, PolicyTypes
    <3>3. \A h \in Mine(q) : /\ h \in uses /\ Kept(h.id, "post", "client", c, h.at)
                             /\ h.at > clock - q.window /\ h.at <= clock
      BY <1>r, <1>k DEF WithinWindow, OfClient, KeptInv
    <3> DEFINE S == Mine(q)
    <3> HIDE DEF S
    <3>4. /\ CountIn("post", "client", c, q.window, clock) \in Nat
          /\ IsFiniteSet(S) /\ Cardinality(S) <= CountIn("post", "client", c, q.window, clock)
      BY <1>f, <3>1, <3>2, <3>3, UsesAreCounted DEF S
    <3>5. ~(CountIn("post", "client", c, q.window, clock) >= q.limit)
      BY <1>a DEF PostLimited
    <3>6. Cardinality(S) \in Nat
      BY <3>4, FS_CardinalityType
    <3>7. Cardinality(S) < q.limit
      BY ONLY <3>2, <3>4, <3>5, <3>6
    <3> QED
      BY <3>7 DEF S
  <2>2. Cardinality(All(p.global)) < p.global.limit
    <3> DEFINE S == All(p.global)
               w == p.global.window
    <3>1. w <= Policy["post"]["global"].window /\ w \in Nat /\ p.global.limit \in Nat
      BY PolicyTypes
    <3>3. \A h \in S : /\ h \in uses /\ Kept(h.id, "post", "global", "*", h.at)
                       /\ h.at > clock - w /\ h.at <= clock
      BY <1>r, <1>k DEF WithinWindow, KeptInv
    <3> HIDE DEF S
    <3>5. ~(CountIn("post", "global", "*", w, clock) >= p.global.limit)
      BY <1>a DEF PostLimited
    <3> HIDE DEF w
    <3>4. /\ CountIn("post", "global", "*", w, clock) \in Nat
          /\ IsFiniteSet(S) /\ Cardinality(S) <= CountIn("post", "global", "*", w, clock)
      BY <1>f, <3>1, <3>3, UsesAreCounted
    <3>6. Cardinality(S) \in Nat
      BY <3>4, FS_CardinalityType
    <3>7. Cardinality(S) < p.global.limit
      BY ONLY <3>1, <3>4, <3>5, <3>6
    <3> QED
      BY <3>7 DEF S
  <2>3. Within(uses \union {new}, p.global)
    BY <1>r, <1>t, <2>t, <2>2, PolicyTypes, OneMore DEF QuotaInv, WindowsRespected
  <2>4. ASSUME NEW d \in Clients, NEW q \in {p.client}
        PROVE  Within(OfClient(uses \union {new}, d), q)
    <3>1. q \in Windows
      BY PolicyTypes
    <3>2. \A e \in Clients : Within(OfClient(uses, e), q)
      BY DEF QuotaInv, WindowsRespected
    <3>3. Cardinality(WithinWindow(OfClient(uses, new.client), new, q.window)) < q.limit
      BY <1>r, <2>1
    <3>4. new.at \in Nat /\ new.client \in Clients
      BY <1>r, <1>t
    <3> QED
      BY ONLY <2>t, <3>1, <3>2, <3>3, <3>4, d \in Clients, OneMoreOfClient
  <2>5. Within(uses', p.global) /\ \A d \in Clients : Within(OfClient(uses', d), p.client)
    BY <1>a, <2>3, <2>4
  <2>6. /\ Within(grants', Policy.pre.global)
        /\ \A d \in Clients : /\ Within(OfClient(grants', d), Policy.pre.client)
                              /\ Within(OfClient(grants', d), Policy.pre.clientBurst)
    BY <1>a DEF QuotaInv, WindowsRespected
  <2> QED
    BY <2>5, <2>6 DEF WindowsRespected, Within, OfClient, WithinWindow
<1> QED
  BY <1>1, <1>2, <1>3 DEF QuotaInv

-----------------------------------------------------------------------------
\* Every step of the authority keeps the quotas.
LEMMA QuotaStep ==
  ASSUME IInv, DeletionsAreFinal, [Next]_vars, QuotaInv
  PROVE  QuotaInv'
<1>1. ASSUME NEW n \in Nonces, NEW rel \in ReleaseIds, ClaimPreStale(n, rel) \/ ClaimPreDenied(n, rel)
      PROVE  observations' \subseteq observations /\ UNCHANGED <<grants, uses>>
  BY <1>1 DEF ClaimPreStale, ClaimPreDenied, Deny, LiveObservations
<1>2. ASSUME NEW n \in Nonces, NEW rel \in ReleaseIds, NEW c \in Clients, NEW permit,
             ConsumePostDenied(n, rel, c, permit)
      PROVE  observations' \subseteq observations /\ UNCHANGED <<grants, uses>>
  BY <1>2 DEF ConsumePostDenied, Deny, LiveObservations
<1>3. ASSUME Alarm \/ Tick \/ StepBack \/ UNCHANGED vars
      PROVE  observations' \subseteq observations /\ UNCHANGED <<grants, uses>>
  BY <1>3 DEF Alarm, Tick, StepBack, vars, store
<1>4. ASSUME Next, NEW n \in Nonces, NEW rel \in ReleaseIds, ClaimPre(n, rel)
      PROVE  QuotaInv'
  BY <1>4, ClaimPreQuota
<1>5. ASSUME Next, NEW n \in Nonces, NEW rel \in ReleaseIds, NEW c \in Clients, NEW g \in grants,
             ConsumePost(n, rel, c, g.permit)
      PROVE  QuotaInv'
  <2>1. g.permit \in Nat
    BY DEF IInv, TypeOK
  <2> QED
    BY <1>5, <2>1, ConsumePostQuota
<1> QED
  BY <1>1, <1>2, <1>3, <1>4, <1>5, QuietQuota DEF Next

\* In every window the admissions and the consumptions stay within every quota,
\* for any policy whose burst window is no longer than the client's, although the
\* rows that are counted are pruned per stage and scope (prune, count, cleanup).
THEOREM QuotasAreRespected ==
  ASSUME DeletionsAreFinal
  PROVE  Spec => []WindowsRespected
<1>1. Init => QuotaInv
  BY FS_EmptySet DEF Init, QuotaInv, KeptInv, WindowsRespected, Within, OfClient
<1>2. IInv /\ QuotaInv /\ [Next]_vars => QuotaInv'
  BY QuotaStep
<1>3. QuotaInv => WindowsRespected
  BY DEF QuotaInv
<1> QED
  BY <1>1, <1>2, <1>3, Invariance, PTL DEF Spec

-----------------------------------------------------------------------------
(* Calls that come through the service.                                    *)

\* The release an authority decides for is one of its own.
LEMMA DecidesForReleases ==
  ASSUME NEW n, NEW rel, NEW c, NEW p,
         \/ ClaimPre(n, rel) \/ ClaimPreStale(n, rel) \/ ClaimPreDenied(n, rel)
         \/ ConsumePost(n, rel, c, p) \/ ConsumePostDenied(n, rel, c, p)
  PROVE  rel \in ReleaseIds
<1>1. AuthorityNow(rel)
  BY DEF ClaimPre, ClaimPreStale, ClaimPreDenied, ConsumePost, ConsumePostDenied
<1> QED
  BY <1>1 DEF AuthorityNow, ReleaseIds

\* What a message of the service means to the authority.
LEMMA CalledIsTyped ==
  ASSUME IInv, MessageInv, NEW s \in Isolates, calls[s].pc = "calling"
  PROVE  LET c == Called(calls[s]) IN
         /\ calls[s].msg \in rpcs /\ calls[s].msg.path \in {"pre", "post"}
         /\ c.nonce = calls[s].msg.nonce /\ c.release = calls[s].msg.releaseId
         /\ c.client = calls[s].msg.client /\ c.permit = calls[s].msg.permit
         /\ c.nonce \in Nonces /\ c.client = ClientOf[c.nonce] /\ c.client \in Clients
         /\ calls[s].msg.path = "post" => \E g \in grants : g.nonce = c.nonce /\ g.permit = c.permit
BY InputsAssumption DEF MessageInv, Called

\* Every call of the service is a step of the authority.
LEMMA ServiceDecides ==
  ASSUME IInv, MessageInv, NEW s \in Isolates, CallPre(s) \/ CallPost(s)
  PROVE  Next
<1> DEFINE c == Called(calls[s])
<1>1. calls[s].pc = "calling"
  BY DEF CallPre, CallPost
<1>2. c.nonce \in Nonces /\ c.client \in Clients
  BY <1>1, CalledIsTyped
<1> PICK n, rel, d, p : n = c.nonce /\ rel = c.release /\ d = c.client /\ p = c.permit
  OBVIOUS
<1> HIDE DEF c
<1>3. ASSUME ClaimPre(n, rel) \/ ClaimPreStale(n, rel) \/ ClaimPreDenied(n, rel) PROVE Next
  BY <1>2, <1>3, DecidesForReleases DEF Next
<1>4. ASSUME NEW g \in grants, g.permit = p, ConsumePost(n, rel, d, p) \/ ConsumePostDenied(n, rel, d, p)
      PROVE  Next
  BY <1>2, <1>4, DecidesForReleases DEF Next
<1>5. calls[s].msg.path = "post" => \E g \in grants : g.permit = p
  BY <1>1, CalledIsTyped DEF c
<1>6. CASE CallPre(s)
  BY <1>3, <1>6 DEF CallPre, c
<1>7. CASE CallPost(s)
  BY <1>4, <1>5, <1>7 DEF CallPost, c
<1> QED
  BY <1>6, <1>7

LEMMA ServiceStepIsAStep ==
  ASSUME IInv, MessageInv, [ServiceNext]_serviceVars
  PROVE  [Next]_vars
<1>1. ASSUME NEW s \in Isolates, CallPre(s) \/ CallPost(s) PROVE Next
  BY <1>1, ServiceDecides
<1>2. ASSUME Tick \/ Alarm PROVE Next
  BY <1>2 DEF Next
<1>3. ASSUME NEW app, NEW token, NEW n, SendPre(app, n, token) PROVE UNCHANGED vars
  BY <1>3 DEF SendPre
<1>4. ASSUME NEW app, NEW token, NEW g, SendPost(app, g, token) PROVE UNCHANGED vars
  BY <1>4 DEF SendPost
<1>5. ASSUME NEW s, NEW m, Receive(s, m) PROVE UNCHANGED vars
  BY <1>5 DEF Receive
<1>6. ASSUME NEW s, Authenticate(s) \/ Drop(s) PROVE UNCHANGED vars
  BY <1>6 DEF Authenticate, Drop
<1>7. ASSUME NEW releases, Deploy(releases) PROVE UNCHANGED vars
  BY <1>7 DEF Deploy
<1>8. UNCHANGED serviceVars => UNCHANGED vars
  BY DEF serviceVars
<1> QED
  BY <1>1, <1>2, <1>3, <1>4, <1>5, <1>6, <1>7, <1>8 DEF ServiceNext

\* Messages stay about requests of the flow: histories only grow.
LEMMA MessageStep ==
  ASSUME IInv, ServiceInv, [ServiceNext]_serviceVars
  PROVE  MessageInv'
<1> DEFINE Sound(m, G) == /\ m.nonce \in Nonces /\ m.client = ClientOf[m.nonce]
                          /\ m.path \in {"pre", "post"}
                          /\ m.path = "post" => \E g \in G : g.nonce = m.nonce /\ g.permit = m.permit
<1>i. (\A m \in rpcs : Sound(m, grants)) /\ DOMAIN calls = Isolates
      /\ \A s \in Isolates : calls[s].pc \in {"authenticating", "calling"} => calls[s].msg \in rpcs
  BY DEF ServiceInv, MessageInv
<1>d. ASSUME \A m \in rpcs' : Sound(m, grants'), DOMAIN calls' = Isolates,
             \A s \in Isolates : calls'[s].pc \in {"authenticating", "calling"} => calls'[s].msg \in rpcs'
      PROVE  MessageInv'
  BY <1>d DEF MessageInv
<1>1. ASSUME NEW m, Sound(m, grants), rpcs' = rpcs \union {m}, UNCHANGED <<grants, calls>> PROVE MessageInv'
  <2> HIDE DEF Sound
  <2> QED
    BY <1>1, <1>i, <1>d
<1>2. ASSUME NEW app, NEW token, NEW n \in Nonces, SendPre(app, n, token) PROVE MessageInv'
  <2> PICK m : m = Message(app, "pre", n, NoPermit, token)
    OBVIOUS
  <2>1. Sound(m, grants)
    BY DEF Message
  <2> QED
    BY <1>1, <1>2, <2>1 DEF SendPre, vars
<1>3. ASSUME NEW app, NEW token, NEW g \in grants, SendPost(app, g, token) PROVE MessageInv'
  <2> PICK m : m = Message(app, "post", g.nonce, g.permit, token)
    OBVIOUS
  <2>0. g.nonce \in Nonces
    BY DEF IInv, TypeOK
  <2>1. Sound(m, grants)
    BY <2>0 DEF Message
  <2> QED
    BY <1>1, <1>3, <2>1 DEF SendPost, vars
<1>4. ASSUME grants \subseteq grants', rpcs' = rpcs, NEW s \in Isolates, NEW c,
             calls' = [calls EXCEPT ![s] = c],
             c.pc \in {"authenticating", "calling"} => c.msg \in rpcs
      PROVE  MessageInv'
  <2>1. \A m \in rpcs' : Sound(m, grants')
    BY <1>4, <1>i
  <2> HIDE DEF Sound
  <2> QED
    BY <1>4, <1>i, <1>d, <2>1
<1>5. ASSUME NEW s \in Isolates, NEW m \in rpcs, Receive(s, m) PROVE MessageInv'
  <2> PICK c : c = [pc |-> "authenticating", msg |-> m, at |-> clock, releases |-> serving]
    OBVIOUS
  <2> QED
    BY <1>4, <1>5 DEF Receive, Becomes, vars
<1>6. ASSUME NEW s \in Isolates, Authenticate(s) PROVE MessageInv'
  <2>1. CASE Becomes(s, Idle)
    <3> PICK c : c = Idle
      OBVIOUS
    <3>1. c.pc = "idle"
      BY DEF Idle
    <3> QED
      BY <1>4, <1>6, <2>1, <3>1 DEF Authenticate, Becomes, vars
  <2>2. CASE Becomes(s, [calls[s] EXCEPT !.pc = "calling"])
    <3> PICK c : c = [calls[s] EXCEPT !.pc = "calling"]
      OBVIOUS
    <3>1. c.msg = calls[s].msg
      OBVIOUS
    <3>2. c.msg \in rpcs
      BY <1>6, <1>i, <3>1 DEF Authenticate
    <3> QED
      BY <1>4, <1>6, <2>2, <3>2 DEF Authenticate, Becomes, vars
  <2> QED
    BY <1>6, <2>1, <2>2 DEF Authenticate
<1>7. ASSUME NEW s \in Isolates, CallPre(s) \/ CallPost(s) \/ Drop(s) PROVE MessageInv'
  <2>1. Becomes(s, Idle) /\ rpcs' = rpcs
    BY <1>7 DEF CallPre, CallPost, Drop, Answers, AnswersNo
  <2>2. grants \subseteq grants'
    BY <1>7 DEF CallPre, CallPost, Drop, ClaimPre, ClaimPreStale, ClaimPreDenied, ConsumePost,
                ConsumePostDenied, Deny, vars
  <2> PICK c : c = Idle
    OBVIOUS
  <2>3. c.pc = "idle"
    BY DEF Idle
  <2> QED
    BY <1>4, <2>1, <2>2, <2>3 DEF Becomes
<1>8. ASSUME UNCHANGED <<grants, rpcs, calls>> PROVE MessageInv'
  <2> HIDE DEF Sound
  <2> QED
    BY <1>8, <1>i, <1>d
<1>9. ASSUME NEW releases, Deploy(releases) PROVE UNCHANGED <<grants, rpcs, calls>>
  BY <1>9 DEF Deploy, vars
<1>10. ASSUME Tick \/ Alarm, UNCHANGED service PROVE UNCHANGED <<grants, rpcs, calls>>
  BY <1>10 DEF Tick, Alarm, service
<1>11. UNCHANGED serviceVars => UNCHANGED <<grants, rpcs, calls>>
  BY DEF serviceVars, service, vars
<1> QED
  BY <1>2, <1>3, <1>5, <1>6, <1>7, <1>8, <1>9, <1>10, <1>11 DEF ServiceNext
\* A step that answers nobody "allowed" adds no row and no event.
LEMMA NothingAnswered ==
  ASSUME ServiceInv, UNCHANGED <<grants, uses, answered>>, nonces' \subseteq nonces
  PROVE  AnswerInv' /\ AdmittedAsSigned'
<1>1. AnswerInv'
  BY DEF ServiceInv, AnswerInv
<1>2. AdmittedAsSigned'
  BY DEF ServiceInv, AdmittedAsSigned
<1> QED
  BY <1>1, <1>2

\* The answer to an admission is about what was signed.
LEMMA AdmissionAnswered ==
  ASSUME IInv, DeletionsAreFinal, ServiceInv, Next,
         NEW s \in Isolates, calls[s].pc = "calling", calls[s].msg.path = "pre",
         ClaimPre(Called(calls[s]).nonce, Called(calls[s]).release), Answers(s, nextId)
  PROVE  AnswerInv' /\ AdmittedAsSigned'
<1> DEFINE c == Called(calls[s])
<1>pm. PICK m : m = calls[s].msg
  OBVIOUS
<1>pn. PICK n, rel : n = c.nonce /\ rel = c.release
  OBVIOUS
<1>pd. PICK d0 : d0 = [msg |-> calls[s].msg, at |-> calls[s].at, decided |-> clock, permit |-> nextId]
  OBVIOUS
<1>pg. PICK g0 : g0 = [nonce |-> n, client |-> ClientOf[n], permit |-> nextId, at |-> clock]
  OBVIOUS
<1>pr. PICK r0 : r0 = [nonce |-> n, release |-> rel, client |-> ClientOf[n], permit |-> nextId,
                    expires |-> clock + PermitLifetime,
                    retainUntil |-> clock + NonceRetention, consumed |-> FALSE]
  OBVIOUS
<1>1. n = m.nonce /\ rel = m.releaseId /\ m.client = ClientOf[n] /\ n \in Nonces /\ m.path = "pre"
  BY <1>pm, <1>pn, CalledIsTyped DEF ServiceInv
<1>2. /\ grants' = grants \union {g0} /\ uses' = uses /\ answered' = answered \union {d0}
      /\ nonces' = LiveNonces(clock) \union {r0}
  BY <1>pn, <1>pd, <1>pg, <1>pr DEF ClaimPre, Answers, c
<1>3. /\ g0.nonce = n /\ g0.client = ClientOf[n] /\ g0.permit = nextId /\ g0.at = clock
      /\ d0.msg = m /\ d0.decided = clock /\ d0.permit = nextId
      /\ r0.nonce = n /\ r0.release = rel /\ r0.permit = nextId
  BY <1>pm, <1>pd, <1>pg, <1>pr
<1>4. rel \in ReleaseIds
  BY <1>pn, DecidesForReleases DEF c
<1>5. \A g \in grants : g.nonce # n
  BY <1>1, <1>4, <1>pn, ClaimPreAdmitsNew DEF c
<1>l. LiveNonces(clock) \subseteq nonces
  BY DEF LiveNonces
<1>i. AnswerInv /\ AdmittedAsSigned
  BY DEF ServiceInv
<1> HIDE DEF c
<1>o. \A e \in answered : e.msg.path = "pre" => e.msg.nonce # n
  BY <1>5, <1>i DEF AdmittedAsSigned
<1>6. AnswerInv'
  <2>1. \A g \in grants' : \E e \in answered' :
           e.msg.path = "pre" /\ e.permit = g.permit /\ e.msg.nonce = g.nonce /\ e.decided = g.at
    BY <1>1, <1>2, <1>3, <1>i DEF AnswerInv
  <2>2. \A row \in nonces' : \E e \in answered' :
           /\ e.msg.path = "pre" /\ e.permit = row.permit
           /\ e.msg.nonce = row.nonce /\ e.msg.releaseId = row.release
    BY <1>1, <1>2, <1>3, <1>l, <1>i DEF AnswerInv
  <2>3. \A e \in answered' : e.msg.path = "post" => \E u \in uses' : u.nonce = e.msg.nonce
    BY <1>1, <1>2, <1>3, <1>i DEF AnswerInv
  <2> QED
    BY <2>1, <2>2, <2>3 DEF AnswerInv
<1>7. \A row \in nonces : row.nonce # n
  BY <1>o, <1>i DEF AnswerInv
<1>8. ASSUME NEW d \in answered'
      PROVE  /\ d.msg.path = "pre" =>
                   /\ \E g \in grants' : /\ g.nonce = d.msg.nonce /\ g.client = d.msg.client
                                         /\ g.permit = d.permit /\ g.at = d.decided
                   /\ \A row \in nonces' : row.nonce = d.msg.nonce => row.release = d.msg.releaseId
             /\ d.msg.path = "post" =>
                   \E e \in answered' : /\ e.msg.path = "pre" /\ e.permit = d.msg.permit
                                        /\ e.msg.nonce = d.msg.nonce
                                        /\ e.msg.releaseId = d.msg.releaseId /\ e.decided <= d.decided
             /\ \A e \in answered' : e.msg.path = d.msg.path /\ e.msg.nonce = d.msg.nonce => e = d
  <2>1. CASE d = d0
    BY <1>1, <1>2, <1>3, <1>7, <1>l, <1>o, <2>1
  <2>2. CASE d \in answered
    <3>1. /\ d.msg.path = "pre" =>
                /\ \E g \in grants : /\ g.nonce = d.msg.nonce /\ g.client = d.msg.client
                                     /\ g.permit = d.permit /\ g.at = d.decided
                /\ \A row \in nonces : row.nonce = d.msg.nonce => row.release = d.msg.releaseId
          /\ d.msg.path = "post" =>
                \E e \in answered : /\ e.msg.path = "pre" /\ e.permit = d.msg.permit
                                    /\ e.msg.nonce = d.msg.nonce
                                    /\ e.msg.releaseId = d.msg.releaseId /\ e.decided <= d.decided
          /\ \A e \in answered : e.msg.path = d.msg.path /\ e.msg.nonce = d.msg.nonce => e = d
      BY <2>2, <1>i DEF AdmittedAsSigned
    <3>2. d.msg.path = "pre" => d.msg.nonce # n
      BY <1>o, <2>2
    <3> QED
      BY <1>1, <1>2, <1>3, <1>l, <3>1, <3>2
  <2> QED
    BY <1>2, <2>1, <2>2
<1>9. AdmittedAsSigned'
  BY <1>8 DEF AdmittedAsSigned
<1> QED
  BY <1>6, <1>9

\* The answer to a consumption is about the admission the same release signed.
LEMMA ConsumptionAnswered ==
  ASSUME IInv, IInv', ServiceInv,
         NEW s \in Isolates, calls[s].pc = "calling", calls[s].msg.path = "post", clock \in Nat,
         Floor <= clock,
         ConsumePost(Called(calls[s]).nonce, Called(calls[s]).release, Called(calls[s]).client,
                     Called(calls[s]).permit),
         Answers(s, Called(calls[s]).permit)
  PROVE  AnswerInv' /\ AdmittedAsSigned'
<1> DEFINE c == Called(calls[s])
<1>pm. PICK m : m = calls[s].msg
  OBVIOUS
<1>pn. PICK n, rel, p : n = c.nonce /\ rel = c.release /\ p = c.permit
  OBVIOUS
<1>pd. PICK d0 : d0 = [msg |-> calls[s].msg, at |-> calls[s].at, decided |-> clock, permit |-> p]
  OBVIOUS
<1>pu. PICK u0 : u0 = [nonce |-> n, client |-> c.client, permit |-> p, at |-> clock, id |-> nextId]
  OBVIOUS
<1>1. n = m.nonce /\ rel = m.releaseId /\ p = m.permit /\ m.path = "post"
  BY <1>pm, <1>pn, CalledIsTyped DEF ServiceInv
<1>2. PICK row \in nonces :
         /\ row.nonce = n /\ row.release = rel /\ row.permit = p /\ ~row.consumed
         /\ nonces' = (LiveNonces(clock) \ {row}) \union {[row EXCEPT !.consumed = TRUE]}
  BY <1>pn DEF ConsumePost, LiveNonces, Matches, c
<1>pr. PICK r0 : r0 = [row EXCEPT !.consumed = TRUE]
  OBVIOUS
<1>3. /\ grants' = grants /\ uses' = uses \union {u0} /\ answered' = answered \union {d0}
      /\ nonces' \subseteq nonces \union {r0}
  BY <1>2, <1>pn, <1>pd, <1>pu, <1>pr DEF ConsumePost, Answers, LiveNonces, c
<1>4. u0.nonce = n /\ d0.msg = m /\ d0.decided = clock /\ d0.permit = p
  BY <1>pm, <1>pd, <1>pu
<1>5. r0.nonce = row.nonce /\ r0.release = row.release /\ r0.permit = row.permit
  <2>1. row \in NonceRow
    BY <1>2 DEF IInv, TypeOK
  <2> QED
    BY <1>pr, <2>1 DEF NonceRow
<1>i. AnswerInv /\ AdmittedAsSigned
  BY DEF ServiceInv
<1> HIDE DEF c
<1>o. \A e \in answered : e.msg.path = "post" => e.msg.nonce # n
  <2>1. \A u \in uses : u.nonce # n
    BY <1>2 DEF IInv, UseInv
  <2> QED
    BY <2>1, <1>i DEF AnswerInv
<1>e. PICK e0 \in answered : /\ e0.msg.path = "pre" /\ e0.permit = p
                             /\ e0.msg.nonce = n /\ e0.msg.releaseId = rel
  BY <1>2, <1>i DEF AnswerInv
<1>t. e0.decided <= clock
  <2>1. PICK g \in grants : g.at = e0.decided
    BY <1>e, <1>i DEF AdmittedAsSigned
  <2>2. g.at \in Nat /\ g.at <= Floor /\ Floor \in Nat
    BY DEF IInv, TypeOK, GrantInv, Floor
  <2> QED
    BY <2>1, <2>2
<1>6. AnswerInv'
  <2>1. \A g \in grants' : \E e \in answered' :
           e.msg.path = "pre" /\ e.permit = g.permit /\ e.msg.nonce = g.nonce /\ e.decided = g.at
    BY <1>3, <1>i DEF AnswerInv
  <2>2. \A q \in nonces' : \E e \in answered' :
           /\ e.msg.path = "pre" /\ e.permit = q.permit
           /\ e.msg.nonce = q.nonce /\ e.msg.releaseId = q.release
    BY <1>3, <1>5, <1>i DEF AnswerInv
  <2>3. \A e \in answered' : e.msg.path = "post" => \E u \in uses' : u.nonce = e.msg.nonce
    BY <1>1, <1>3, <1>4, <1>i DEF AnswerInv
  <2> QED
    BY <2>1, <2>2, <2>3 DEF AnswerInv
<1>8. ASSUME NEW d \in answered'
      PROVE  /\ d.msg.path = "pre" =>
                   /\ \E g \in grants' : /\ g.nonce = d.msg.nonce /\ g.client = d.msg.client
                                         /\ g.permit = d.permit /\ g.at = d.decided
                   /\ \A q \in nonces' : q.nonce = d.msg.nonce => q.release = d.msg.releaseId
             /\ d.msg.path = "post" =>
                   \E e \in answered' : /\ e.msg.path = "pre" /\ e.permit = d.msg.permit
                                        /\ e.msg.nonce = d.msg.nonce
                                        /\ e.msg.releaseId = d.msg.releaseId /\ e.decided <= d.decided
             /\ \A e \in answered' : e.msg.path = d.msg.path /\ e.msg.nonce = d.msg.nonce => e = d
  <2>1. CASE d = d0
    BY <1>1, <1>3, <1>4, <1>e, <1>t, <1>o, <2>1
  <2>2. CASE d \in answered
    <3>1. /\ d.msg.path = "pre" =>
                /\ \E g \in grants : /\ g.nonce = d.msg.nonce /\ g.client = d.msg.client
                                     /\ g.permit = d.permit /\ g.at = d.decided
                /\ \A q \in nonces : q.nonce = d.msg.nonce => q.release = d.msg.releaseId
          /\ d.msg.path = "post" =>
                \E e \in answered : /\ e.msg.path = "pre" /\ e.permit = d.msg.permit
                                    /\ e.msg.nonce = d.msg.nonce
                                    /\ e.msg.releaseId = d.msg.releaseId /\ e.decided <= d.decided
          /\ \A e \in answered : e.msg.path = d.msg.path /\ e.msg.nonce = d.msg.nonce => e = d
      BY <2>2, <1>i DEF AdmittedAsSigned
    <3>2. d.msg.path = "post" => d.msg.nonce # n
      BY <1>o, <2>2
    <3> QED
      BY <1>1, <1>3, <1>4, <1>5, <3>1, <3>2
  <2> QED
    BY <1>3, <2>1, <2>2
<1>9. AdmittedAsSigned'
  BY <1>8 DEF AdmittedAsSigned
<1> QED
  BY <1>6, <1>9

LEMMA ServiceInvStep ==
  ASSUME IInv, DeletionsAreFinal, ServiceInv, [ServiceNext]_serviceVars
  PROVE  IInv' /\ ServiceInv'
<1>0. MessageInv
  BY DEF ServiceInv
<1>1. [Next]_vars /\ IInv'
  BY <1>0, ServiceStepIsAStep, StepPreserves
<1>2. MessageInv'
  BY MessageStep
<1>3. ASSUME NEW s \in Isolates, CallPre(s)
      PROVE  AnswerInv' /\ AdmittedAsSigned'
  <2> PICK n, rel : n = Called(calls[s]).nonce /\ rel = Called(calls[s]).release
    OBVIOUS
  <2>1. CASE ClaimPre(n, rel) /\ Answers(s, nextId)
    BY <1>0, <1>3, <2>1, ServiceDecides, AdmissionAnswered DEF CallPre
  <2>2. CASE (ClaimPreStale(n, rel) \/ ClaimPreDenied(n, rel)) /\ AnswersNo(s)
    BY <2>2, NothingAnswered DEF ClaimPreStale, ClaimPreDenied, Deny, AnswersNo, LiveNonces
  <2> QED
    BY <1>3, <2>1, <2>2 DEF CallPre
<1>4. ASSUME NEW s \in Isolates, CallPost(s)
      PROVE  AnswerInv' /\ AdmittedAsSigned'
  <2> PICK n, rel, c, p : /\ n = Called(calls[s]).nonce /\ rel = Called(calls[s]).release
                          /\ c = Called(calls[s]).client /\ p = Called(calls[s]).permit
    OBVIOUS
  <2>1. CASE ConsumePost(n, rel, c, p) /\ Answers(s, p)
    <3>1. clock \in Nat /\ Floor <= clock
      BY <2>1 DEF ConsumePost, AuthorityNow, IInv, TypeOK, Floor
    <3> QED
      BY <1>1, <1>4, <2>1, <3>1, ConsumptionAnswered DEF CallPost
  <2>2. CASE ConsumePostDenied(n, rel, c, p) /\ AnswersNo(s)
    BY <2>2, NothingAnswered DEF ConsumePostDenied, Deny, AnswersNo, LiveNonces
  <2> QED
    BY <1>4, <2>1, <2>2 DEF CallPost
<1>5. ASSUME UNCHANGED <<grants, uses, answered>>, nonces' \subseteq nonces
      PROVE  AnswerInv' /\ AdmittedAsSigned'
  BY <1>5, NothingAnswered
<1>6. ASSUME NEW app, NEW token, NEW n, SendPre(app, n, token)
      PROVE  UNCHANGED <<grants, uses, answered, nonces>>
  BY <1>6 DEF SendPre, vars, store
<1>7. ASSUME NEW app, NEW token, NEW g, SendPost(app, g, token)
      PROVE  UNCHANGED <<grants, uses, answered, nonces>>
  BY <1>7 DEF SendPost, vars, store
<1>8. ASSUME NEW s, NEW m, Receive(s, m) PROVE UNCHANGED <<grants, uses, answered, nonces>>
  BY <1>8 DEF Receive, vars, store
<1>9. ASSUME NEW s, Authenticate(s) \/ Drop(s) PROVE UNCHANGED <<grants, uses, answered, nonces>>
  BY <1>9 DEF Authenticate, Drop, vars, store
<1>10. ASSUME NEW releases, Deploy(releases) PROVE UNCHANGED <<grants, uses, answered, nonces>>
  BY <1>10 DEF Deploy, vars, store
<1>11. ASSUME Tick \/ Alarm, UNCHANGED service
       PROVE  UNCHANGED <<grants, uses, answered>> /\ nonces' \subseteq nonces
  BY <1>11 DEF Tick, Alarm, service, store
<1>12. UNCHANGED serviceVars => UNCHANGED <<grants, uses, answered, nonces>>
  BY DEF serviceVars, service, vars, store
<1>13. AnswerInv' /\ AdmittedAsSigned'
  BY <1>3, <1>4, <1>5, <1>6, <1>7, <1>8, <1>9, <1>10, <1>11, <1>12 DEF ServiceNext
<1> QED
  BY <1>1, <1>2, <1>13 DEF ServiceInv

\* Whatever the network and the deployments do to calls, the authority records
\* what was signed, and no path answers one request "allowed" twice (service.ts
\* handle, client.ts call).
THEOREM AnswersAreAboutWhatWasSigned ==
  ASSUME DeletionsAreFinal
  PROVE  ServiceSpec => []AdmittedAsSigned
<1>1. Init /\ ServiceInit => IInv /\ ServiceInv
  <2>1. Init => IInv
    BY InitInv
  <2>2. Init /\ ServiceInit => ServiceInv
    BY DEF Init, ServiceInit, ServiceInv, MessageInv, AnswerInv, AdmittedAsSigned, Idle
  <2> QED
    BY <2>1, <2>2
<1>2. IInv /\ ServiceInv /\ [ServiceNext]_serviceVars => IInv' /\ ServiceInv'
  BY ServiceInvStep
<1>3. ServiceInv => AdmittedAsSigned
  BY DEF ServiceInv
<1> QED
  BY <1>1, <1>2, <1>3, PTL DEF ServiceSpec
=============================================================================
