---------------------------- MODULE BoundedJwks ----------------------------
(***************************************************************************)
(* BoundedRs256JwksResolver: the key set of a token issuer, cached by a    *)
(* worker.  Calls of getKey share one refresh; a call that waits for it    *)
(* keeps the key and the age it read before.  Times are kept as ages, cut  *)
(* off one above the largest value the code compares them with, so that    *)
(* the issuer may rotate for ever in finitely many states.  A refusal      *)
(* (jwks-unknown-key, jwks-unavailable) changes nothing or ends the wait.  *)
(***************************************************************************)
EXTENDS Integers, FiniteSets

CONSTANTS
    Callers,          \* requests being verified
    Keys,             \* key ids
    MaximumKeys,      \* maximumKeys
    CacheLifetime,    \* cacheLifetimeMs
    StaleGrace,       \* staleGraceMs
    RefreshCooldown,  \* refreshCooldownMs
    FetchTimeout      \* timeoutMs

ASSUME LimitsAssumption ==
    \A n \in {MaximumKeys, CacheLifetime, StaleGrace, RefreshCooldown, FetchTimeout} :
        n \in Nat \ {0}

VARIABLES
    issued,        \* keys the issuer publishes now
    goneFor,       \* time since a key was published last
    cache,         \* [keys, age] of the last key set that was fetched
    refresh,       \* the fetch in flight: [st, keys, form, since]
    sinceAttempt,  \* now - lastRefreshAttemptMs
    ask            \* what each caller's getKey is doing: [st, kid, graced]

jwksVars == <<issued, goneFor, cache, refresh, sinceAttempt, ask>>

Expired == CacheLifetime + StaleGrace + 1
\* How long a withdrawn key may still be accepted: it was read from the issuer
\* up to a fetch before it was cached, and is returned up to a fetch after its
\* age was computed.
Lingers == CacheLifetime + StaleGrace + 2 * FetchTimeout

NoCache   == [keys |-> {}, age |-> Expired]
NoRefresh == [st |-> "none", keys |-> {}, form |-> "sound", since |-> 0]
Idle      == [st |-> "idle"]
Waiting(k, g) == [st |-> "waiting", kid |-> k, graced |-> g]
Got(k)        == [st |-> "got", kid |-> k]

JwksInit ==
    /\ issued \in {{k} : k \in Keys}
    /\ goneFor = [k \in Keys |-> IF k \in issued THEN 0 ELSE Lingers + 1]
    /\ cache = NoCache
    /\ refresh = NoRefresh
    /\ sinceAttempt = RefreshCooldown
    /\ ask = [c \in Callers |-> Idle]

-----------------------------------------------------------------------------
Cached(k)  == k \in cache.keys
Fresh(k)   == Cached(k) /\ cache.age <= CacheLifetime
\* Mutant: a cached key outlives its grace.
GracedForEver(k) == Cached(k)

Graced(k)  == Cached(k) /\ cache.age <= CacheLifetime + StaleGrace
MayRefresh == sinceAttempt >= RefreshCooldown

\* refreshCache(): one fetch for everyone.
refreshCache ==
    IF refresh = NoRefresh
    THEN refresh' = [NoRefresh EXCEPT !.st = "asked"] /\ sinceAttempt' = 0
    ELSE UNCHANGED <<refresh, sinceAttempt>>

\* getKey() up to its answer, or up to the await.
getKey(c, k) ==
    /\ ask[c] = Idle
    /\ \/ /\ Fresh(k)
          /\ ask' = [ask EXCEPT ![c] = Got(k)]
          /\ UNCHANGED <<refresh, sinceAttempt>>
       \/ /\ ~Fresh(k)
          /\ MayRefresh \/ refresh # NoRefresh
          /\ ask' = [ask EXCEPT ![c] = Waiting(k, Graced(k))]
          /\ refreshCache
       \/ /\ ~Fresh(k) /\ Graced(k)
          /\ ~MayRefresh /\ refresh = NoRefresh
          /\ ask' = [ask EXCEPT ![c] = Got(k)]
          /\ UNCHANGED <<refresh, sinceAttempt>>
    /\ UNCHANGED <<issued, goneFor, cache>>

\* The rest of getKey() in every waiting call: the key of the new set, or else
\* the one the call remembers while its age allowed it.
Resume(keys) ==
    ask' = [c \in Callers |->
              IF ask[c].st # "waiting" THEN ask[c]
              ELSE IF ask[c].kid \in keys \/ ask[c].graced THEN Got(ask[c].kid)
              ELSE Idle]

\* What may be wrong with an answer besides its keys.
Forms == {"sound", "redirected", "oversized", "ambiguous"}

readResponse(form) == form # "oversized"
parseJsonWithoutDuplicateMembers(form) == form # "ambiguous"
\* The number of keys, each one usable and listed once.
Acceptable(keys) == Cardinality(keys) \in 1 .. MaximumKeys

\* fetchKeys() does not throw.
fetchKeys(keys, form) ==
    /\ form # "redirected"
    /\ readResponse(form)
    /\ parseJsonWithoutDuplicateMembers(form)
    /\ Acceptable(keys)

FetchSucceeds ==
    /\ refresh.st = "answered" /\ fetchKeys(refresh.keys, refresh.form)
    /\ cache' = [keys |-> refresh.keys, age |-> 0]
    /\ Resume(refresh.keys)
    /\ refresh' = NoRefresh
    /\ UNCHANGED <<issued, goneFor, sinceAttempt>>

\* An answer that is not accepted, a lost connection, or the timeout.
FetchFails ==
    /\ refresh # NoRefresh
    /\ Resume({})
    /\ refresh' = NoRefresh
    /\ UNCHANGED <<issued, goneFor, cache, sinceAttempt>>

-----------------------------------------------------------------------------
(* The issuer and the clock.                                               *)

IssuerAnswers ==
    /\ refresh.st = "asked"
    /\ \E f \in Forms :
          refresh' = [refresh EXCEPT !.st = "answered", !.keys = issued, !.form = f]
    /\ UNCHANGED <<issued, goneFor, cache, sinceAttempt, ask>>

\* A key id is used again, if ever, long after it was withdrawn.
Publish(k) ==
    /\ goneFor[k] > Lingers
    /\ issued' = issued \union {k}
    /\ goneFor' = [goneFor EXCEPT ![k] = 0]
    /\ UNCHANGED <<cache, refresh, sinceAttempt, ask>>

Withdraw(k) ==
    /\ k \in issued /\ issued # {k}
    /\ issued' = issued \ {k}
    /\ UNCHANGED <<goneFor, cache, refresh, sinceAttempt, ask>>

Older(n, limit) == IF n < limit THEN n + 1 ELSE n

\* The abort of a fetch fires on time.
Tick ==
    /\ refresh # NoRefresh => refresh.since < FetchTimeout
    /\ goneFor' = [k \in Keys |-> IF k \in issued THEN 0 ELSE Older(goneFor[k], Lingers + 1)]
    /\ cache' = [cache EXCEPT !.age = Older(@, Expired)]
    /\ refresh' = IF refresh = NoRefresh THEN refresh ELSE [refresh EXCEPT !.since = @ + 1]
    /\ sinceAttempt' = Older(sinceAttempt, RefreshCooldown)
    /\ UNCHANGED <<issued, ask>>

JwksStep ==
    \/ FetchSucceeds \/ FetchFails \/ IssuerAnswers \/ Tick
    \/ \E k \in Keys : Publish(k) \/ Withdraw(k)

\* Timers fire; of the fetches that are tried again and again some are answered
\* and succeed.
JwksFairness ==
    /\ WF_jwksVars(Tick)
    /\ WF_jwksVars(FetchFails)
    /\ SF_jwksVars(IssuerAnswers /\ refresh'.form = "sound")
    /\ SF_jwksVars(FetchSucceeds)

-----------------------------------------------------------------------------
(* Properties.                                                             *)

\* Rotation is effective: a key that the issuer has withdrawn is accepted no
\* longer than its lifetime, the grace and two fetches, however fetches fail,
\* hang and interleave with calls that remember an earlier cache.
WithdrawnKeyExpires ==
    [][\A c \in Callers :
          ask'[c] # ask[c] /\ ask'[c].st = "got" => goneFor[ask'[c].kid] <= Lingers]_jwksVars

\* Rotation is possible: no call waits for ever, and when a key stays published
\* in a set the resolver accepts, the cache keeps being renewed with it for as
\* long as calls keep coming, whatever the key ids they ask for.
PublishedKeyIsCached ==
    /\ \A c \in Callers : []<>(ask[c].st # "waiting")
    /\ \A k \in Keys :
          <>[](k \in issued /\ Acceptable(issued)) /\ []<>(\E c \in Callers : ask[c].st # "idle")
              => []<>Fresh(k)

\* Rotation of the issuer's keys works both ways: a withdrawn key runs out, a
\* published one is there (bounded-jwks.ts refresh, resolveKey).
KeysAreCurrent == WithdrawnKeyExpires /\ PublishedKeyIsCached

-----------------------------------------------------------------------------
(* Why a withdrawn key expires: what is cached, fetched or remembered was  *)
(* published not long ago.                                                 *)

Asks == [st : {"idle"}] \union [st : {"waiting"}, kid : Keys, graced : BOOLEAN]
          \union [st : {"got"}, kid : Keys]
Refreshes == [st : {"none", "asked", "answered"}, keys : SUBSET Keys, form : Forms, since : Nat]

JwksTypes ==
    /\ issued \subseteq Keys /\ goneFor \in [Keys -> Nat]
    /\ cache \in [keys : SUBSET Keys, age : Nat]
    /\ refresh \in Refreshes /\ ask \in [Callers -> Asks]

IssuedInv == \A k \in issued : goneFor[k] = 0

\* A cached key was published at most a fetch before it was cached.
CacheInv ==
    cache.age <= CacheLifetime + StaleGrace =>
        \A k \in cache.keys : goneFor[k] <= cache.age + FetchTimeout

RefreshInv ==
    /\ refresh.since <= FetchTimeout
    /\ \A k \in refresh.keys : goneFor[k] <= refresh.since

\* A call waits for a fetch; the key it remembers was graced when it began to.
AskInv(c) ==
    ask[c].st = "waiting" =>
        /\ refresh # NoRefresh
        /\ ask[c].graced => goneFor[ask[c].kid] <= CacheLifetime + StaleGrace + FetchTimeout + refresh.since

KeyInv == JwksTypes /\ IssuedInv /\ CacheInv /\ RefreshInv /\ \A c \in Callers : AskInv(c)
=============================================================================
