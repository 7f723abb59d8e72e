-------------------------- MODULE AdmissionService --------------------------
(***************************************************************************)
(* The way of a call from the application to the admission authority: the  *)
(* client that signs it, the network that may delay or redeliver it, and   *)
(* the service that authenticates it with a clock reading taken before     *)
(* everything it waits for, and then calls the authority, which decides    *)
(* with its own clock and its own table of releases.                       *)
(*                                                                         *)
(* A MAC is the key it was made with, over exactly this message and path.  *)
(* A call the service turns away changes nothing here: the client takes    *)
(* every such answer as "unavailable" (PublicInquiry!Refuse).              *)
(***************************************************************************)
EXTENDS AdmissionAuthority

CONSTANTS
    Apps,            \* deployments of the application: [releaseId, keyId, key]
    ServiceConfigs,  \* what may be deployed: sets of [role, releaseId, keyId, key, activated, retired]
    Tokens,          \* workload identity tokens: [claims, iat, nbf, exp]
    OverlapMax,      \* ADMISSION_RELEASE_OVERLAP_MAX_MS
    MaxSkew,         \* ADMISSION_RPC_MAX_SKEW_MS
    Tolerance,       \* VERCEL_OIDC_CLOCK_TOLERANCE_SECONDS
    MaxLifetime,     \* VERCEL_OIDC_MAX_LIFETIME_SECONDS
    Isolates,        \* requests the service handles at a time
    MaxSent          \* bound: messages sent

VARIABLES
    serving,   \* releases new isolates of the service are configured with
    rpcs,      \* messages sent; the network may deliver each more than once
    calls,     \* what each isolate is doing
    answered   \* history: calls answered "allowed"

service == <<serving, rpcs, calls, answered>>
serviceVars == <<vars, service>>

NoPermit == -1
Idle == [pc |-> "idle"]

-----------------------------------------------------------------------------
(* The client                                                              *)

\* call(): the payload, its MAC under this deployment's key, and a token that
\* was fetched after the payload's time was read.
Message(app, path, n, permit, token) ==
    [path |-> path, releaseId |-> app.releaseId, sentAt |-> clock, client |-> ClientOf[n], nonce |-> n,
     permit |-> permit, keyId |-> app.keyId, mac |-> app.key, token |-> token]

SendPre(app, n, token) ==
    /\ Cardinality(rpcs) < MaxSent
    /\ rpcs' = rpcs \union {Message(app, "pre", n, NoPermit, token)}
    /\ UNCHANGED <<vars, serving, calls, answered>>

\* The permit is the one the flow was just given for this nonce.
SendPost(app, g, token) ==
    /\ Cardinality(rpcs) < MaxSent
    /\ rpcs' = rpcs \union {Message(app, "post", g.nonce, g.permit, token)}
    /\ UNCHANGED <<vars, serving, calls, answered>>

-----------------------------------------------------------------------------
(* The checks of the service                                               *)

configuredReleasesAreValid(releases) ==
    /\ Cardinality(releases) \in 1 .. 2
    /\ \A a, b \in releases : a # b => a.releaseId # b.releaseId /\ a.keyId # b.keyId
    /\ \E current \in releases :
          /\ \A r \in releases : r.role = "current" <=> r = current
          /\ current.retired = NoTime
          /\ \A r \in releases \ {current} :
                /\ r.activated < current.activated
                /\ r.retired > current.activated
                /\ r.retired - current.activated <= OverlapMax

timestampsAreValid(token, now) ==
    /\ token.exp - token.iat \in 0 .. MaxLifetime
    /\ token.iat <= now + Tolerance
    /\ token.nbf <= now + Tolerance
    /\ token.exp > now - Tolerance

\* One production workload: issuer, audience, subject, owner and project are those of the policy.
authenticateVercelOidc(token, now) == token.claims = "policy" /\ timestampsAreValid(token, now)

\* The release whose key the message names, if it is in force at the time read.
ReleaseOf(call) ==
    {r \in call.releases : /\ r.keyId = call.msg.keyId
                           /\ call.at >= r.activated
                           /\ r.retired = NoTime \/ call.at < r.retired}

Authentic(call) ==
    /\ authenticateVercelOidc(call.msg.token, call.at)
    /\ \E r \in ReleaseOf(call) :
          /\ call.msg.mac = r.key
          /\ call.msg.releaseId = r.releaseId
    /\ call.at - call.msg.sentAt \in -MaxSkew .. MaxSkew
    /\ call.msg.path = "pre" <=> call.msg.permit = NoPermit

-----------------------------------------------------------------------------
(* A request at the service                                                *)

Becomes(s, call) == calls' = [calls EXCEPT ![s] = call]

\* The time is read once, before the token's key is fetched and the body read.
Receive(s, m) ==
    /\ calls[s] = Idle
    /\ configuredReleasesAreValid(serving)
    /\ Becomes(s, [pc |-> "authenticating", msg |-> m, at |-> clock, releases |-> serving])
    /\ UNCHANGED <<vars, serving, rpcs, answered>>

\* The key may be unavailable, the body may end early: then the token or the call is not accepted.
Authenticate(s) ==
    /\ calls[s].pc = "authenticating"
    /\ \/ Authentic(calls[s]) /\ Becomes(s, [calls[s] EXCEPT !.pc = "calling"])
       \/ Becomes(s, Idle)
    /\ UNCHANGED <<vars, serving, rpcs, answered>>

\* Mutant: the authority is called for the current release, whichever one signed.
CalledForCurrent(call) ==
    [release |-> (CHOOSE r \in call.releases : r.role = "current").releaseId, client |-> call.msg.client,
     nonce |-> call.msg.nonce, permit |-> call.msg.permit]

\* The arguments are those of the signed message.
Called(call) ==
    [release |-> call.msg.releaseId, client |-> call.msg.client, nonce |-> call.msg.nonce, permit |-> call.msg.permit]

Answers(s, permit) ==
    /\ answered' = answered \union {[msg |-> calls[s].msg, at |-> calls[s].at, decided |-> clock, permit |-> permit]}
    /\ Becomes(s, Idle)
    /\ UNCHANGED <<serving, rpcs>>

AnswersNo(s) == Becomes(s, Idle) /\ UNCHANGED <<serving, rpcs, answered>>

CallPre(s) ==
    /\ calls[s].pc = "calling" /\ calls[s].msg.path = "pre"
    /\ LET c == Called(calls[s])
       IN  \/ ClaimPre(c.nonce, c.release) /\ Answers(s, nextId)
           \/ (ClaimPreStale(c.nonce, c.release) \/ ClaimPreDenied(c.nonce, c.release)) /\ AnswersNo(s)

CallPost(s) ==
    /\ calls[s].pc = "calling" /\ calls[s].msg.path = "post"
    /\ LET c == Called(calls[s])
       IN  \/ ConsumePost(c.nonce, c.release, c.client, c.permit) /\ Answers(s, c.permit)
           \/ ConsumePostDenied(c.nonce, c.release, c.client, c.permit) /\ AnswersNo(s)

\* The authority throws (its clock stepped back, or the release is not active
\* in its table), or the isolate is evicted: the caller hears nothing of use.
Drop(s) ==
    /\ calls[s].pc = "calling"
    /\ Becomes(s, Idle)
    /\ UNCHANGED <<vars, serving, rpcs, answered>>

\* The service is deployed with other releases; what isolates are doing goes on with the old ones.
Deploy(releases) ==
    /\ serving # releases
    /\ serving' = releases
    /\ UNCHANGED <<vars, rpcs, calls, answered>>

-----------------------------------------------------------------------------
ServiceInit ==
    /\ serving \in ServiceConfigs
    /\ rpcs = {} /\ answered = {}
    /\ calls = [s \in Isolates |-> Idle]

ServiceNext ==
    \/ \E app \in Apps, token \in Tokens :
          \/ \E n \in Nonces : SendPre(app, n, token)
          \/ \E g \in grants : SendPost(app, g, token)
    \/ \E s \in Isolates :
          \/ \E m \in rpcs : Receive(s, m)
          \/ Authenticate(s) \/ CallPre(s) \/ CallPost(s) \/ Drop(s)
    \/ \E releases \in ServiceConfigs : Deploy(releases)
    \/ (Tick \/ Alarm) /\ UNCHANGED service

-----------------------------------------------------------------------------
(* Properties.                                                             *)

\* However calls are delayed, redelivered and overtaken by deployments of the
\* application and of the service, what the authority records is what was
\* signed: an admission is held under the release that signed it, for its
\* client; both calls of an inquiry were signed by one release; and no path
\* answers one request "allowed" twice (service.ts handle).
AdmittedAsSigned ==
    \A d \in answered :
        /\ d.msg.path = "pre" =>
              /\ \E g \in grants : g.nonce = d.msg.nonce /\ g.client = d.msg.client /\ g.permit = d.permit /\ g.at = d.decided
              /\ \A row \in nonces : row.nonce = d.msg.nonce => row.release = d.msg.releaseId
        /\ d.msg.path = "post" =>
              \E e \in answered : /\ e.msg.path = "pre" /\ e.permit = d.msg.permit /\ e.msg.nonce = d.msg.nonce
                                  /\ e.msg.releaseId = d.msg.releaseId /\ e.decided <= d.decided
        /\ \A e \in answered : e.msg.path = d.msg.path /\ e.msg.nonce = d.msg.nonce => e = d

-----------------------------------------------------------------------------
(* What the calls of the service alone establish, and why.                 *)

ServiceSpec == Init /\ ServiceInit /\ [][ServiceNext]_serviceVars

\* A message is about one request of the flow, a "post" about an admission of it.
MessageInv ==
    /\ \A m \in rpcs :
          /\ m.nonce \in Nonces /\ m.client = ClientOf[m.nonce]
          /\ m.path \in {"pre", "post"}
          /\ m.path = "post" => \E g \in grants : g.nonce = m.nonce /\ g.permit = m.permit
    /\ DOMAIN calls = Isolates
    /\ \A s \in Isolates : calls[s].pc \in {"authenticating", "calling"} => calls[s].msg \in rpcs

\* Every decision of the authority was answered, and answers stand for decisions.
AnswerInv ==
    /\ \A g \in grants : \E e \in answered :
          e.msg.path = "pre" /\ e.permit = g.permit /\ e.msg.nonce = g.nonce /\ e.decided = g.at
    /\ \A row \in nonces : \E e \in answered :
          /\ e.msg.path = "pre" /\ e.permit = row.permit
          /\ e.msg.nonce = row.nonce /\ e.msg.releaseId = row.release
    /\ \A e \in answered : e.msg.path = "post" => \E u \in uses : u.nonce = e.msg.nonce

ServiceInv == MessageInv /\ AnswerInv /\ AdmittedAsSigned
=============================================================================
