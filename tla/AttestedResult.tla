--------------------------- MODULE AttestedResult ---------------------------
(***************************************************************************)
(* Signed results of the lifecycle authority: the coordinator that applies *)
(* or inspects and then signs a statement of what it saw, the relays that  *)
(* store the signed bytes, and the operator's reader, which believes a     *)
(* stored object only if it is the authority's envelope for the question   *)
(* the operator asked.                                                     *)
(*                                                                         *)
(* The authority's tables and transactions are AuthorityLifecycle's.  A    *)
(* digest is the command itself, and a signature is the fingerprint of the *)
(* key whose holder signed exactly this statement.  The writes of the      *)
(* mailbox are LifecycleDispatch's: of a lifecycle result only the signed  *)
(* envelope is kept here, since a diagnostic is evidence of nothing.       *)
(***************************************************************************)
EXTENDS AuthorityLifecycle

CONSTANTS
    Nonces,      \* the nonces the operator's reconciliation requests draw
    Slots,       \* bound: calls the authority serves at a time
    MaxCalls,    \* bound: calls made to the authority
    Configs,     \* what may be deployed: [env, own, pair, other, secrets]
    Manifest,    \* keys of the trust manifest: [fp, env, status, sound, notBefore, notAfter]
    Current,     \* the manifest's currentKeyFingerprint of each environment
    MaxAge,      \* ATTESTATION_MAX_AGE_MS
    FutureSkew,  \* ATTESTATION_MAX_FUTURE_SKEW_MS
    Skews,       \* the operator's clock minus the authority's
    Gate7,       \* receipt pinned by STAGING_GATE7_CONTINUITY
    Legacy,      \* release of an authority that was initialized without a receipt
    None

VARIABLES
    env,         \* which authority this is, "production" or "staging"
    config,      \* bindings of the deployed Worker
    made,        \* number of calls made so far
    calls,       \* calls in progress at the authority or on their way back
    request,     \* reconcile.json: [digest, nonce] or None
    objects,     \* the result bucket
    asked        \* nonce -> digests that had a receipt when it was drawn, or None

attested == <<env, config, made, calls, request, objects, asked>>
allVars == <<vars, attested>>

Fingerprints == {k.fp : k \in Manifest}
ResultKeys == ({"lifecycle"} \X Commands) \union ({"reconciliation"} \X Nonces)
Diagnostic == [form |-> "diagnostic"]
Idle == [pc |-> "idle"]

-----------------------------------------------------------------------------
(* The trust manifest.                                                     *)

\* The point is on the curve and not of small order.
importAttestationPublicKey(k) == k.sound

\* parseKeyEntry().
parseKeyEntry(k) ==
    /\ k.status \in {"active", "retired"}
    /\ k.notBefore \in Nat /\ k.notAfter \in Nat \union {NoTime}
    /\ k.notAfter # NoTime => k.notAfter > k.notBefore
    /\ k.status = "retired" => k.notAfter # NoTime
    /\ importAttestationPublicKey(k)

\* parseEnvironment().
parseEnvironment(e) ==
    LET keys == {k \in Manifest : k.env = e}
    IN  /\ Cardinality(keys) \in 1 .. 3
        /\ \A k \in keys : parseKeyEntry(k)
        /\ \E k \in keys : k.fp = Current[e] /\ k.status = "active"

\* The reader starts with a manifest parseAuthorityResultTrustManifest() took.
parseAuthorityResultTrustManifest ==
    /\ \A e \in {"production", "staging"} : parseEnvironment(e)
    /\ \A k, l \in Manifest : k.fp = l.fp => k = l

ASSUME ManifestAssumption == parseAuthorityResultTrustManifest

\* Absence is neither a fingerprint nor an answer to which commands had a receipt.
ASSUME NoneAssumption ==
    /\ \A k \in Manifest : k.fp # None
    /\ \A digests \in SUBSET Commands : digests # None

-----------------------------------------------------------------------------
(* Statements and what the one validator accepts.                          *)

\* validateReceipt(): a receipt the authority can have written.
validateReceipt(r, digest, e) ==
    LET c == r.digest
    IN  /\ c = digest
        /\ r.sequence \in 1 .. Capacity
        /\ Within(r.applied, c.activates)
        /\ c.op = "initialize" =>
              c.current = c.next /\ c.retires = NoTime /\ r.sequence = 1
        /\ c.op = "rotate-release" =>
              /\ e = "production" /\ r.sequence >= 2 /\ c.current # c.next
              /\ c.retires > c.activates /\ c.retires - c.activates <= Overlap

\* validateReleaseRows(): what one initialization or one rotation leaves.
validateReleaseRows(rows, initialized, e) ==
    /\ Cardinality(rows)
          \in IF initialized THEN 1 .. (IF e = "staging" THEN 1 ELSE 2) ELSE {0}
    /\ \A a, b \in rows : a.id = b.id \/ a.key = b.key => a = b
    /\ initialized =>
          \E cur \in rows :
              /\ cur.retired = NoTime
              /\ \A old \in rows \ {cur} :
                    /\ old.retired > old.activated
                    /\ old.retired - cur.activated \in 1 .. Overlap
                    /\ old.activated <= cur.activated

\* assertOneRowReceiptCoherence(): one row means no rotation ever happened.
assertOneRowReceiptCoherence(r, rows) ==
    Cardinality(rows) = 1 =>
        /\ r.digest.op = "initialize" /\ r.sequence = 1
        /\ rows = {NewRelease(r.digest)}

\* validateResultStatement().
validateResultStatement(s) ==
    \/ /\ s.kind = "lifecycle"
       /\ validateReceipt(s.receipt, s.digest, s.env)
    \/ /\ s.kind = "reconciliation"
       /\ <<s.initialized, s.coverage, s.status>>
             \in {<<FALSE, "COMPLETE", "NOT_FOUND">>, <<TRUE, "COMPLETE", "NOT_FOUND">>,
                  <<TRUE, "COMPLETE", "EXACT_RECEIPT">>,
                  <<TRUE, "INCOMPLETE", "HISTORY_INCOMPLETE">>}
       /\ validateReleaseRows(s.releases, s.initialized, s.env)
       /\ IF s.status = "EXACT_RECEIPT"
          THEN /\ validateReceipt(s.receipt, s.digest, s.env)
               /\ assertOneRowReceiptCoherence(s.receipt, s.releases)
          ELSE s.receipt = None

\* attestLifecycleReceipt(): the one statement made of a durable receipt.
makeLifecycleStatement(r, observed, writer) ==
    [kind |-> "lifecycle", env |-> env, digest |-> r.digest, receipt |-> r,
     observed |-> observed, writer |-> writer]

\* The row that says the receipts are the whole history is written with the
\* first receipt.
Covered == receipts # {}

ReceiptOf(c) == CHOOSE r \in receipts : r.digest = c

\* inspectLifecycleAuthority() as makeReconciliationStatement() states it.
makeReconciliationStatement(c, n, writer) ==
    [kind |-> "reconciliation", env |-> env, digest |-> c, nonce |-> n,
     initialized |-> Initialized,
     coverage |-> IF Initialized /\ ~Covered THEN "INCOMPLETE" ELSE "COMPLETE",
     status |-> IF Initialized /\ ~Covered THEN "HISTORY_INCOMPLETE"
                ELSE IF HasReceipt(c) THEN "EXACT_RECEIPT" ELSE "NOT_FOUND",
     receipt |-> IF HasReceipt(c) THEN ReceiptOf(c) ELSE None,
     releases |-> releases, observed |-> clock, writer |-> writer]

\* encodeResultAttestationEnvelope(): the one text a statement and a signature have.
encodeResultAttestationEnvelope(statement, by) ==
    [form |-> "canonical", statement |-> statement, by |-> by]

-----------------------------------------------------------------------------
(* The authority.                                                          *)

\* authorityAttestationRuntimeFromEnvironment(): the own bindings are complete
\* and none of the other environment's is present.
HasSigner == config.own # None /\ ~config.other

\* load(): the pair is the pinned one and passes its self-test.  A pass is cached
\* until the object restarts, when the bindings are read again.
SignerLoads == config.pair

\* prepareSigner().
SignerReady == HasSigner /\ SignerLoads

\* The entry points refuse without reaching the authority's coordinator; staging
\* has none for a rotation.
ProductionTurnsAway == ~config.secrets
StagingTurnsAway(kind, c) ==
    ~config.secrets \/ (kind = "mutate" /\ c.op = "rotate-release")

TurnedAway(kind, c) ==
    IF env = "staging" THEN StagingTurnsAway(kind, c) ELSE ProductionTurnsAway

Answer(s, bytes) ==
    calls' = [calls EXCEPT ![s] = [pc |-> "answer", kind |-> @.kind, cmd |-> @.cmd,
                                   nonce |-> @.nonce, bytes |-> bytes]]

\* A call reaches the authority and awaits prepareSigner().
Begin(s, kind, c, n) ==
    /\ calls[s] = Idle
    /\ made < MaxCalls /\ made' = made + 1
    /\ calls' = [calls EXCEPT ![s] =
          IF TurnedAway(kind, c)
          THEN [pc |-> "answer", kind |-> kind, cmd |-> c, nonce |-> n, bytes |-> Diagnostic]
          ELSE [pc |-> "ready", kind |-> kind, cmd |-> c, nonce |-> n]]
    /\ UNCHANGED <<vars, env, config, request, objects, asked>>

\* The executor submits a command, or the dispatch guard probes for it.
Submit(s, c) == Begin(s, "mutate", c, None)
Probe(s, c) == Begin(s, "recover", c, None)

\* One request, unless its result is already there.
Observe(s) ==
    /\ request # None
    /\ objects[<<"reconciliation", request.nonce>>] = None
    /\ Begin(s, "reconcile", request.digest, request.nonce)

observeReconciliation(s) == env = "production" /\ Observe(s)
observeStagingReconciliation(s) == env = "staging" /\ Observe(s)

PrepareFails(s) ==
    /\ calls[s].pc = "ready" /\ ~SignerReady
    /\ Answer(s, Diagnostic)
    /\ UNCHANGED <<vars, env, config, made, request, objects, asked>>

\* The statement is made; signing it awaits.
ToSign(s, statement) ==
    calls' = [calls EXCEPT ![s] = [pc |-> "sign", kind |-> @.kind, cmd |-> @.cmd,
                                   nonce |-> @.nonce, statement |-> statement]]

\* lifecycleMutation(): between the final reading of the clock, the transaction
\* and the statement the object serves no other event.
Mutate(s) ==
    /\ calls[s].pc = "ready" /\ calls[s].kind = "mutate" /\ SignerReady
    /\ LET c == calls[s].cmd
       IN  \/ /\ Execute(c)
              /\ ToSign(s, makeLifecycleStatement(
                    CHOOSE r \in receipts' : r.digest = c, clock, config.own))
           \/ /\ Eligible(c) /\ HasReceipt(c)
              /\ ToSign(s, makeLifecycleStatement(ReceiptOf(c), clock, config.own))
              /\ UNCHANGED vars
           \/ /\ ~Eligible(c) \/ ~(HasReceipt(c) \/ Accepted(c))
              /\ Answer(s, Diagnostic)
              /\ UNCHANGED vars
    /\ UNCHANGED <<env, config, made, request, objects, asked>>

\* attestAppliedLifecycle(): evidence of a receipt that is already durable.
Recover(s) ==
    /\ calls[s].pc = "ready" /\ calls[s].kind = "recover" /\ SignerReady
    /\ IF HasReceipt(calls[s].cmd)
       THEN ToSign(s, makeLifecycleStatement(ReceiptOf(calls[s].cmd), clock, config.own))
       ELSE Answer(s, Diagnostic)
    /\ UNCHANGED <<vars, env, config, made, request, objects, asked>>

\* attestReconciliation(): the snapshot and the caller's nonce in one statement.
Reconcile(s) ==
    /\ calls[s].pc = "ready" /\ calls[s].kind = "reconcile" /\ SignerReady
    /\ LET st == makeReconciliationStatement(calls[s].cmd, calls[s].nonce, config.own)
       IN  IF validateResultStatement(st) THEN ToSign(s, st) ELSE Answer(s, Diagnostic)
    /\ UNCHANGED <<vars, env, config, made, request, objects, asked>>

\* sign(): the signed bytes are parsed and verified before they leave.
Sign(s) ==
    /\ calls[s].pc = "sign"
    /\ IF validateResultStatement(calls[s].statement)
       THEN Answer(s, encodeResultAttestationEnvelope(calls[s].statement, config.own))
       ELSE Answer(s, Diagnostic)
    /\ UNCHANGED <<vars, env, config, made, request, objects, asked>>

\* Signing fails; after a commit this is AMBIGUOUS, else UNAVAILABLE.
SignFails(s) ==
    /\ calls[s].pc = "sign"
    /\ Answer(s, Diagnostic)
    /\ UNCHANGED <<vars, env, config, made, request, objects, asked>>

\* The object restarts, with the same bindings or with new ones: whoever waited
\* for it hears nothing.
Restart(cfg) ==
    /\ cfg.env = env /\ config' = cfg
    /\ calls' = [s \in Slots |->
          IF calls[s].pc \in {"ready", "sign"}
          THEN [pc |-> "answer", kind |-> calls[s].kind, cmd |-> calls[s].cmd,
                nonce |-> calls[s].nonce, bytes |-> Diagnostic]
          ELSE calls[s]]
    /\ UNCHANGED <<vars, env, made, request, objects, asked>>

-----------------------------------------------------------------------------
(* The relays.                                                             *)

\* normalizeLifecycleRelayResult(), normalizeReconciliationRelayResult(): anything
\* that is not an opaque envelope is no evidence.
IsAttested(bytes) == bytes.form = "canonical"

\* publishSignedEnvelope() keeps a published envelope.
publishSignedEnvelope(key, bytes) ==
    IF objects[key] # None /\ objects[key].form = "canonical" THEN objects[key] ELSE bytes

\* The observer's unsigned diagnostic goes over whatever is there.
Stored(key, bytes) ==
    IF IsAttested(bytes) THEN publishSignedEnvelope(key, bytes) ELSE bytes

Publish(s) ==
    /\ calls[s].pc = "answer"
    /\ LET call == calls[s]
           key == IF call.kind = "reconcile" THEN <<"reconciliation", call.nonce>>
                  ELSE <<"lifecycle", call.cmd>>
       IN  objects' = IF call.kind # "reconcile" /\ ~IsAttested(call.bytes) THEN objects
                      ELSE [objects EXCEPT ![key] = Stored(key, call.bytes)]
    /\ calls' = [calls EXCEPT ![s] = Idle]
    /\ UNCHANGED <<vars, env, config, made, request, asked>>

\* The answer, or the relay that carried it, is lost.
Lose(s) ==
    /\ calls[s].pc = "answer"
    /\ calls' = [calls EXCEPT ![s] = Idle]
    /\ UNCHANGED <<vars, env, config, made, request, objects, asked>>

-----------------------------------------------------------------------------
(* The operator.                                                           *)

\* control("reconcile"): a fresh nonce; whether the PUT arrived is unknown.
Ask(c, n) ==
    /\ asked[n] = None
    /\ asked' = [asked EXCEPT ![n] = {r.digest : r \in receipts}]
    /\ request' \in {request, [digest |-> c, nonce |-> n]}
    /\ UNCHANGED <<vars, env, config, made, calls, objects>>

\* assertAttestationFresh().
assertAttestationFresh(observed, now) ==
    now >= 0 /\ now - observed <= MaxAge /\ observed - now <= FutureSkew

\* selectAttestationTrustKey(): the keys that may have signed the statement.
selectAttestationTrustKey(s, now) ==
    {k \in Manifest :
        /\ k.env = s.env /\ k.fp = s.writer /\ k.status = "active"
        /\ k.notBefore <= s.observed /\ now >= k.notBefore - FutureSkew
        /\ k.notAfter # NoTime => s.observed < k.notAfter /\ now < k.notAfter
        /\ assertAttestationFresh(s.observed, now)}

\* Mutant: any signature of a trusted writer's statement will do.
AnySignature(bytes, k) == TRUE

\* verifyAttestationSignature().
verifyAttestationSignature(bytes, k) == bytes.by = k.fp

\* parseStrictJsonText(): no repeated member, no unusual spelling.
parseStrictJsonText(bytes) == bytes.form # "malformed"

\* parseResultAttestationEnvelope(): only the canonical bytes of a valid
\* statement are an envelope.
parseResultAttestationEnvelope(bytes) ==
    /\ parseStrictJsonText(bytes)
    /\ validateResultStatement(bytes.statement)
    /\ bytes = encodeResultAttestationEnvelope(bytes.statement, bytes.by)

\* The caller's own facts, never taken from the envelope.
MeetsExpectations(s, kind, c, n) ==
    /\ s.kind = kind /\ s.env = env /\ s.digest = c
    /\ kind = "reconciliation" => s.nonce = n

\* verifyAuthoritySignedStatement().
verifyAuthoritySignedStatement(bytes, kind, c, n, now) ==
    /\ MeetsExpectations(bytes.statement, kind, c, n)
    /\ parseResultAttestationEnvelope(bytes)
    /\ \E k \in selectAttestationTrustKey(bytes.statement, now) :
          verifyAttestationSignature(bytes, k)

\* classify(): the statements that can be positive.
PositiveCandidate(s) == s.kind = "lifecycle" \/ s.status = "EXACT_RECEIPT"

\* commandReceiptMismatches(): the receipt is the one the command predicts.
ReceiptMatchesCommand(r, cmd) == r.digest = cmd

\* composeProductionAuthorityResult() with the command the reader passes on.
composeProductionAuthorityResult(s, cmd) ==
    IF ~PositiveCandidate(s) THEN s.status
    ELSE IF cmd = None THEN "COMMAND_CONTEXT_REQUIRED"
    ELSE IF ReceiptMatchesCommand(s.receipt, cmd) THEN "POSITIVE" ELSE "UNCONFIRMED"

\* The receipt and the snapshot are the pins of Gate 7.
assertReceiptMatchesGate7(r) == r = Gate7
assertSnapshotMatchesGate7(s) == s.releases = {NewRelease(Gate7.digest)}

composeStagingAuthorityResult(s) ==
    IF ~PositiveCandidate(s) THEN s.status
    ELSE IF /\ assertReceiptMatchesGate7(s.receipt)
            /\ s.kind = "reconciliation" => assertSnapshotMatchesGate7(s)
    THEN "POSITIVE" ELSE "UNCONFIRMED"

\* readProductionAuthorityResult(): a command for another digest is set aside.
readProductionAuthorityResult(bytes, kind, c, n, cmd, now) ==
    IF verifyAuthoritySignedStatement(bytes, kind, c, n, now)
    THEN composeProductionAuthorityResult(bytes.statement, IF cmd = c THEN cmd ELSE None)
    ELSE "UNCONFIRMED"

readStagingAuthorityResult(bytes, kind, c, n, now) ==
    IF verifyAuthoritySignedStatement(bytes, kind, c, n, now)
    THEN composeStagingAuthorityResult(bytes.statement)
    ELSE "UNCONFIRMED"

\* readResult(): the script of each environment has its own reader.
readAuthorityResult(bytes, kind, c, n, cmd, now) ==
    IF env = "staging" THEN readStagingAuthorityResult(bytes, kind, c, n, now)
    ELSE readProductionAuthorityResult(bytes, kind, c, n, cmd, now)

-----------------------------------------------------------------------------
AttestedInit ==
    /\ env \in {"production", "staging"}
    /\ config \in {c \in Configs : c.env = env}
    /\ \/ Init
       \/ /\ clock = 0 /\ lastNow = 0
          /\ releases = {[id |-> Legacy.id, key |-> Legacy.key, activated |-> 0,
                          retired |-> NoTime]}
          /\ receipts = {} /\ mutations = <<>>
    /\ made = 0
    /\ calls = [s \in Slots |-> Idle]
    /\ request = None
    /\ objects = [k \in ResultKeys |-> None]
    /\ asked = [n \in Nonces |-> None]

AttestedNext ==
    \/ (Admit \/ Tick) /\ UNCHANGED attested
    \/ \E s \in Slots :
          \/ \E c \in Commands : Submit(s, c) \/ Probe(s, c)
          \/ observeReconciliation(s) \/ observeStagingReconciliation(s)
          \/ PrepareFails(s) \/ Mutate(s) \/ Recover(s) \/ Reconcile(s)
          \/ Sign(s) \/ SignFails(s)
          \/ Publish(s) \/ Lose(s)
    \/ \E cfg \in Configs : Restart(cfg)
    \/ \E c \in Commands, n \in Nonces : Ask(c, n)

AttestedSpec == AttestedInit /\ [][AttestedNext]_allVars

-----------------------------------------------------------------------------
(* Properties.                                                             *)

\* Bytes a read may meet: any stored object under any key, a re-encoded one,
\* and a statement nobody signed.
Readable ==
    LET signed == {o \in {objects[k] : k \in ResultKeys} : o # None /\ o.form = "canonical"}
    IN  signed
          \union {[o EXCEPT !.form = f] : o \in signed, f \in {"re-encoded", "malformed"}}
          \union {encodeResultAttestationEnvelope(makeLifecycleStatement(
                      [digest |-> c, sequence |-> 1, applied |-> c.activates],
                      clock, Current[env]), None) : c \in Commands}

Now == {clock + d : d \in Skews}

\* "Authority-producible states only": whatever initializations and rotations
\* were applied, and in whatever order calls were served, the validator that
\* signer and reader share accepts what the authority would state of each
\* command, so no answer is lost to "statement-invalid".
EveryStateIsSignable ==
    \A c \in Commands :
        validateResultStatement(
            makeReconciliationStatement(c, None, config.own))

\* The operator reads POSITIVE for a command only if the authority holds the
\* receipt of exactly this command, whichever object, possibly misplaced,
\* re-encoded or made up, lies under the key.
PositiveIsDurable ==
    \A bytes \in Readable, c \in Commands, now \in Now :
        \A cmd \in Commands \union {None}, n \in Nonces :
            \A kind \in {"lifecycle", "reconciliation"} :
                readAuthorityResult(bytes, kind, c, n, cmd, now) = "POSITIVE" =>
                    /\ HasReceipt(c)
                    /\ env = "production" => cmd = c

\* A signed NOT_FOUND for the operator's nonce was observed after the operator
\* asked: a command that already had its receipt then is never reported as
\* missing, however long requests, answers and stored objects were delayed.
MissingWasMissingWhenAsked ==
    \A bytes \in Readable, c \in Commands, n \in Nonces, now \in Now :
        /\ asked[n] # None
        /\ readAuthorityResult(bytes, "reconciliation", c, n, None, now) = "NOT_FOUND"
        => c \notin asked[n]

\* Every answer the authority can give can be signed and read, and what an
\* operator reads of a command was true when it was observed.
ResultsAreTrue == EveryStateIsSignable /\ PositiveIsDurable /\ MissingWasMissingWhenAsked

-----------------------------------------------------------------------------
(* The inductive invariant behind ResultsAreTrue, beside LifecycleInv.      *)

\* What was true when the statement was made and what stays true of it.
StaysTrue(st) ==
    /\ st.kind = "lifecycle" => st.receipt \in receipts /\ st.receipt.digest = st.digest
    /\ st.kind = "reconciliation" =>
          /\ st.nonce \in Nonces /\ asked[st.nonce] # None
          /\ st.status = "EXACT_RECEIPT" => st.receipt \in receipts /\ st.receipt.digest = st.digest
          /\ st.status = "NOT_FOUND" => st.digest \notin asked[st.nonce]

\* Only an authority's envelope has to be true.
BytesAreTrue(bytes) ==
    bytes # None /\ bytes.form = "canonical" => StaysTrue(bytes.statement)

\* A call works on a command or on a nonce that was drawn; on its way to the
\* operator a statement is not changed.
CallIsTrue(call) ==
    /\ call.pc = "ready" =>
          /\ call.cmd \in Commands
          /\ call.kind = "reconcile" => call.nonce \in Nonces /\ asked[call.nonce] # None
          /\ call.kind = "mutate" /\ env = "staging" => call.cmd.op # "rotate-release"
    /\ call.pc = "sign" => StaysTrue(call.statement)
    /\ call.pc = "answer" => BytesAreTrue(call.bytes)

CallInv == DOMAIN calls = Slots /\ \A s \in Slots : CallIsTrue(calls[s])

ObjectInv == DOMAIN objects = ResultKeys /\ \A k \in ResultKeys : BytesAreTrue(objects[k])

\* Receipts are for good: who had one when the nonce was drawn has it still.
AskedInv ==
    /\ DOMAIN asked = Nonces
    /\ request # None => /\ request.digest \in Commands
                         /\ request.nonce \in Nonces /\ asked[request.nonce] # None
    /\ \A n \in Nonces : asked[n] # None => asked[n] \subseteq {r.digest : r \in receipts}

AttestedInv ==
    /\ LifecycleInv
    /\ env \in {"production", "staging"}
    /\ env = "staging" => Len(mutations) <= 1
    /\ CallInv /\ ObjectInv /\ AskedInv
=============================================================================
