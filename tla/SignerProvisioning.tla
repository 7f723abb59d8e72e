------------------------- MODULE SignerProvisioning -------------------------
(***************************************************************************)
(* How the staging Authority gets the key it signs results with: the       *)
(* operator's local custody of the key (operator/staging-attestation-key), *)
(* the closed-set engine that submits it to the Worker as three secrets    *)
(* (operator/staging-attestation-secret-engine), and the signer that the   *)
(* Worker builds from whatever three values it finds                       *)
(* (workers/admission-service/authority-attestation-config and -signer).   *)
(*                                                                         *)
(* Two invocations of the tools may overlap, each may be killed between    *)
(* any two of its steps, a spawned Wrangler may fail before or after it    *)
(* took effect, and the operator's machine changes under them.  A key      *)
(* stands for its private half, its public half and its fingerprint.       *)
(***************************************************************************)
EXTENDS Integers, Sequences, SequencesExt, FiniteSets, Functions

CONSTANTS
    Keys,          \* keys that may be generated or left in custody
    OperatorKey,   \* the Gate 7 operator key, which may not be used for attestations
    NoKey,
    Tools,         \* invocations of the tools
    Shells,        \* environments a tool may be started from: sets of VariableKinds
    Machines,      \* states of the operator's machine
    MaxChanges     \* bound on the changes of the machine

ASSUME KeysAssumption == NoKey \notin Keys /\ OperatorKey # NoKey

\* ATTESTATION_SECRET_ORDER
Order == <<"fingerprint", "public", "private">>
Names == Range(Order)

VARIABLES
    machine,   \* the operator's machine now
    changes,   \* how often it has changed
    custody,   \* the two files: the private key and the public record of it
    tool,      \* per invocation: where it is, its key or plan, and its report
    secrets    \* the three secrets of the deployed Worker

provisioning == <<machine, changes, custody, tool, secrets>>

-----------------------------------------------------------------------------
(* The child's environment                                                 *)

VariableKinds == {"os", "reviewed_account", "other_account", "token", "metrics_off", "metrics_on", "cloudflare",
                  "wrangler", "proxy", "runtime", "private_key", "unrelated"}
RefusedKinds == {"private_key", "cloudflare", "wrangler", "metrics_on", "proxy", "runtime"}

ASSUME ShellsAssumption == Shells \subseteq SUBSET VariableKinds

\* Refused as a whole or copied name by name; the child never reports metrics.
Buildable(shell) == shell \intersect RefusedKinds = {} /\ shell \intersect {"reviewed_account", "other_account"} # {}
buildWranglerChildEnvironment(shell) ==
    (shell \intersect {"os", "reviewed_account", "other_account", "token"}) \union {"metrics_off"}

-----------------------------------------------------------------------------
(* The checks of the machine                                               *)

\* Any entry Wrangler's upward search could find, in the root or above it.
assertNoWranglerConfigInAncestry == machine.configs = {}

\* Every .env entry refuses, except the template when it is a regular file.
assertNoImplicitWranglerDotenv == machine.dotenv \subseteq {"template_file"}

\* Declared, locked and installed are one version, the reviewed one, and the executable lies inside the package.
resolveReviewedWrangler ==
    /\ \A where \in {"declared", "locked", "installed"} : machine.wrangler[where] = "reviewed"
    /\ machine.wrangler.bin = "inside"

\* Windows: every allowing entry names a trusted principal.  What is not understood is not trusted.
Trusted == {"system", "administrators", "creator_owner", "user"}
assertSddlOwnerOnly(acl) ==
    acl # {} /\ \A ace \in acl : ace.type # "unknown" /\ (ace.type = "allow" => ace.who \in Trusted)

\* POSIX: owned by the user; others may read the directory but not write it, and may do nothing with the file.
assertPosixModes(kind, acl) ==
    \A ace \in acl : \/ ace.who = "user"
                     \/ ace.who = "others" /\ kind = "directory" /\ ace.may = "read"

assertCustodyProtected(kinds) ==
    \A kind \in kinds : IF machine.platform = "win32" THEN assertSddlOwnerOnly(machine.acl[kind])
                        ELSE assertPosixModes(kind, machine.acl[kind])

\* The operator's confirmation that the Worker exists: this Worker, this account, not from the future and not too old.
readWorkerConfirmation ==
    /\ machine.confirmation.worker = "admission" /\ machine.confirmation.account = "reviewed_account"
    /\ machine.confirmation.age = "fresh"

\* revalidateLaunch(): repeated before every spawn.
revalidateLaunch == assertNoWranglerConfigInAncestry /\ assertNoImplicitWranglerDotenv /\ resolveReviewedWrangler

\* A key a staging signer accepts and that is not the operator's.
describeMaterial(k) == k # OperatorKey

\* Both files, protected, and of one key.
loadVerified ==
    /\ assertCustodyProtected({"directory", "file"})
    /\ custody.key # NoKey /\ custody.meta = custody.key
    /\ describeMaterial(custody.key)

\* derive(): everything, before anything is spawned.
Derivable(shell) ==
    /\ "reviewed_account" \in shell /\ Buildable(shell)
    /\ revalidateLaunch
    /\ loadVerified
    /\ readWorkerConfirmation

-----------------------------------------------------------------------------

IdleTool == [pc |-> "idle", key |-> NoKey, child |-> {}, submitted |-> <<>>, stopped |-> "none", report |-> "none",
             touched |-> {}, alone |-> TRUE]

ProvisioningInit ==
    /\ machine \in Machines /\ changes = 0
    /\ custody = [key |-> NoKey, meta |-> NoKey]
    /\ tool = [t \in Tools |-> IdleTool]
    /\ secrets = [n \in Names |-> NoKey]

Step(t, q) == tool' = [tool EXCEPT ![t] = q]
Report(t, q, r) == Step(t, [q EXCEPT !.pc = "done", !.report = r])
Fresh == Keys \ ({custody.key, custody.meta} \union {tool[t].key : t \in Tools} \union Range(secrets))

\* generateStagingAttestationKey(): the directory is protected, neither file exists, a fresh key is accepted.
GenerateKey(t, k) ==
    /\ tool[t].pc = "idle"
    /\ IF assertCustodyProtected({"directory"}) /\ custody = [key |-> NoKey, meta |-> NoKey] /\ describeMaterial(k)
       THEN Step(t, [IdleTool EXCEPT !.pc = "create", !.key = k])
       ELSE Report(t, IdleTool, "refused")
    /\ UNCHANGED <<machine, changes, custody, secrets>>

\* The private file is created exclusively: a second generation finds it and touches nothing.
CreateKeyFile(t) ==
    /\ tool[t].pc = "create"
    /\ IF custody.key = NoKey
       THEN custody' = [custody EXCEPT !.key = tool[t].key] /\ Step(t, [tool[t] EXCEPT !.pc = "record"])
       ELSE Report(t, tool[t], "refused") /\ UNCHANGED custody
    /\ UNCHANGED <<machine, changes, secrets>>

\* The file is verified as it now is and the record written, or the private file is removed again.
WriteRecord(t) ==
    /\ tool[t].pc = "record"
    /\ \/ /\ assertCustodyProtected({"directory", "file"}) /\ custody.meta = NoKey
          /\ custody' = [custody EXCEPT !.meta = tool[t].key]
          /\ Report(t, tool[t], "generated")
       \/ /\ custody' = [custody EXCEPT !.key = NoKey]
          /\ Report(t, tool[t], "refused")
    /\ UNCHANGED <<machine, changes, secrets>>

\* submit() derives its plan from nothing but the environment it was given.
Derive(t, shell) ==
    /\ tool[t].pc = "idle"
    /\ IF Derivable(shell)
       THEN Step(t, [IdleTool EXCEPT !.pc = "put", !.key = custody.key, !.child = buildWranglerChildEnvironment(shell)])
       ELSE Report(t, IdleTool, "refused")
    /\ UNCHANGED <<machine, changes, custody, secrets>>

NextName(t) == Order[Len(tool[t].submitted) + 1]

\* A refusal after the first spawn is reported like any other stop.
Refused(t) == IF tool[t].submitted = <<>> THEN Report(t, tool[t], "refused")
              ELSE Report(t, [tool[t] EXCEPT !.stopped = NextName(t)], "stopped")
Stops(t) ==
    /\ tool[t].pc = "put" /\ ~revalidateLaunch
    /\ Refused(t)
    /\ UNCHANGED <<machine, changes, custody, secrets>>

\* A put of t: whatever another invocation put or completed before may now be mixed with it.
Overlapping(t) == [u \in Tools |-> IF u # t /\ tool[u].pc \in {"put", "done"} THEN [tool[u] EXCEPT !.alone = FALSE] ELSE tool[u]]

\* Mutant: a put that fails is taken as submitted.
SpawnBlindly(t, applied, exit) ==
    LET q == [tool[t] EXCEPT !.touched = IF applied THEN @ \union {NextName(t)} ELSE @,
                             !.submitted = Append(@, NextName(t)),
                             !.alone = @ /\ \A u \in Tools \ {t} : tool[u].pc # "put"]
    IN  tool' = [Overlapping(t) EXCEPT ![t] =
                   IF Len(q.submitted) = Len(Order) THEN [q EXCEPT !.pc = "done", !.report = "complete"] ELSE q]

\* spawnSync() of the pinned Wrangler: it may fail before or after the provider applied it, and be killed when it takes too long.
Spawned(t, applied, exit) ==
    LET q == [tool[t] EXCEPT !.touched = IF applied THEN @ \union {NextName(t)} ELSE @,
                             !.submitted = IF exit = "zero" THEN Append(@, NextName(t)) ELSE @,
                             !.stopped = IF exit = "zero" THEN "none" ELSE NextName(t),
                             !.alone = @ /\ \A u \in Tools \ {t} : tool[u].pc # "put"]
    IN  tool' = [Overlapping(t) EXCEPT ![t] =
                   CASE exit # "zero" -> [q EXCEPT !.pc = "done", !.report = "stopped"]
                     [] exit = "zero" /\ Len(q.submitted) = Len(Order) -> [q EXCEPT !.pc = "done", !.report = "complete"]
                     [] OTHER -> q]

PutSecret(t, applied, exit) ==
    /\ tool[t].pc = "put" /\ revalidateLaunch
    /\ exit = "zero" => applied
    /\ secrets' = IF applied THEN [secrets EXCEPT ![NextName(t)] = tool[t].key] ELSE secrets
    /\ Spawned(t, applied, exit)
    /\ UNCHANGED <<machine, changes, custody>>

\* The tool is killed: it reports nothing, what it did stays.
Killed(t) ==
    /\ tool[t].pc \in {"create", "record", "put"}
    /\ Report(t, tool[t], "none")
    /\ UNCHANGED <<machine, changes, custody, secrets>>

\* The operator starts a tool again after it ended.
Again(t) ==
    /\ tool[t].pc = "done"
    /\ Step(t, IdleTool)
    /\ UNCHANGED <<machine, changes, custody, secrets>>

\* The operator retires the files (no tool does), never while a key is being generated.
ClearCustody ==
    /\ changes < MaxChanges /\ changes' = changes + 1
    /\ \A t \in Tools : tool[t].pc \notin {"create", "record"}
    /\ custody' = [key |-> NoKey, meta |-> NoKey]
    /\ UNCHANGED <<machine, tool, secrets>>

MachineChanges(m) ==
    /\ changes < MaxChanges /\ changes' = changes + 1
    /\ m # machine /\ m.platform = machine.platform
    /\ machine' = m
    /\ UNCHANGED <<custody, tool, secrets>>

ProvisioningNext ==
    \/ \E t \in Tools :
          \/ \E k \in Fresh : GenerateKey(t, k)
          \/ CreateKeyFile(t) \/ WriteRecord(t)
          \/ \E shell \in Shells : Derive(t, shell)
          \/ Stops(t) \/ Killed(t) \/ Again(t)
          \/ \E applied \in BOOLEAN, exit \in {"zero", "failed"} : PutSecret(t, applied, exit)
    \/ ClearCustody
    \/ \E m \in Machines : MachineChanges(m)

-----------------------------------------------------------------------------
(* The Authority's signer                                                  *)

\* An isolate that starts now reads its three bindings: all are there, the fingerprint pins the
\* public half, and the sign/verify self-test relates the private one to it.
present(n) == secrets[n] # NoKey
SelfTestPasses == secrets["public"] = secrets["fingerprint"] /\ secrets["private"] = secrets["public"]
AuthoritySigns == (\A n \in Names : present(n)) /\ SelfTestPasses

-----------------------------------------------------------------------------
(* Properties                                                              *)

\* A signer that gets ready holds the three parts of one key that passed custody, however the puts were interleaved or cut.
SignerIsOneKey == AuthoritySigns => secrets["private"] \in Keys \ {OperatorKey}

\* A refusal touched nothing; a stop names every secret that may have been touched; what is reported submitted was.
ReportsAreHonest ==
    \A t \in Tools :
       /\ tool[t].report = "refused" => tool[t].touched = {}
       /\ tool[t].report \in {"stopped", "complete"} => tool[t].touched \subseteq Range(tool[t].submitted) \union {tool[t].stopped}
       /\ tool[t].report # "none" => Range(tool[t].submitted) \subseteq tool[t].touched

\* A submission that completed and mixed with no other has provisioned its key, until another puts something.
CompleteIsProvisioned ==
    \A t \in Tools : tool[t].report = "complete" /\ tool[t].alone => \A n \in Names : secrets[n] = tool[t].key

\* The record never describes a key that is not there: a generation that fails or is killed leaves at most a private key nobody loads.
CustodyIsOneKey == custody.meta # NoKey => custody.key = custody.meta

(***************************************************************************)
(* Provisioning is safe: see the four parts.                               *)
(* (staging-attestation-secret-engine.ts:276-306 submit,                   *)
(* staging-attestation-key.ts:113-152 generate,                            *)
(* authority-attestation-signer.ts:74-95 load.)                            *)
(***************************************************************************)
ProvisioningIsSafe == SignerIsOneKey /\ ReportsAreHonest /\ CompleteIsProvisioned /\ CustodyIsOneKey

-----------------------------------------------------------------------------
(* The inductive invariant behind it.                                      *)

ProvisioningSpec == ProvisioningInit /\ [][ProvisioningNext]_provisioning

Usable == Keys \ {OperatorKey}

InOrder(s) == s \in Seq(Names) /\ Len(s) <= Len(Order) /\ \A i \in 1 .. Len(s) : s[i] = Order[i]

\* At most one generation is between its two files, and nobody else has written there.
GenerationInv ==
    /\ custody \in [key : Keys \union {NoKey}, meta : Keys \union {NoKey}]
    /\ CustodyIsOneKey
    /\ \A t \in Tools :
          /\ tool[t].pc \in {"create", "record", "put"} => tool[t].key \in Usable
          /\ tool[t].pc = "record" => custody.key = tool[t].key /\ custody.meta = NoKey
    /\ \A t, u \in Tools : tool[t].pc = "record" /\ tool[u].pc = "record" => t = u

\* What a tool did so far, and what that is worth while nobody interferes.
SubmissionInv ==
    /\ \A n \in Names : secrets[n] \in Usable \union {NoKey}
    /\ \A t \in Tools :
          /\ InOrder(tool[t].submitted)
          /\ tool[t].pc \in {"idle", "create", "record"} => tool[t].submitted = <<>> /\ tool[t].touched = {}
          /\ tool[t].pc = "put" => /\ Len(tool[t].submitted) < Len(Order)
                                   /\ tool[t].touched = Range(tool[t].submitted)
          /\ tool[t].pc # "done" => tool[t].report = "none"
          /\ tool[t].pc = "put" /\ tool[t].alone =>
                \A i \in 1 .. Len(tool[t].submitted) : secrets[Order[i]] = tool[t].key

Tool == [pc : {"idle", "create", "record", "put", "done"}, key : Keys \union {NoKey},
         child : SUBSET VariableKinds, submitted : Seq(Names), stopped : Names \union {"none"},
         report : {"none", "refused", "generated", "stopped", "complete"},
         touched : SUBSET Names, alone : BOOLEAN]

ProvisioningInv ==
    /\ tool \in [Tools -> Tool] /\ DOMAIN secrets = Names
    /\ GenerationInv /\ SubmissionInv /\ ReportsAreHonest /\ CompleteIsProvisioned
=============================================================================
