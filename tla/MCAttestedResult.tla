-------------------------- MODULE MCAttestedResult --------------------------
(* Small instances of AttestedResult and of SignerProvisioning.  Each is explored while the other is where it began. *)
EXTENDS AttestedResult, SignerProvisioning, TLC

Initialization(rel, key, t) ==
    [op |-> "initialize", current |-> rel, next |-> rel, key |-> key,
     activates |-> t, retires |-> NoTime, issued |-> t]

Rotation(cur, next, key, act, overlap, issued) ==
    [op |-> "rotate-release", current |-> cur, next |-> next, key |-> key,
     activates |-> act, retires |-> act + overlap, issued |-> issued]

\* An initialization and a rotation after it.
MCCommands == {Initialization("A", "ka", 0), Rotation("A", "B", "kb", 1, 1, 0)}

\* The signer's key is rolled over from w1 to w2; w3 is the staging key.
MCManifest ==
    {[fp |-> "w1", env |-> "production", status |-> "active", sound |-> TRUE,
      notBefore |-> 0, notAfter |-> 3],
     [fp |-> "w2", env |-> "production", status |-> "active", sound |-> TRUE,
      notBefore |-> 1, notAfter |-> NoTime],
     [fp |-> "w0", env |-> "production", status |-> "retired", sound |-> TRUE,
      notBefore |-> 0, notAfter |-> 1],
     [fp |-> "w3", env |-> "staging", status |-> "active", sound |-> TRUE,
      notBefore |-> 0, notAfter |-> NoTime]}

MCCurrent == [production |-> "w2", staging |-> "w3"]

Binding(e, fp) == [env |-> e, own |-> fp, pair |-> TRUE, other |-> FALSE, secrets |-> TRUE]

\* The key pair of w2 may be bound before its private half is.
MCConfigs == {Binding("production", "w1"), Binding("staging", "w3"),
              [Binding("production", "w2") EXCEPT !.pair = FALSE]}

MCGate7 == [digest |-> Initialization("A", "ka", 0), sequence |-> 1, applied |-> 0]
MCLegacy == [id |-> "A", key |-> "ka"]
MCSkews == {-1, 1}
MCShells == {{"os", "reviewed_account", "token", "unrelated"}, {"os", "reviewed_account", "proxy"}}

Allow(who, may) == [type |-> "allow", who |-> who, may |-> may]
Reviewed(platform) ==
    [platform |-> platform, configs |-> {}, dotenv |-> {"template_file"},
     wrangler |-> [declared |-> "reviewed", locked |-> "reviewed", installed |-> "reviewed", bin |-> "inside"],
     acl |-> [directory |-> {Allow("user", "write")}, file |-> {Allow("user", "write")}],
     confirmation |-> [worker |-> "admission", account |-> "reviewed_account", age |-> "fresh"]]

\* A machine as reviewed, one with a Wrangler configuration above the root, and a Windows machine whose directory others can read.
MCMachines == {Reviewed("posix"), [Reviewed("posix") EXCEPT !.configs = {"ancestor"}], Reviewed("win32"),
               [Reviewed("win32") EXCEPT !.acl.directory = @ \union {Allow("others", "read")}]}

ResultsAtRest == made = 0 /\ clock = 0 /\ ~Initialized /\ request = None /\ env = "staging"
ProvisioningAtRest == ProvisioningInit /\ machine = Reviewed("posix")

MCInit ==
    /\ AttestedInit /\ ProvisioningInit
    /\ ResultsAtRest \/ ProvisioningAtRest
MCNext ==
    \/ ProvisioningAtRest /\ AttestedNext /\ UNCHANGED provisioning
    \/ ResultsAtRest /\ ProvisioningNext /\ UNCHANGED allVars
MCSpec == MCInit /\ [][MCNext]_<<allVars, provisioning>>

MCSymmetry == Permutations(Slots) \union Permutations(Nonces) \union Permutations(Tools)
=============================================================================
