------------------------ MODULE MCLifecycleDispatch ------------------------
(* Small instances of LifecycleDispatch. *)
EXTENDS LifecycleDispatch

NoRetirement == -1   \* NoTime of AuthorityLifecycle

Rotation(key, issued) ==
    [op |-> "rotate-release", current |-> "A", next |-> "B", key |-> key,
     activates |-> 1, retires |-> 2, issued |-> issued]

Initialization ==
    [op |-> "initialize", current |-> "A", next |-> "A", key |-> "ka",
     activates |-> 0, retires |-> NoRetirement, issued |-> 0]

TwoCommands == {Initialization, Rotation("kb", 0)}

\* Time passes between runs and only where nothing fails; what is fair is what
\* LifecycleDispatch!FairSpec takes for fair.
MCNext ==
    /\ Next
    /\ clock' # clock => \A r \in Runs : pc[r] = "idle"
    /\ clock' > 0 => faults' = 0

MCSpec ==
    /\ Init /\ [][MCNext]_vars
    /\ \A r \in Runs : WF_vars(ProcessStep(r)) /\ WF_vars(SettleStep(r))
    /\ \A r \in Runs, c \in Commands : SF_vars(Begin(r, c))
=============================================================================
