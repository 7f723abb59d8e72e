------------------------------ MODULE MCOutbox ------------------------------
(* Values of the constants of Outbox for TLC.                              *)
EXTENDS Outbox

CONSTANTS w1, w2

MCRows    == 1 .. 2
MCWorkers == {w1, w2}
MCDelay   == [a \in 1 .. MaxAttempts |-> DelayAfterFailure(1, 2, a)]

\* One invocation is killed, or time passes while one of them works, not both;
\* what is fair is what Outbox!FairSpec takes for fair.
MCNext == Next /\ late' + crashes' <= 1

MCSpec ==
    /\ Init /\ [][MCNext]_vars
    /\ \A w \in Workers : WF_vars(WorkerStep(w))
    /\ WF_vars(Quiet /\ Tick)
=============================================================================
