--------------------------- MODULE MCJourneyLanes ---------------------------
(* Four tokens, any two of which set the bits of all.                      *)
EXTENDS JourneyLanes, TLC

CONSTANTS t1, t2, t3, t4

MCTokens == {t1, t2, t3, t4}
MCBitsOf == [t \in MCTokens |-> MCTokens \ {t}]
MCCapacity == [lane \in Lanes |-> 1]
MCTakes == [credited |-> 3, unverified |-> 1]
TokenSymmetry == Permutations(MCTokens)
MCRefill == [lane \in Lanes |-> 1]
=============================================================================
