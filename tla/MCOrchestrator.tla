--------------------------- MODULE MCOrchestrator ---------------------------
EXTENDS Conversation, TLC

CONSTANTS MaxSeed, MaxRecords, MaxPlan   \* bounds on the lists of the environment

ListsUpTo(S, n) == UNION {[1..k -> S] : k \in 0..n}

MCSeedResults == ListsUpTo(Records, MaxSeed)
MCToolResults == ListsUpTo(Records, MaxRecords)
MCPlans       == ListsUpTo(Keys, MaxPlan) \ {<<>>}

Symmetry == Permutations(Chunks) \cup Permutations(Contents) \cup Permutations(Keys)
=============================================================================
