------------------------- MODULE MC_WorkflowLease -------------------------
(* Three runs, each in a process of its own, named like its run.            *)
EXTENDS WorkflowLease, TLC

CONSTANTS r1, r2, r3
MCRuns == {r1, r2, r3}
Apart == [r \in MCRuns |-> r]
ApartSymmetry == Permutations(MCRuns)
=============================================================================
