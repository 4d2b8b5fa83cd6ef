-------------------------- MODULE MC_WorkflowRun --------------------------
(* A run and a continuation that want the same workspace.                   *)
EXTENDS WorkflowRun

CONSTANTS first, second
MCRuns == {first, second}
MCContinuations == {second}
=============================================================================
