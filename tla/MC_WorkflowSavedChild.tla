----------------------- MODULE MC_WorkflowSavedChild -----------------------
(* Three runs of a workflow with one unit of work: a script that passes a   *)
(* text and one that passes a value, and versions of the child that take    *)
(* the one and the other.                                                   *)
EXTENDS WorkflowSavedChild, TLC

CONSTANTS plain, strict, stricter, text, value, valued

MCRoots == 1..3

MCScripts == {text, value, valued}
MCSources == {plain, strict, stricter}
MCTyped   == {value, valued, strict, stricter}

VersionSymmetry == Permutations({strict, stricter}) \cup Permutations({value, valued})
=============================================================================
