------------------------ MODULE MC_ExecutionState ------------------------
(* Three invocations and two delegation scopes on one permit, under a cap   *)
(* (..._nested); two invocations, one scope and a reservation, with        *)
(* fairness (..._live).                                                    *)
EXTENDS ExecutionState, TLC

CONSTANTS i1, i2, i3, s1, s2, r1
MCInvocations == {i1, i2, i3}
MCPair == {i1, i2}
TwoScopes == {s1, s2}
OneScope == {s1}
OneReservation == {r1}
NoReservations == {}
TwoScopeSymmetry == Permutations(MCInvocations) \cup Permutations(TwoScopes)
=============================================================================
