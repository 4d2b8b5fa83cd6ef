-------------------------- MODULE MC_HandoffClaim --------------------------
(* Two or three operators answer the same handoff.                         *)
EXTENDS HandoffClaim, TLC

CONSTANTS o1, o2, o3
TwoOperators == {o1, o2}
ThreeOperators == {o1, o2, o3}
OperatorSymmetry == Permutations(ThreeOperators)
=============================================================================
