------------------------- MODULE MC_StructuredCall --------------------------
(* A call with two submissions, three turns and three admitted tool calls,  *)
(* against a provider with four call ids, at most two to a response: a      *)
(* batch can be rejected, corrected and still run into the tool budget.     *)
EXTENDS StructuredCall

CONSTANTS c1, c2, c3, c4, r1, r2, r3, v1

MCCallIds == {c1, c2, c3, c4}
MCResponses == {r1, r2, r3}
MCValues == {v1}
MCSymmetry == Permutations(MCCallIds) \cup Permutations(MCResponses)
=============================================================================
