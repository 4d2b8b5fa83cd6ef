-------------------------- MODULE MC_AgentSession ---------------------------
(* Two rounds in one row of a workflow, the first structured and with a     *)
(* deadline, the second free to ask and without one, beside a spawned task. *)
EXTENDS AgentSession

CONSTANTS w1, w2, t, slot, own

MCCalls == {w1, w2, t}
MCRows == {slot, own}
MCRowOf == [c \in MCCalls |-> IF c = t THEN own ELSE slot]
=============================================================================
