------------------------ MODULE MC_WorkflowGroups ------------------------
(* A parallel group of two branches on two workers.  The first opens a      *)
(* pipeline of two items on one worker, whose first item opens a group of   *)
(* its own and whose second one opens a group and forgets it.              *)
EXTENDS WorkflowGroups

CONSTANTS outer, pipe, inner, side
MCGroups == {outer, pipe, inner, side}
MCPipelines == {pipe}
MCDetached == {side}
MCHost == [g \in MCGroups |-> CASE g = outer -> Script
                               [] g = pipe -> <<outer, 1>>
                               [] g = inner -> <<pipe, 1>>
                               [] g = side -> <<pipe, 2>>]
MCRoot == [g \in MCGroups |-> outer]
MCAbove == [g \in MCGroups |-> CASE g = outer -> {}
                                [] g = pipe -> {<<outer, 1>>}
                                [] g = inner -> {<<outer, 1>>, <<pipe, 1>>}
                                [] g = side -> {<<outer, 1>>, <<pipe, 2>>}]
MCTotal == [g \in MCGroups |-> IF g \in {outer, pipe} THEN 2 ELSE 1]
MCWidth == [g \in MCGroups |-> IF g = outer THEN 2 ELSE 1]
MCStages == [g \in MCGroups |-> IF g = pipe THEN 2 ELSE 1]
=============================================================================
