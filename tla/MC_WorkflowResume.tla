-------------------------- MODULE MC_WorkflowResume --------------------------
(* Versions of one workflow: a serial text script, its repairs (another     *)
(* second prompt; a label removed), a typed one that catches a failure and  *)
(* reads the clock, a group of two, and two calls outside of a group.       *)
EXTENDS WorkflowResume, TLC

CONSTANTS x, y, noon

MCAnswers == {x, y}
MCTimes   == {noon}

AnswerSymmetry == Permutations(MCAnswers)

Plain(prompt, label, quotes) ==
    [kind |-> "call", prompt |-> prompt, label |-> label, quotes |-> quotes,
     structured |-> FALSE, worktree |-> FALSE, attempts |-> 1, caught |-> FALSE]

Clock == [kind |-> "clock", prompt |-> None, label |-> None, caught |-> FALSE]

Draft    == [Plain("draft", "draft", FALSE) EXCEPT !.attempts = 2]
Review   == Plain("review", "review", TRUE)
Repaired == Plain("repaired", "review", TRUE)
Unnamed  == Plain("draft", None, FALSE)
Try      == [Draft EXCEPT !.caught = TRUE]
Receipt  == [Review EXCEPT !.structured = TRUE, !.caught = TRUE]
Write    == [Review EXCEPT !.worktree = TRUE]

Ask      == Plain("draft", "draft", FALSE)

Version(target, branches, grouped, typed, runs, faults) ==
    [target |-> target, branches |-> branches, grouped |-> grouped, typed |-> typed, runs |-> runs, losses |-> faults]

TextVersion(steps) == Version("text", <<steps>>, FALSE, FALSE, 3, 1)

MCScripts ==
    {TextVersion(<<Draft, Review>>), TextVersion(<<Draft, Repaired>>),
     TextVersion(<<Unnamed, Review>>), TextVersion(<<Draft, Write>>),
     Version("typed", <<<<Try, Clock, Review>>>>, FALSE, TRUE, 3, 1),
     Version("group", <<<<Ask, Review>>, <<Ask>>>>, TRUE, FALSE, 2, 0),
     Version("typed group", <<<<Ask, Receipt>>, <<Ask>>>>, TRUE, TRUE, 2, 0),
     Version("loose", <<<<Ask>>, <<Ask>>>>, FALSE, FALSE, 2, 1)}
=============================================================================
