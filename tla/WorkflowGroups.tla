-------------------------- MODULE WorkflowGroups --------------------------
(***************************************************************************)
(* Group branches, bounded scheduling and the fail-closed result barrier    *)
(* (extensions/workflows/runtime/workflow-groups.ts).                      *)
(*                                                                         *)
(* A script calls parallel() and pipeline(); the thunk of a branch may call *)
(* them again, which nests groups.  The trees that a script can build are a *)
(* constant: Host says where a group is opened, and a group of the set      *)
(* Detached is one its host does not wait for.  A run-level failure (the    *)
(* invocation cap, the deadline) is named by the branch that met it first.  *)
(***************************************************************************)
EXTENDS Naturals, FiniteSets

CONSTANTS Groups,      \* the calls of parallel() and pipeline()
          Pipelines,   \* those of them that are pipelines
          Detached,    \* those whose promise the host does not await
          Script,      \* the top level of the workflow script
          Host,        \* where a group is opened: Script or a branch
          Root,        \* the outermost group around a group
          Above,       \* the branches around a group
          Total,       \* how many branches a group has
          Width,       \* how many of them may run at a time
          Stages,      \* how many stages a branch has
          None, AbortError, GroupError, ScriptError

Branches == UNION {{g} \X (1..Total[g]) : g \in Groups}
GroupOf(b) == b[1]

ASSUME GroupsAssumption ==
    /\ IsFiniteSet(Groups)
    /\ Pipelines \subseteq Groups /\ Detached \subseteq Groups
    /\ Total \in [Groups -> Nat]
    /\ Width \in [Groups -> Nat \ {0}]
    /\ Stages \in [Groups -> Nat \ {0}]
    /\ \A g \in Groups \ Pipelines : Stages[g] = 1

\* Root and Above are what following Host upwards gives.
ASSUME TreeAssumption ==
    /\ Host \in [Groups -> Branches \cup {Script}] /\ Script \notin Branches
    /\ Root \in [Groups -> Groups]
    /\ Above \in [Groups -> SUBSET Branches]
    /\ \A g \in Groups :
          IF Host[g] = Script THEN Root[g] = g /\ Above[g] = {}
          ELSE /\ Root[g] = Root[GroupOf(Host[g])] /\ Host[Root[g]] = Script
               /\ Above[g] = {Host[g]} \cup Above[GroupOf(Host[g])]
               /\ \E b \in Above[g] : GroupOf(b) = Root[g]
               /\ \A b \in Above[g] : \E c \in Groups :
                     Host[c] = b /\ (c = g \/ \E d \in Above[g] : GroupOf(d) = c)

\* No branch is around itself.
ASSUME NestingAssumption ==
    \A g \in Groups : Host[g] # Script => Host[g] \notin Above[GroupOf(Host[g])]

ASSUME ErrorsAssumption ==
    /\ Cardinality({None, AbortError, GroupError, ScriptError}) = 4
    /\ {None, AbortError, GroupError, ScriptError} \cap Branches = {}

Errors == {AbortError, GroupError, ScriptError} \cup Branches

VARIABLES group,     \* where each call stands
          loops,     \* workers of a group at the head of their loop
          next,      \* how many branches a group has dispatched
          branch,    \* what became of each branch
          stage,     \* the stage a pipeline branch is in
          failure,   \* the first failure a worker of the group recorded
          error,     \* what the call throws, or None
          stop,      \* the failure that stops a whole tree of groups
          aborted,   \* the run's signal
          hard       \* history: the branches that threw a run-level failure of their own

vars == <<group, loops, next, branch, stage, failure, error, stop, aborted, hard>>

GroupStates == {"new", "open", "settling", "completed", "failed"}
BranchStates == {"idle", "running", "completed", "failed", "thrown"}

BranchesOf(g) == {b \in Branches : GroupOf(b) = g}
In(g, what) == {b \in BranchesOf(g) : branch[b] = what}
Ended(g) == group[g] \in {"completed", "failed"}
Active(g) == group[g] \in {"open", "settling"}

Init ==
    /\ group = [g \in Groups |-> "new"]
    /\ loops = [g \in Groups |-> 0]
    /\ next = [g \in Groups |-> 0]
    /\ branch = [b \in Branches |-> "idle"]
    /\ stage = [b \in Branches |-> 0]
    /\ failure = [g \in Groups |-> None]
    /\ error = [g \in Groups |-> None]
    /\ stop = [g \in Groups |-> None]
    /\ aborted = FALSE
    /\ hard = {}

-----------------------------------------------------------------------------
(* Mutant: a nested group gets a stop record of its own.                    *)
OwnStop(g) == g

\* Nested groups share the stop record of the outermost one.
StopOf(g) == Root[g]

(* Mutant: assertDispatch() looks at the signal only.                       *)
DispatchErrorOfSignal(g) == IF aborted THEN AbortError ELSE None

\* assertDispatch(): the tree's failure first, the run's signal second.
DispatchError(g) ==
    IF stop[StopOf(g)] # None THEN stop[StopOf(g)]
    ELSE IF aborted THEN AbortError ELSE None

\* runScheduled() starts min(width, thunks) workers.
Workers(g) == IF Width[g] < Total[g] THEN Width[g] ELSE Total[g]

(* runGrouped() emits group_start and starts the workers.  Code that a      *)
(* thunk left behind may still open a detached group.                      *)
Open(g) ==
    /\ group[g] = "new"
    /\ Host[g] # Script =>
          branch[Host[g]] \in (IF g \in Detached THEN BranchStates \ {"idle"} ELSE {"running"})
    /\ group' = [group EXCEPT ![g] = "open"]
    /\ loops' = [loops EXCEPT ![g] = Workers(g)]
    /\ UNCHANGED <<next, branch, stage, failure, error, stop, aborted, hard>>

(* A worker finds that it has nothing to start: another one failed, or the  *)
(* thunks are used up.                                                     *)
WorkerLeaves(g) ==
    /\ loops[g] > 0
    /\ failure[g] # None \/ (DispatchError(g) = None /\ next[g] = Total[g])
    /\ loops' = [loops EXCEPT ![g] = @ - 1]
    /\ UNCHANGED <<group, next, branch, stage, failure, error, stop, aborted, hard>>

(* Mutant: the refusal is swallowed, and the worker tries again.            *)
WorkerRefusedQuietly(g) ==
    /\ loops[g] > 0
    /\ failure[g] = None /\ DispatchError(g) # None
    /\ UNCHANGED vars

(* assertDispatch() throws in the worker's loop: its failure is recorded.   *)
WorkerRefused(g) ==
    /\ loops[g] > 0
    /\ failure[g] = None /\ DispatchError(g) # None
    /\ failure' = [failure EXCEPT ![g] = DispatchError(g)]
    /\ loops' = [loops EXCEPT ![g] = @ - 1]
    /\ UNCHANGED <<group, next, branch, stage, error, stop, aborted, hard>>

(* A worker takes the next thunk.                                          *)
Dispatch(g) ==
    /\ loops[g] > 0
    /\ failure[g] = None /\ DispatchError(g) = None /\ next[g] < Total[g]
    /\ next' = [next EXCEPT ![g] = @ + 1]
    /\ branch' = [branch EXCEPT ![<<g, next[g] + 1>>] = "running"]
    /\ stage' = [stage EXCEPT ![<<g, next[g] + 1>>] = 1]
    /\ loops' = [loops EXCEPT ![g] = @ - 1]
    /\ UNCHANGED <<group, failure, error, stop, aborted, hard>>

-----------------------------------------------------------------------------
\* The groups a branch opened and waits for have ended.
Free(b) ==
    /\ branch[b] = "running"
    /\ \A g \in Groups \ Detached : Host[g] = b => ~Active(g)

\* The failures of nested groups, which the thunk may rethrow or swallow.
Caught(b) == {error[g] : g \in {n \in Groups : Host[n] = b /\ group[n] = "failed"}}

\* The wrapper of a branch ends, and its worker is at the head of its loop again.
Settled(b, how) ==
    /\ branch' = [branch EXCEPT ![b] = how]
    /\ loops' = [loops EXCEPT ![GroupOf(b)] = @ + 1]

\* The wrapper throws the first run-level failure of the tree.
Thrown(g, e) == IF stop[StopOf(g)] = None THEN e ELSE stop[StopOf(g)]

(* The catch of the wrapper: a run-level failure stops the tree and, like   *)
(* anything thrown after the abort, fails the worker; any other error is   *)
(* a failed slot.                                                          *)
Catch(b, e) ==
    LET g == GroupOf(b)
        thrown == IF e \in Branches THEN Thrown(g, e) ELSE AbortError
    IN  /\ IF e \in Branches
             THEN stop' = [stop EXCEPT ![StopOf(g)] = IF @ = None THEN e ELSE @]
             ELSE UNCHANGED stop
        /\ IF e \in Branches \/ aborted
             THEN /\ Settled(b, "thrown")
                  /\ failure' = [failure EXCEPT ![g] = IF @ = None THEN thrown ELSE @]
             ELSE Settled(b, "failed") /\ UNCHANGED failure
        /\ UNCHANGED <<group, next, stage, error, aborted>>

(* A stage of a pipeline returned; before the next one dispatch is asserted.*)
NextStage(b) ==
    /\ Free(b)
    /\ stage[b] < Stages[GroupOf(b)]
    /\ IF DispatchError(GroupOf(b)) = None
         THEN /\ stage' = [stage EXCEPT ![b] = @ + 1]
              /\ UNCHANGED <<group, loops, next, branch, failure, error, stop, aborted>>
         ELSE Catch(b, DispatchError(GroupOf(b)))
    /\ UNCHANGED hard

(* The thunk returns a value that is no failure.                           *)
Complete(b) ==
    /\ Free(b)
    /\ stage[b] = Stages[GroupOf(b)]
    /\ Settled(b, "completed")
    /\ UNCHANGED <<group, next, stage, failure, error, stop, aborted, hard>>

(* It returns an explicit failure: a failed slot.  A pipeline throws a      *)
(* captured failure, which after the abort is rethrown like the others.    *)
ReturnFailure(b) ==
    /\ Free(b)
    /\ IF GroupOf(b) \in Pipelines
         THEN Catch(b, ScriptError)
         ELSE /\ Settled(b, "failed")
              /\ UNCHANGED <<group, next, stage, failure, error, stop, aborted>>
    /\ UNCHANGED hard

(* It throws: an error of its own, the failure of a nested group, or the    *)
(* cap or deadline error of an agent call.                                 *)
Throw(b, e) ==
    /\ Free(b)
    /\ e \in {ScriptError, b} \cup Caught(b)
    /\ Catch(b, e)
    /\ hard' = IF e = b THEN hard \cup {b} ELSE hard

(* The run's signal is aborted by the operator or the host.                *)
Abort ==
    /\ ~aborted
    /\ aborted' = TRUE
    /\ UNCHANGED <<group, loops, next, branch, stage, failure, error, stop, hard>>

-----------------------------------------------------------------------------
(* Mutant: the barrier opens at the first rejection.                       *)
DrainedOrFailed(g) == failure[g] # None \/ (loops[g] = 0 /\ In(g, "running") = {})

\* Promise.all() over the workers, none of which rejects.
Drained(g) == loops[g] = 0 /\ In(g, "running") = {}

(* Mutant: failed slots are returned like the others.                      *)
VerdictOfWorkers(g) == IF failure[g] # None THEN failure[g] ELSE DispatchError(g)

\* The failure of a worker, a last assertDispatch(), then the failed slots.
Verdict(g) ==
    IF failure[g] # None THEN failure[g]
    ELSE IF DispatchError(g) # None THEN DispatchError(g)
    ELSE IF In(g, "failed") # {} THEN GroupError ELSE None

(* runScheduled() and runGroupBranches() settle.                           *)
Settle(g) ==
    /\ group[g] = "open"
    /\ Drained(g)
    /\ group' = [group EXCEPT ![g] = "settling"]
    /\ error' = [error EXCEPT ![g] = Verdict(g)]
    /\ UNCHANGED <<loops, next, branch, stage, failure, stop, aborted, hard>>

(* runGrouped() emits group_end, and the host's await continues.            *)
End(g) ==
    /\ group[g] = "settling"
    /\ group' = [group EXCEPT ![g] = IF error[g] = None THEN "completed" ELSE "failed"]
    /\ UNCHANGED <<loops, next, branch, stage, failure, error, stop, aborted, hard>>

Work(g) == WorkerLeaves(g) \/ WorkerRefused(g) \/ Dispatch(g) \/ Settle(g) \/ End(g)
Thunk(b) == NextStage(b) \/ Complete(b) \/ ReturnFailure(b) \/ \E e \in Errors : Throw(b, e)

Next ==
    \/ \E g \in Groups : Open(g) \/ Work(g)
    \/ \E b \in Branches : Thunk(b)
    \/ Abort

Spec == Init /\ [][Next]_vars

-----------------------------------------------------------------------------
TypeOK ==
    /\ group \in [Groups -> GroupStates]
    /\ loops \in [Groups -> Nat]
    /\ next \in [Groups -> Nat] /\ \A g \in Groups : next[g] <= Total[g]
    /\ branch \in [Branches -> BranchStates]
    /\ stage \in [Branches -> Nat]
    /\ failure \in [Groups -> Errors \cup {None}]
    /\ error \in [Groups -> Errors \cup {None}]
    /\ stop \in [Groups -> Branches \cup {None}]
    /\ aborted \in BOOLEAN
    /\ hard \subseteq Branches

(* A group settles only when every branch it started has settled, and so    *)
(* has every group that such a branch opened and waits for: no work of a    *)
(* finished group goes on unseen.                                          *)
GroupsJoin ==
    \A g \in Groups :
       group[g] \in {"settling", "completed", "failed"} =>
          /\ In(g, "running") = {}
          /\ \A n \in Groups \ Detached : Host[n] \in BranchesOf(g) => ~Active(n)

(* A partial failure hides nothing: when a group reports its slots, every   *)
(* branch has one, and a group that completed has no failed branch.         *)
SlotsAccounted ==
    \A g \in Groups :
       /\ group[g] = "completed" => BranchesOf(g) = In(g, "completed")
       /\ error[g] = GroupError =>
             /\ BranchesOf(g) = In(g, "completed") \cup In(g, "failed")
             /\ In(g, "failed") # {}

\* Everybody up to the outermost group waits for this one.
Awaited(g) == \A c \in {g} \cup {GroupOf(b) : b \in Above[g]} : c \in Detached => c = Root[g]

(* A cap or deadline failure that left a branch anywhere in a tree, however *)
(* deep, is not lost when the script around it swallows the nested group's *)
(* error: the outermost group fails.                                       *)
HardFailureSurfaces ==
    \A b \in hard : Awaited(GroupOf(b)) => group[Root[GroupOf(b)]] # "completed"

(* All the groups of a tree report the same run-level failure, the first.   *)
OneFailure ==
    \A g \in Groups :
       /\ failure[g] \in Branches => failure[g] = stop[Root[g]]
       /\ error[g] \in Branches => error[g] = stop[Root[g]]

(* After a run-level failure anywhere in the tree, or the abort, neither a  *)
(* branch nor a stage of any group of the tree is started.                 *)
NoLateDispatch ==
    [][\A b \in Branches : stage'[b] > stage[b] =>
          ~aborted /\ \A h \in hard : Root[GroupOf(h)] # Root[GroupOf(b)]]_vars

(* Nested groups never wait for each other: while a group is open, a worker *)
(* or a branch somewhere can move.  Every move is final (a worker leaves, a  *)
(* branch or a stage starts or ends), so every group ends.                  *)
SomebodyMoves ==
    (\E g \in Groups : Active(g)) =>
       ENABLED <<(\E g \in Groups : Work(g)) \/ (\E b \in Branches : Thunk(b))>>_vars
=============================================================================
