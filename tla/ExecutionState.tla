-------------------------- MODULE ExecutionState --------------------------
(***************************************************************************)
(* One execution owner shared by agent and workflow adapters               *)
(* (extensions/_shared/runtime/execution-state.ts): identities before       *)
(* queueing, one charge per launch, permits, and delegation scopes that     *)
(* drain every admitted descendant before their owner resumes.              *)
(*                                                                         *)
(* The module composes the ledger (ExecutionBudget) and the permit queue    *)
(* (ExecutionScheduler); an invocation is the scheduler's client.  An       *)
(* action is what runs between two awaits of execute(), delegate() or a     *)
(* promise callback.  An abort controller is an element of Controllers, a   *)
(* signal is the set of controllers AbortSignal.any() flattened into it.    *)
(***************************************************************************)
EXTENDS ExecutionBudget, ExecutionScheduler

CONSTANTS Invocations,   \* the invocations of one root
          Scopes,        \* the delegation scopes withChildren() may open
          Root,          \* the root scope, and the root's own controller
          NoScope        \* no delegation

ASSUME StateAssumption ==
    /\ Clients = Invocations
    /\ Root \notin Scopes \cup Invocations
    /\ NoScope \notin Scopes \cup {Root}
    /\ Scopes \cap Invocations = {}

VARIABLES main,        \* where execute() of an invocation stands
          home,        \* the scope an invocation was created in
          backing,     \* its reservation, or NoReservation
          delegation,  \* the delegation an invocation awaits, or NoScope
          spoiled,     \* invocations with a delegationFailure
          stage,       \* where delegate() of a scope stands
          owner,       \* the invocation that opened a scope (Root until then)
          sources,     \* the controllers a scope's signal follows
          failed,      \* scopes with a recorded failure
          fired,       \* controllers that have aborted
          closed,      \* close() was called
          late         \* the runtime deadline has passed

stateVars == <<main, home, backing, delegation, spoiled, stage, owner, sources,
               failed, fired, closed, late>>
identityVars == <<home, backing>>
vars == <<budgetVars, schedulerVars, stateVars>>

Controllers == {Root} \cup Scopes \cup Invocations

\* Jobs that hold or wait for a permit, and all the jobs a drain joins.
Pending == {"queued", "working", "returned", "thrown"}
Joined == Pending \cup {"rejecting"}
Settled == {"ok", "failed", "refused", "replayed"}
MainStates == {"absent", "created", "stray"} \cup Joined \cup Settled
StageStates == {"unused", "children", "draining", "resuming", "settled"}

StateTypeOK ==
    /\ main \in [Invocations -> MainStates]
    /\ home \in [Invocations -> Scopes \cup {Root}]
    /\ backing \in [Invocations -> Reservations \cup {NoReservation}]
    /\ delegation \in [Invocations -> Scopes \cup {NoScope}]
    /\ spoiled \subseteq Invocations
    /\ stage \in [Scopes -> StageStates]
    /\ owner \in [Scopes -> Invocations \cup {Root}]
    /\ sources \in [Scopes \cup {Root} -> SUBSET Controllers]
    /\ failed \subseteq Scopes
    /\ fired \subseteq Controllers
    /\ closed \in BOOLEAN
    /\ late \in BOOLEAN

TypeOK == BudgetTypeOK /\ SchedulerTypeOK /\ StateTypeOK

Init ==
    /\ BudgetInit
    /\ SchedulerInit
    /\ main = [i \in Invocations |-> "absent"]
    /\ home = [i \in Invocations |-> Root]
    /\ backing = [i \in Invocations |-> NoReservation]
    /\ delegation = [i \in Invocations |-> NoScope]
    /\ spoiled = {}
    /\ stage = [s \in Scopes |-> "unused"]
    /\ owner = [s \in Scopes |-> Root]
    /\ sources = [s \in Scopes \cup {Root} |-> IF s = Root THEN {Root} ELSE {}]
    /\ failed = {}
    /\ fired = {}
    /\ closed = FALSE
    /\ late = FALSE

-----------------------------------------------------------------------------
ScopeAborted(s) == sources[s] \cap fired # {}

\* The signal of a launched invocation adds its own stop controller.
Signal(i) == sources[home[i]] \cup {i}
Aborted(i) == Signal(i) \cap fired # {}

ScopeClosed(s) == s \in Scopes /\ stage[s] # "children"

(* assertLive and assertOpen.                                              *)
Live(s) == ~ScopeAborted(s) /\ ~closed
Open(s) == Live(s) /\ ~ScopeClosed(s)

(* failScope(): the first failure of a delegation scope stops the scope;    *)
(* the root has no stop controller.                                        *)
Stops(s) == {s} \cap (Scopes \ failed)

(* The waiters whose signal is aborted once the controllers f have fired    *)
(* and the invocations have reached m.  A first acquire follows the scope,  *)
(* a re-entry also the invocation's own stop and the end of its callback.   *)
Dropped(f, m) ==
    {i \in waiting : IF m[i] = "queued" THEN sources[home[i]] \cap f # {}
                     ELSE m[i] # "working" \/ Signal(i) \cap f # {}}

(* Aborting controllers runs the abort listeners of the queued waiters.     *)
Fire(f, m) ==
    /\ fired' = fired \cup f
    /\ LET dropped == Dropped(fired \cup f, m)
       IN  IF dropped = {} THEN UNCHANGED schedulerVars ELSE AbortWaiters(dropped)

(* Mutant: the finally block forgets the permit.                           *)
FireKeepingPermit(f, m, i) == Fire(f, m)

(* The same, with permit?.release() of invocation i after it.               *)
FireAndRelease(f, m, i) ==
    IF i \notin Holders THEN Fire(f, m)
    ELSE /\ fired' = fired \cup f
         /\ Release(i, Dropped(fired \cup f, m))

-----------------------------------------------------------------------------
(* createInvocation(): an identity in an open scope.                       *)
CreateInvocation(i, s, r) ==
    /\ main[i] = "absent"
    /\ s # Root => stage[s] # "unused"
    /\ r # NoReservation => record[r].made
    /\ Open(s)
    /\ \/ AllocateFresh /\ main' = [main EXCEPT ![i] = "created"]
       \/ AllocateReplayed(r) /\ main' = [main EXCEPT ![i] = "replayed"]
    /\ home' = [home EXCEPT ![i] = s]
    /\ backing' = [backing EXCEPT ![i] = r]
    /\ UNCHANGED <<schedulerVars, delegation, spoiled, stage, owner, sources, failed, fired, closed, late>>

(* run(): the first use of a fresh invocation starts execute(), which joins *)
(* the permit queue of an open scope before the deadline.                  *)
Run(i) ==
    /\ main[i] = "created"
    /\ Open(home[i]) /\ ~late
    /\ main' = [main EXCEPT ![i] = "queued"]
    /\ Acquire(i)
    /\ UNCHANGED <<budgetVars, identityVars, delegation, spoiled, stage, owner, sources, failed, fired, closed, late>>

(* execute() throws before it asks for a permit.  A job that a closed scope *)
(* refuses came after the scope took the list of jobs it drains.            *)
RunRefused(i) ==
    /\ main[i] = "created"
    /\ ~Open(home[i]) \/ late
    /\ main' = [main EXCEPT ![i] = IF ScopeClosed(home[i]) THEN "stray" ELSE "rejecting"]
    /\ UNCHANGED <<budgetVars, schedulerVars, identityVars, delegation, spoiled, stage, owner, sources,
                   failed, fired, closed, late>>

(* acquire() was rejected: the scope's signal aborted while it waited.      *)
AcquireRejected(i) ==
    /\ main[i] = "queued" /\ Idle(i)
    /\ main' = [main EXCEPT ![i] = "rejecting"]
    /\ UNCHANGED <<budgetVars, schedulerVars, identityVars, delegation, spoiled, stage, owner, sources,
                   failed, fired, closed, late>>

(* Mutant: nothing observes the rejection, and the scope goes on.           *)
JobRejectedUnobserved(i) ==
    /\ main[i] \in {"rejecting", "stray"}
    /\ main' = [main EXCEPT ![i] = IF @ = "stray" THEN "refused" ELSE "failed"]
    /\ UNCHANGED <<budgetVars, schedulerVars, identityVars, delegation, spoiled, stage, owner, sources,
                   failed, fired, closed, late>>

(* The rejection handler run() attached fails the owning scope.             *)
JobRejected(i) ==
    /\ main[i] \in {"rejecting", "stray"}
    /\ main' = [main EXCEPT ![i] = IF @ = "stray" THEN "refused" ELSE "failed"]
    /\ failed' = failed \cup Stops(home[i])
    /\ Fire(Stops(home[i]), main')
    /\ UNCHANGED <<budgetVars, identityVars, delegation, spoiled, stage, owner, sources, closed, late>>

-----------------------------------------------------------------------------
(* Mutant: the signal is not read again after the await.                   *)
LaunchableUnchecked(i) == ~late /\ Chargeable(backing[i])

Launchable(i) == Live(home[i]) /\ ~late /\ Chargeable(backing[i])

(* A permit was handed over: the scope, the deadline and the ledger are     *)
(* read again, the launch is charged and the work callback starts.         *)
Start(i) ==
    /\ main[i] = "queued" /\ permit[i] = "held"
    /\ Launchable(i)
    /\ Charge(backing[i])
    /\ Activate(i)
    /\ main' = [main EXCEPT ![i] = "working"]
    /\ UNCHANGED <<identityVars, delegation, spoiled, stage, owner, sources, failed, fired, closed, late>>

(* The catch and finally of execute() with no delegation to await: queued   *)
(* siblings are stopped, then the slot is freed and the job rejects.        *)
Fail(i) ==
    /\ main' = [main EXCEPT ![i] = "failed"]
    /\ failed' = failed \cup Stops(home[i])
    /\ FireAndRelease(Stops(home[i]) \cup {i}, main', i)
    /\ UNCHANGED <<budgetVars, identityVars, delegation, spoiled, stage, owner, sources, closed, late>>

StartRefused(i) ==
    /\ main[i] = "queued" /\ permit[i] = "held"
    /\ ~Launchable(i)
    /\ Fail(i)

(* Mutant: the parent keeps its permit while it waits for its children.     *)
WithChildrenHolding(i, s) ==
    /\ main[i] = "working" /\ delegation[i] = NoScope
    /\ stage[s] = "unused"
    /\ ~Aborted(i) /\ ~closed
    /\ delegation' = [delegation EXCEPT ![i] = s]
    /\ stage' = [stage EXCEPT ![s] = "children"]
    /\ owner' = [owner EXCEPT ![s] = i]
    /\ sources' = [sources EXCEPT ![s] = Signal(i) \cup {s}]
    /\ UNCHANGED <<budgetVars, schedulerVars, main, identityVars, spoiled, failed, fired, closed, late>>

(* withChildren(): the working parent yields its permit and opens a scope.  *)
WithChildren(i, s) ==
    /\ main[i] = "working" /\ delegation[i] = NoScope
    /\ stage[s] = "unused"
    /\ ~Aborted(i) /\ ~closed
    /\ Release(i, {})
    /\ delegation' = [delegation EXCEPT ![i] = s]
    /\ stage' = [stage EXCEPT ![s] = "children"]
    /\ owner' = [owner EXCEPT ![s] = i]
    /\ sources' = [sources EXCEPT ![s] = Signal(i) \cup {s}]
    /\ UNCHANGED <<budgetVars, main, identityVars, spoiled, failed, fired, closed, late>>

(* The callback of withChildren() returned, or threw and stops the scope:   *)
(* the scope takes no more children and joins the ones it has.             *)
ChildrenEnd(s, threw) ==
    /\ stage[s] = "children"
    /\ stage' = [stage EXCEPT ![s] = "draining"]
    /\ LET stops == IF threw THEN Stops(s) ELSE {}
       IN  failed' = failed \cup stops /\ Fire(stops, main)
    /\ UNCHANGED <<budgetVars, main, identityVars, delegation, spoiled, owner, sources, closed, late>>

Job(s) == {i \in Invocations : home[i] = s}
(* Mutant: a drain waits for the jobs that run and not for the queued ones. *)
JoinsRunning(s) == \A i \in Job(s) : main[i] \notin Joined \ {"queued"}

Joins(s) == \A i \in Job(s) : main[i] \notin Joined

Unsound(s) == s \in failed \/ ScopeAborted(s)

Settle(s, bad) ==
    /\ stage' = [stage EXCEPT ![s] = "settled"]
    /\ delegation' = [delegation EXCEPT ![owner[s]] = NoScope]
    /\ spoiled' = IF bad THEN spoiled \cup {owner[s]} ELSE spoiled

(* Every job of the scope has settled.  An owner still at work asks for a   *)
(* permit again, an owner that is done needs none.                         *)
Drained(s) ==
    /\ stage[s] = "draining" /\ Joins(s)
    /\ IF main[owner[s]] = "working" /\ ~Aborted(owner[s]) /\ ~closed
       THEN /\ Acquire(owner[s])
            /\ stage' = [stage EXCEPT ![s] = "resuming"]
            /\ spoiled' = IF Unsound(s) THEN spoiled \cup {owner[s]} ELSE spoiled
            /\ UNCHANGED delegation
       ELSE Settle(s, Unsound(s) \/ main[owner[s]] = "working") /\ UNCHANGED schedulerVars
    /\ UNCHANGED <<budgetVars, main, identityVars, owner, sources, failed, fired, closed, late>>

(* The owner's re-entry was admitted: it works again, or gives the permit   *)
(* back when it was stopped or its callback ended meanwhile.                *)
Resumed(s) ==
    /\ stage[s] = "resuming" /\ permit[owner[s]] = "held"
    /\ IF main[owner[s]] = "working" /\ ~Aborted(owner[s])
       THEN Activate(owner[s]) ELSE Release(owner[s], {})
    /\ Settle(s, Aborted(owner[s]))
    /\ UNCHANGED <<budgetVars, main, identityVars, owner, sources, failed, fired, closed, late>>

(* The re-entry was rejected; only the end of the callback excuses that.    *)
ResumeRejected(s) ==
    /\ stage[s] = "resuming" /\ Idle(owner[s])
    /\ Settle(s, Aborted(owner[s]))
    /\ UNCHANGED <<budgetVars, schedulerVars, main, identityVars, owner, sources, failed, fired, closed, late>>

(* The work callback returned; a re-entry it did not wait for is cancelled. *)
WorkReturns(i) ==
    /\ main[i] = "working"
    /\ main' = [main EXCEPT ![i] = "returned"]
    /\ Fire({}, main')
    /\ UNCHANGED <<budgetVars, identityVars, delegation, spoiled, stage, owner, sources, failed, closed, late>>

(* The work callback threw: its siblings and its own signal are stopped.    *)
WorkThrows(i) ==
    /\ main[i] = "working"
    /\ main' = [main EXCEPT ![i] = "thrown"]
    /\ failed' = failed \cup Stops(home[i])
    /\ Fire(Stops(home[i]) \cup {i}, main')
    /\ UNCHANGED <<budgetVars, identityVars, delegation, spoiled, stage, owner, sources, closed, late>>

(* execute() ends once no delegation is open: a recorded delegation failure *)
(* is thrown even when the callback returned.                              *)
Finish(i) ==
    /\ delegation[i] = NoScope
    /\ \/ /\ main[i] = "returned" /\ i \notin spoiled
          /\ main' = [main EXCEPT ![i] = "ok"]
          /\ FireAndRelease({}, main', i)
          /\ UNCHANGED <<budgetVars, identityVars, delegation, spoiled, stage, owner, sources, failed, closed, late>>
       \/ main[i] = "thrown" /\ Fail(i)
       \/ main[i] = "returned" /\ i \in spoiled /\ Fail(i)

-----------------------------------------------------------------------------
(* The caller's signal aborts, or close() aborts the root's own controller. *)
Abort(close) ==
    /\ Root \notin fired \/ (close /\ ~closed)
    /\ closed' = (closed \/ close)
    /\ Fire({Root}, main)
    /\ UNCHANGED <<budgetVars, main, identityVars, delegation, spoiled, stage, owner, sources, failed, late>>

DeadlinePasses ==
    /\ ~late /\ late' = TRUE
    /\ UNCHANGED <<budgetVars, schedulerVars, main, identityVars, delegation, spoiled, stage, owner, sources,
                   failed, fired, closed>>

Reservation ==
    /\ \/ \E r \in Reservations, count \in 1..MaxCount : Reserve(r, count)
       \/ \E r \in Reservations : ReleaseReservation(r)
    /\ UNCHANGED <<schedulerVars, stateVars>>

InvocationStep(i) ==
    \/ \E s \in Scopes \cup {Root}, r \in Reservations \cup {NoReservation} : CreateInvocation(i, s, r)
    \/ Run(i) \/ RunRefused(i)
    \/ AcquireRejected(i) \/ JobRejected(i)
    \/ Start(i) \/ StartRefused(i)
    \/ \E s \in Scopes : WithChildren(i, s)
    \/ WorkReturns(i) \/ WorkThrows(i) \/ Finish(i)

ScopeStep(s) ==
    \/ \E threw \in BOOLEAN : ChildrenEnd(s, threw)
    \/ Drained(s) \/ Resumed(s) \/ ResumeRejected(s)

Next ==
    \/ \E i \in Invocations : InvocationStep(i)
    \/ \E s \in Scopes : ScopeStep(s)
    \/ \E close \in BOOLEAN : Abort(close)
    \/ DeadlinePasses
    \/ Reservation

Spec == Init /\ [][Next]_vars

(* Promise continuations run.  A work callback ends once it awaits nothing  *)
(* any more, and so does the callback of withChildren().                    *)
Fairness ==
    /\ \A i \in Invocations :
          /\ WF_vars(AcquireRejected(i) \/ JobRejected(i) \/ Start(i) \/ StartRefused(i) \/ Finish(i))
          /\ WF_vars(delegation[i] = NoScope /\ (WorkReturns(i) \/ WorkThrows(i)))
    /\ \A s \in Scopes : WF_vars(ScopeStep(s))

FairSpec == Spec /\ Fairness

-----------------------------------------------------------------------------
(* Only an execution that is not waiting for descendants holds an activated *)
(* permit, and a live callback at work always has one: cancellation never   *)
(* frees a running slot, and withChildren() always has a permit to release. *)
SlotDiscipline ==
    \A i \in Invocations :
        /\ permit[i] = "executing" => main[i] \in {"working", "returned", "thrown"} /\ delegation[i] = NoScope
        /\ main[i] = "working" /\ delegation[i] = NoScope /\ ~Aborted(i) => permit[i] = "executing"
        /\ main[i] \in Settled => permit[i] = "none" /\ i \notin waiting

(* A parent neither holds a permit nor settles while a descendant it       *)
(* admitted is queued or at work.                                          *)
JoinBeforeResume ==
    \A i \in Invocations :
        main[i] \in Pending /\ home[i] # Root =>
            LET parent == owner[home[i]]
            IN  /\ delegation[parent] = home[i]
                /\ permit[parent] = "none"
                /\ main[parent] \in {"working", "returned", "thrown"}

(* A descendant's failure is fatal to the launch it belongs to, even when   *)
(* the parent's callback swallows it or never awaits the delegation.        *)
DescendantFailureFatal ==
    \A i \in Invocations :
        main[i] = "failed" /\ home[i] # Root => main[owner[home[i]]] # "ok"

(* Once a member of a delegation scope failed or its parent is past its     *)
(* callback, no queued sibling is launched any more.                       *)
NoLaunchAfterFailure ==
    [][\A i \in Invocations :
          main[i] = "queued" /\ main'[i] = "working" /\ home[i] # Root =>
              /\ \A j \in Job(home[i]) : main[j] \notin {"thrown", "failed"}
              /\ main[owner[home[i]]] \in {"working", "returned"}]_vars

(* An invocation takes a slot when it is launched or replayed.             *)
TakesSlot(i) ==
    \/ main[i] = "queued" /\ main'[i] = "working"
    \/ main[i] = "absent" /\ main'[i] = "replayed"

TakenFrom(r) == {i \in Invocations : backing'[i] = r /\ TakesSlot(i)}

(* While a reservation stands, its slots go to the invocations it backs,    *)
(* one each, and to nobody else, and the launch of an invocation without a *)
(* reservation leaves all of them under the cap: the slots are counted      *)
(* again, whatever the shared counter of execution-budget.ts:29 says.      *)
PromisedSlotsStay ==
    [][/\ \A r \in Reservations :
             record[r].active /\ record'[r].active =>
                 record[r].remaining - record'[r].remaining = Cardinality(TakenFrom(r))
       /\ Capped /\ (\E i \in TakenFrom(NoReservation) : main'[i] = "working") =>
             charged' + Cardinality(HeldSlots') <= TotalAgents]_vars

(* Every invocation that was started settles: delegation never deadlocks    *)
(* the permits, not even with one permit and nested parents.               *)
EveryRunSettles == \A i \in Invocations : main[i] \in Joined \cup {"stray"} ~> main[i] \in Settled
(* What an observer of the agents sees of an invocation.                   *)
Status(i) ==
    CASE main[i] = "absent" -> "absent"
      [] main[i] \in {"created", "queued", "rejecting", "stray"} -> "waiting"
      [] main[i] \in {"working", "returned", "thrown"} ->
            IF permit[i] = "executing" THEN "executing" ELSE "yielded"
      [] main[i] \in Settled -> "ended"

Launches == INSTANCE AgentLaunches WITH
    Agents <- Invocations, Slots <- Concurrency, Cap <- TotalAgents, NoParent <- Root,
    status <- [i \in Invocations |-> Status(i)],
    parent <- [i \in Invocations |-> IF home[i] = Root THEN Root ELSE owner[home[i]]],
    launches <- charged

(* Permits, scopes and the ledger together keep the promise of              *)
(* AgentLaunches: bounded, capped and structured launches.                  *)
ImplementsAgentLaunches == Launches!AbstractSpec
=============================================================================
