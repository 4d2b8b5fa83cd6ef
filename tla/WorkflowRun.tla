---------------------------- MODULE WorkflowRun ----------------------------
(***************************************************************************)
(* The life of root runs that one process starts in one workspace: the     *)
(* runner (extensions/workflows/runtime/workflow-runner.ts), the terminal   *)
(* sequence (workflow-run-finalization.ts), the disposition                *)
(* (workflow-outcome.ts).                                                  *)
(*                                                                         *)
(* Code between two awaits is one turn: while a run is inside a turn        *)
(* (InTurn) nothing else in the process happens, except that the process    *)
(* may die.  What the code does to files inside a turn is one action per    *)
(* effect, because a crash can come between them.  The lease file and the   *)
(* claim file are modelled in WorkflowLease and HandoffClaim; here they are *)
(* who owns them.                                                          *)
(*                                                                         *)
(* The runner waits for the promise of the script's entry and for nothing   *)
(* else: agents, groups and saved children that the entry started and did   *)
(* not await (work) go on by themselves.  An exception outside every try    *)
(* rejects the runner's own promise (thrown): nothing is finished then.     *)
(***************************************************************************)
EXTENDS Naturals, FiniteSets

CONSTANTS Runs,           \* the root runs the process is asked for
          Continuations,  \* those launched with an operator handoff claim
          NoRun

ASSUME RunsAssumption ==
    IsFiniteSet(Runs) /\ Continuations \subseteq Runs /\ NoRun \notin Runs

VARIABLES at,           \* where the runner stands
          owner,        \* whose lease file lies in the workspace
          lease,        \* what a run knows of its lease
          claim,        \* what a run did with its handoff claim
          script,       \* the promise of the script's entry
          work,         \* what the script started besides: agents, groups, children
          declared,     \* awaitOperator() was declared
          aborted,      \* the run's signal
          ok,           \* the verdict carried through the terminal sequence
          disposition,  \* the disposition carried through it
          result,       \* the disposition in result.json
          told,         \* the disposition the caller is given
          alive,        \* does the process live?
          disturbed     \* history: a host failure, or a lease file taken away

vars == <<at, owner, lease, claim, script, work, declared, aborted, ok, disposition, result, told, alive, disturbed>>

Success == {"completed", "awaiting_operator"}
Failure == {"failed", "cancelled"}
Dispositions == Success \cup Failure \cup {"none"}

Waiting == {"new", "admission", "loading", "script", "finish", "ended", "thrown"}
Turn == {"leasing", "preparing", "binding", "evidence", "deciding", "claim",
         "text", "release", "report", "persisting"}

Init ==
    /\ at = [r \in Runs |-> "new"]
    /\ owner = NoRun
    /\ lease = [r \in Runs |-> "none"]
    /\ claim = [r \in Runs |-> IF r \in Continuations THEN "held" ELSE "none"]
    /\ script = [r \in Runs |-> "idle"]
    /\ work = [r \in Runs |-> "none"]
    /\ declared = [r \in Runs |-> FALSE]
    /\ aborted = [r \in Runs |-> FALSE]
    /\ ok = [r \in Runs |-> TRUE]
    /\ disposition = [r \in Runs |-> "none"]
    /\ result = [r \in Runs |-> "none"]
    /\ told = [r \in Runs |-> "none"]
    /\ alive = TRUE
    /\ disturbed = FALSE

Goto(r, place) == at' = [at EXCEPT ![r] = place]

\* Between two turns: no run of the process is inside one.
Between == alive /\ \A q \in Runs : at[q] \notin Turn

\* A step of a run that waits.
Awaited(r, place) == Between /\ at[r] = place

\* A step inside the run's own turn.
InTurn(r, place) == alive /\ at[r] = place

\* failExecution() and the other early ways into finishRun({ ok: false }).
Fail(r) == Goto(r, "finish") /\ ok' = [ok EXCEPT ![r] = FALSE]

(* An exception outside every try leaves runWorkflowScript(): finishRun()   *)
(* is not called, and what the run holds stays with it.                    *)
Escape(r) == Goto(r, "thrown") /\ UNCHANGED ok

-----------------------------------------------------------------------------
(* The run claims its directory and writes the first journal line; the      *)
(* prelude checks the launch and may refuse it.  The claim of the directory *)
(* and the listener that hears the prelude (emitPrelude) may throw.        *)
Launch(r) ==
    /\ Awaited(r, "new")
    /\ (Goto(r, "admission") /\ UNCHANGED ok) \/ Fail(r) \/ Escape(r)
    /\ UNCHANGED <<owner, lease, claim, script, work, declared, aborted, disposition, result, told, alive, disturbed>>

(* admitWorkflowRun() admits or refuses.                                   *)
Admit(r) ==
    /\ Awaited(r, "admission")
    /\ (Goto(r, "leasing") /\ UNCHANGED ok) \/ Fail(r)
    /\ UNCHANGED <<owner, lease, claim, script, work, declared, aborted, disposition, result, told, alive, disturbed>>

(* Mutant: the lease file is not looked at.                                *)
AcquireLeaseAnyway(r) ==
    /\ InTurn(r, "leasing")
    /\ lease' = [lease EXCEPT ![r] = "held"] /\ owner' = r
    /\ Goto(r, "preparing") /\ UNCHANGED ok
    /\ UNCHANGED <<claim, script, work, declared, aborted, disposition, result, told, alive, disturbed>>

(* The root lease is acquired, or the run fails without one.  The checks in *)
(* the same try may fail with the lease held.                              *)
AcquireLease(r) ==
    /\ InTurn(r, "leasing")
    /\ \/ /\ owner = NoRun
          /\ lease' = [lease EXCEPT ![r] = "held"] /\ owner' = r
          /\ (Goto(r, "preparing") /\ UNCHANGED ok) \/ Fail(r)
       \/ Fail(r) /\ UNCHANGED <<lease, owner>>
    /\ UNCHANGED <<claim, script, work, declared, aborted, disposition, result, told, alive, disturbed>>

(* Handoff eligibility, replay plan, artifact store, continuation: each may *)
(* fail, with the lease held and the claim unbound.  The replay controller, *)
(* the resource loader and the listener of the prelude lines stand outside  *)
(* the tries: what they throw escapes.                                     *)
Prepare(r) ==
    /\ InTurn(r, "preparing")
    /\ \/ Fail(r)
       \/ Escape(r)
       \/ Goto(r, IF r \in Continuations THEN "binding" ELSE "loading") /\ UNCHANGED ok
    /\ UNCHANGED <<owner, lease, claim, script, work, declared, aborted, disposition, result, told, alive, disturbed>>

(* bindWorkflowHandoffClaim(): the answer now belongs to this run.  The     *)
(* report of a failed binding may throw, and so may building the runtime    *)
(* after a good one.                                                       *)
BindClaim(r) ==
    /\ InTurn(r, "binding")
    /\ \/ /\ claim' = [claim EXCEPT ![r] = "bound"]
          /\ (Goto(r, "loading") /\ UNCHANGED ok) \/ Escape(r)
       \/ (Fail(r) \/ Escape(r)) /\ UNCHANGED claim
    /\ UNCHANGED <<owner, lease, script, work, declared, aborted, disposition, result, told, alive, disturbed>>

(* The script is loaded and its entry is called under the guard, or one of  *)
(* the two fails.                                                          *)
Enter(r) ==
    /\ Awaited(r, "loading")
    /\ \/ Fail(r) /\ UNCHANGED script
       \/ Goto(r, "script") /\ script' = [script EXCEPT ![r] = "running"] /\ UNCHANGED ok
    /\ UNCHANGED <<owner, lease, claim, work, declared, aborted, disposition, result, told, alive, disturbed>>

\* The entry or other work of the script calls awaitOperator(), which may happen once.
DeclareAwait(r) ==
    /\ Between
    /\ "running" \in {script[r], work[r]} /\ ~declared[r]
    /\ declared' = [declared EXCEPT ![r] = TRUE]
    /\ UNCHANGED <<at, owner, lease, claim, script, work, aborted, ok, disposition, result, told, alive, disturbed>>

\* The entry starts an agent, a group or a saved child, with a promise of its own.
StartWork(r) ==
    /\ Between
    /\ script[r] = "running" /\ work[r] = "none"
    /\ work' = [work EXCEPT ![r] = "running"]
    /\ UNCHANGED <<at, owner, lease, claim, script, declared, aborted, ok, disposition, result, told, alive, disturbed>>

\* All of it has settled, before the entry has (which may await it) or after.
WorkSettles(r) ==
    /\ Between
    /\ work[r] = "running"
    /\ work' = [work EXCEPT ![r] = "none"]
    /\ UNCHANGED <<at, owner, lease, claim, script, declared, aborted, ok, disposition, result, told, alive, disturbed>>

(* The entry's promise settles, whatever else the script started.  A runner *)
(* that still waits for it classifies what came: a throw, an explicit       *)
(* failure, an unfinished recovery, a changed snapshot and an incomplete    *)
(* replay are failures.                                                    *)
ScriptSettles(r) ==
    /\ Between
    /\ script[r] = "running"
    /\ script' = [script EXCEPT ![r] = "settled"]
    /\ IF at[r] = "script"
         THEN Goto(r, "finish") /\ \E verdict \in BOOLEAN : ok' = [ok EXCEPT ![r] = verdict]
         ELSE UNCHANGED <<at, ok>>
    /\ UNCHANGED <<owner, lease, claim, work, declared, aborted, disposition, result, told, alive, disturbed>>

\* The runs whose guard is installed.
Guarded == {r \in Runs : at[r] = "script"}

(* A detached rejection or an uncaught exception reaches the process: every *)
(* guarded run loses the race against it.  The scripts are not stopped.    *)
OutOfBandFailure ==
    /\ Between
    /\ Guarded # {}
    /\ disturbed' = TRUE
    /\ at' = [r \in Runs |-> IF r \in Guarded THEN "finish" ELSE at[r]]
    /\ ok' = [r \in Runs |-> IF r \in Guarded THEN FALSE ELSE ok[r]]
    /\ UNCHANGED <<owner, lease, claim, script, work, declared, aborted, disposition, result, told, alive>>

(* The operator stops the run or the session ends.                         *)
Abort(r) ==
    /\ Between
    /\ at[r] \notin {"ended", "thrown"} /\ ~aborted[r]
    /\ aborted' = [aborted EXCEPT ![r] = TRUE]
    /\ UNCHANGED <<at, owner, lease, claim, script, work, declared, ok, disposition, result, told, alive, disturbed>>

\* Somebody removes the lease file of a run that lives.
LeaseRemoved ==
    /\ owner # NoRun
    /\ owner' = NoRun
    /\ disturbed' = TRUE
    /\ UNCHANGED <<at, lease, claim, script, work, declared, aborted, ok, disposition, result, told, alive>>

\* The process dies; what it did to files stays.
Crash ==
    /\ alive
    /\ alive' = FALSE
    /\ UNCHANGED <<at, owner, lease, claim, script, work, declared, aborted, ok, disposition, result, told, disturbed>>

-----------------------------------------------------------------------------
(* finishRun() checks the fence: a lease that is not its own is lost.       *)
CheckFence(r) ==
    /\ Awaited(r, "finish")
    /\ Goto(r, "evidence")
    /\ IF lease[r] = "held" /\ owner # r
         THEN lease' = [lease EXCEPT ![r] = "lost"] /\ ok' = [ok EXCEPT ![r] = FALSE]
         ELSE UNCHANGED <<lease, ok>>
    /\ UNCHANGED <<owner, claim, script, work, declared, aborted, disposition, result, told, alive, disturbed>>

(* Workspace evidence, artifact index and handoff envelope; each failure    *)
(* turns the verdict.                                                      *)
Evidence(r) ==
    /\ InTurn(r, "evidence")
    /\ Goto(r, "deciding")
    /\ \E verdict \in {ok[r], FALSE} : ok' = [ok EXCEPT ![r] = verdict]
    /\ UNCHANGED <<owner, lease, claim, script, work, declared, aborted, disposition, result, told, alive, disturbed>>

(* Mutant: the declaration is looked at before the signal.                 *)
DispositionAwaitingFirst(verdict, abort, await) ==
    CASE verdict /\ await -> "awaiting_operator"
      [] abort -> "cancelled"
      [] ~verdict -> "failed"
      [] OTHER -> "completed"

\* workflowDispositionForCompletion(): the abort beats everything.
Disposition(verdict, abort, await) ==
    CASE abort -> "cancelled"
      [] ~abort /\ ~verdict -> "failed"
      [] ~abort /\ verdict /\ await -> "awaiting_operator"
      [] OTHER -> "completed"

Decide(r) ==
    /\ InTurn(r, "deciding")
    /\ Goto(r, "claim")
    /\ LET d == Disposition(ok[r], aborted[r], declared[r])
       IN  /\ disposition' = [disposition EXCEPT ![r] = d]
           /\ ok' = [ok EXCEPT ![r] = d \in Success]
    /\ UNCHANGED <<owner, lease, claim, script, work, declared, aborted, result, told, alive, disturbed>>

\* A later step failed: its error overrides whatever was decided.
Overrule(r) ==
    /\ disposition' = [disposition EXCEPT ![r] = "failed"]
    /\ ok' = [ok EXCEPT ![r] = FALSE]

(* Mutant: a claim is given back only when the run failed.                  *)
ReleaseClaimOnFailure(r) ==
    /\ InTurn(r, "claim")
    /\ Goto(r, "text")
    /\ IF claim[r] = "held" /\ disposition[r] = "failed"
         THEN claim' = [claim EXCEPT ![r] = "released"]
         ELSE UNCHANGED claim
    /\ UNCHANGED <<disposition, ok, owner, lease, script, work, declared, aborted, result, told, alive, disturbed>>

(* A claim that was not bound is given back.                               *)
ReleaseClaim(r) ==
    /\ InTurn(r, "claim")
    /\ Goto(r, "text")
    /\ IF claim[r] = "held"
         THEN \/ claim' = [claim EXCEPT ![r] = "released"] /\ UNCHANGED <<disposition, ok>>
              \/ claim' = [claim EXCEPT ![r] = "kept"] /\ Overrule(r)
         ELSE UNCHANGED <<claim, disposition, ok>>
    /\ UNCHANGED <<owner, lease, script, work, declared, aborted, result, told, alive, disturbed>>

(* The terminal prose is written; it is mandatory.                         *)
WriteText(r) ==
    /\ InTurn(r, "text")
    /\ Goto(r, "release")
    /\ UNCHANGED <<disposition, ok>> \/ Overrule(r)
    /\ UNCHANGED <<owner, lease, claim, script, work, declared, aborted, result, told, alive, disturbed>>

(* The lease is released once, unless the fence was already lost.           *)
ReleaseLease(r) ==
    /\ InTurn(r, "release")
    /\ Goto(r, "report")
    /\ IF lease[r] = "held"
         THEN \/ /\ owner = r
                 /\ lease' = [lease EXCEPT ![r] = "released"] /\ owner' = NoRun
                 /\ UNCHANGED <<disposition, ok>>
              \/ lease' = [lease EXCEPT ![r] = "kept"] /\ UNCHANGED owner /\ Overrule(r)
         ELSE UNCHANGED <<lease, owner, disposition, ok>>
    /\ UNCHANGED <<claim, script, work, declared, aborted, result, told, alive, disturbed>>

(* The report is best effort and changes no verdict.                       *)
WriteReport(r) ==
    /\ InTurn(r, "report")
    /\ Goto(r, "persisting")
    /\ UNCHANGED <<owner, lease, claim, script, work, declared, aborted, ok, disposition, result, told, alive, disturbed>>

(* result.json is written and the caller told, or the write fails and the   *)
(* caller is told of a failure (of the cancellation, after an abort).      *)
Persist(r) ==
    /\ InTurn(r, "persisting")
    /\ Goto(r, "ended")
    /\ \/ /\ result' = [result EXCEPT ![r] = disposition[r]]
          /\ told' = [told EXCEPT ![r] = disposition[r]]
       \/ /\ told' = [told EXCEPT ![r] = Disposition(FALSE, aborted[r], FALSE)]
          /\ UNCHANGED result
    /\ UNCHANGED <<owner, lease, claim, script, work, declared, aborted, ok, disposition, alive, disturbed>>

-----------------------------------------------------------------------------
Start(r) == Launch(r) \/ Admit(r) \/ AcquireLease(r) \/ Prepare(r) \/ BindClaim(r) \/ Enter(r)
Script(r) == DeclareAwait(r) \/ StartWork(r) \/ WorkSettles(r) \/ ScriptSettles(r)
Finish(r) ==
    \/ CheckFence(r) \/ Evidence(r) \/ Decide(r) \/ ReleaseClaim(r)
    \/ WriteText(r) \/ ReleaseLease(r) \/ WriteReport(r) \/ Persist(r)

Next ==
    \/ \E r \in Runs : Start(r) \/ Finish(r) \/ Script(r) \/ Abort(r)
    \/ OutOfBandFailure
    \/ LeaseRemoved
    \/ Crash

Spec == Init /\ [][Next]_vars

-----------------------------------------------------------------------------
TypeOK ==
    /\ at \in [Runs -> Waiting \cup Turn]
    /\ owner \in Runs \cup {NoRun}
    /\ lease \in [Runs -> {"none", "held", "lost", "released", "kept"}]
    /\ claim \in [Runs -> {"none", "held", "bound", "released", "kept"}]
    /\ script \in [Runs -> {"idle", "running", "settled"}]
    /\ work \in [Runs -> {"none", "running"}]
    /\ declared \in [Runs -> BOOLEAN] /\ aborted \in [Runs -> BOOLEAN] /\ ok \in [Runs -> BOOLEAN]
    /\ disposition \in [Runs -> Dispositions]
    /\ result \in [Runs -> Dispositions] /\ told \in [Runs -> Dispositions]
    /\ alive \in BOOLEAN /\ disturbed \in BOOLEAN
    /\ Cardinality({r \in Runs : at[r] \in Turn}) <= 1

(* A lease file that lies in the workspace belongs to a run that counts on  *)
(* it, or whose release failed: whoever reads a result (an operator who     *)
(* answers it, a --force launch) finds that the run has let go or that the  *)
(* run says it failed.                                                     *)
LeaseAccounted ==
    \A r \in Runs :
       /\ owner = r => lease[r] \in {"held", "kept"}
       /\ result[r] # "none" => owner # r \/ result[r] = "failed"
       /\ at[r] = "ended" => lease[r] # "held"

(* A handoff claim does not outlive the terminal sequence undecided: it was *)
(* bound to the run before the script started, or given back, or the run    *)
(* has failed.                                                             *)
ClaimAccounted ==
    \A r \in Continuations :
       /\ script[r] # "idle" => claim[r] = "bound"
       /\ at[r] = "ended" => claim[r] # "held"
       /\ result[r] # "none" /\ claim[r] = "kept" => result[r] = "failed"

(* The exception: a run whose runner threw may keep both, in a process that *)
(* lives.  It claims no outcome, and it never came to its script: neither   *)
(* the entry nor an agent works under a lease that nobody will release.    *)
EscapesAccounted ==
    \A r \in Runs :
       at[r] = "thrown" =>
          script[r] = "idle" /\ work[r] = "none" /\ result[r] = "none" /\ told[r] = "none"

(* What a run takes, it gives back or says why not, unless its runner threw *)
(* before the script was called.                                           *)
HoldingsAccounted == LeaseAccounted /\ ClaimAccounted /\ EscapesAccounted

(* A success, on disk or told to the caller, is the success of an entry     *)
(* that settled, under a lease that was held to the end, and not aborted.   *)
SuccessEarned ==
    \A r \in Runs :
       result[r] \in Success \/ told[r] \in Success =>
          script[r] = "settled" /\ lease[r] = "released" /\ ~aborted[r]

(* As long as no failure came out of band and nobody took the lease file    *)
(* away, the entry of a script runs, and starts its agents, only in a       *)
(* workspace that its run owns: no two entries run in one workspace.  The   *)
(* work that an entry did not await is excepted: it goes on after the lease *)
(* is released and the result written, although docs/workflows/outcomes.md  *)
(* (77-79) says that every started branch settles before both.             *)
ScriptsExclude ==
    ~disturbed => \A r \in Runs : script[r] = "running" => lease[r] = "held" /\ owner = r
=============================================================================
