# TLA+ specifications of locus-pi

locus-pi is a TypeScript package of extensions for the Pi coding agent. Its core is a
workflow engine: scripts launch agents in bounded, nested and replayable ways, a run owns
a workspace, journals what it does, may stop to ask an operator and may be continued by a
later run. These modules specify the parts of that engine where orders of events decide
correctness, check them with TLC on small instances, and prove the central results with
TLAPS for every value of the constants.

Paths below are relative to `src/extensions/`; `runtime/` stands for `workflows/runtime/`
and `shared/` for `_shared/`.

## 1. The system

| Component | State it keeps | Operations | Hard behaviour | Correct when |
|---|---|---|---|---|
| Launch ledger, `shared/runtime/execution-budget.ts` | sequence, charged, replayed, reserved, one record per reservation | reserve, release, allocate, charge, assertDeadline | counters kept apart; the cap's boundary; reservations held across awaits | counters agree, the cap holds, a promised slot stays |
| Permit queue, `shared/runtime/execution-scheduler.ts` | inUse, active, peak, waiters | acquire, activate, release, abort listener | admission, release and abort in any order | no permit lost or doubled, first come first served, no waiter while a permit is free |
| Execution owner, `shared/runtime/execution-state.ts`, `runtime/workflow-execution-state.ts` | scopes with jobs, failure, signal; per launch a permit and a delegation | createInvocation, run, withChildren, close | code between awaits interleaves; parents yield permits; failure and abort during a drain | parents join children, failures reach the parent, no launch after a failure, no deadlock |
| Workspace lease, `runtime/location-state/*` | lease.json, reclaim.json | acquire, guarded reclaim, assert, release | several processes, crashes between file operations, pid reuse | one owner, never displaced while alive |
| Handoff claim, `runtime/workflow-handoff.ts`, `workflows/operator/operator-handoff-service.ts` | claim, claim lock, child run | claim, bind, release, project | two operators, crashes, claims that expire, takeover by a reading of the run | one continuation answers |
| Run lifecycle, `runtime/workflow-runner.ts`, `workflow-run-finalization.ts`, `workflow-outcome.ts` | run directory, journal, lease, claim, result | admission, start, script, finalize | every step may fail; a host failure reaches all active runs; lease released before the result | each resource released once, one terminal outcome |
| Journal and readers, `runtime/workflow-journal*.ts`, `workflow-interrupted-recovery.ts`, `workflow-run-admission.ts`, `workflow-run-resume.ts` | append-only journal, result.json | append, summarize, recover | a reader sees any prefix, perhaps of a dead writer | a reading never contradicts the outcome |
| Replay, `runtime/workflow-replay.ts` | log of earlier calls, cursor, refusal | begin, record, resolve, assertComplete | concurrent branches consume one log | a prefix replays or is refused, never mixed |
| Groups, `runtime/workflow-groups.ts` | branches, reservation, failures | parallel, pipeline, runGrouped | partial failure, abort, reservation held by branches | every branch is joined, the reservation is returned |
| Agent calls, `runtime/workflow-agent-call.ts`, `workflow-agent-attempt.ts` | attempt, session, usage | attempt, retry, accept, record | timeouts and late answers, retries of what was done | one accepted result per call |
| Agent host, `shared/agent-runtime/agent-sdk-host.ts`, `agent-runner.ts`, `shared/runtime/long-timer.ts`, `session-core.ts` | session, abort controller, timers | start, prompt, abort, dispose | events after the end, abort against completion | disposed once, no event after the end |
| Live store, `shared/agent-runtime/agent-live-store.ts` | one record per agent, subscribers | start, update, end, prune | late updates, pruning of running agents | a finished agent stays finished |
| Operator interaction, `shared/operator/operator-interaction.ts`, `workflows/operator/operator-handoff-controller.ts`, `ask-user-question/*` | one slot, a queue of questions | claim the slot, answer, dismiss | session switches, abort while a dialog is open | one dialog at a time, each answer delivered once |
| Background runs, `workflows/run/background-run-registry.ts`, `workflows/launch/*` | registered runs, stop requests | register, stop, drain | stop against completion, session end | every run is accounted for |
| Saved children, `runtime/workflow-saved-child.ts`, `workflow-workspace-state.ts`, `workflow-launch-binding.ts`, `workflow-worktree.ts` | checkpoint files, child runs, run links | invoke, read, commit, quarantine | an edited source, a lost checkpoint, a script that ends under its invocation, a lease lost between check and rename | a checkpoint answers what was earned, a typed child is not computed twice |
| Structured results, `runtime/structured-results/*`, `shared/agent-runtime/output-acceptance/*` | raw turns with their calls, submissions, the accepted value, the ledger of the child | observe a frame, admit a request or a tool, finish a turn, inspect, write and verify a receipt | a provider that sends frames in any order, batches, retries of three kinds, replaced hooks | what is accepted can be verified again, siblings of a return never run, generations are bounded |
| Artifacts, fusion, budget settings | files, settings | publish, validate | partial publication | what is admitted was complete |
| Models, sources, catalog, discovery, commands, rendering, AST edit | settings files, view state | parse, select, render | little: sequential data processing | (unit tests) |

How they interact. A workflow script runs in one process and calls the runtime
(`workflow-runtime.ts`), which makes each agent call an invocation of the execution owner;
the owner charges the ledger and asks the permit queue, awaits the agent host and hands
its result to output acceptance, the journal and the replay log. Everything inside a
process is JavaScript: code between two awaits is atomic. Processes share only files: the
lease, the claim with its lock, the journal, the result. There every file operation is a
step of its own, and a process may die between any two.

## 2. Modules

| Module | Models | Status |
|---|---|---|
| `ExecutionBudget` | the ledger, one action per method | checked, proved |
| `ExecutionScheduler` | the permit queue, `Reschedule` being what each method comes down to | checked, proved |
| `ExecutionState` | the execution owner; extends both; one action per stretch between two awaits | checked, safety and refinement proved |
| `AgentLaunches` | abstract: what an owner promises about launches | implemented by `ExecutionState` |
| `WorkflowLease` | the lease and its guard, one action per file operation, several processes | checked, proved |
| `HandoffClaim` | the claim and its lock, one action per file operation, several operators | checked, proved; one divergence |
| `WorkflowGroups` | trees of groups, one action per step of a worker or a branch wrapper | checked, proved |
| `WorkflowRun` | the runner from launch to result, one action per step that can fail or await | checked, proved |
| `WorkflowReplay` | the recorded-call store of one run: ordinals, lookup, refusal, settlement, its log | checked and proved through `WorkflowResume` |
| `WorkflowResume` | chains of runs: agent calls and their lines, crashes, lost writes, what a resume, a typed resume and an interrupted recovery admit; extends `WorkflowReplay` | checked, proved; what a recovery repeats, for at most one lost write |
| `BackgroundRuns` | the registry of command and tool runs over session generations | checked and proved through `WorkflowSession` |
| `OperatorInteraction` | the one surface on which questions are asked, one component or several to a request | checked through `WorkflowSession`, proved |
| `WorkflowSession` | one Pi session: both of them and the handoff controller that asks, claims and continues | checked, proved |
| `WorkflowSavedChild` | chains of root runs that invoke a saved child: its source, its checkpoint, what the ancestry says, the commit under the lease | checked, proved |
| `AgentLiveStore` | the store of live agent rows, as operators on its value | checked and proved through `AgentSession` |
| `StructuredReturn` | the owner of one structured result and its receipt, as operators on its value | checked and proved through `StructuredCall` |
| `StructuredCall` | one call with a schema: the provider's stream, the hooks of the host, its acceptance loop, a fresh child; extends `StructuredReturn` | checked; research and generations proved |
| `AgentSession` | child agents from the call to the verdict: bridge, launcher, host, envelope, and the operator who watches, steers and stops; extends `AgentLiveStore` | checked, proved |

### Execution owner

`main[i]` is where `execute()` of invocation i stands, `stage[s]` where `delegate()` of
scope s stands, `delegation[i]` the scope an invocation awaits. An abort controller is an
element of `Controllers`; a scope's signal is the set of controllers that
`AbortSignal.any()` joined into it, so `Aborted(i)` is a set intersection. `Fire` aborts
controllers and, in the same action, runs the abort listeners of the queued waiters, as
the DOM event does. Promise reactions that run later are actions of their own
(`AcquireRejected`, `JobRejected`, `Drained`, `Resumed`). A `stray` job is one that a
closed scope refused: the scope's list of jobs to drain had been taken before.

The waiters array is a set with, for every waiter, the set of the waiters in front of it.
A splice in the middle is then a set difference, and "nobody is overtaken" can be said and
proved without positions.

`PromisedSlotsStay` is about who takes a promised slot. `TakenFrom(r)` is the set of the
invocations backed by reservation r that are launched or replayed in a step: while r stands,
it shrinks by the size of that set and by nothing else. An invocation without a reservation
may be launched only if all the slots that are still held fit under the cap afterwards; they
are counted slot by slot there, not read from the shared counter that the code compares with.

### Workspace lease

A file is absent or names its run and says whether its JSON is whole: creation and write
are two operations, and a crash may come between them. Runs of one process never
interleave inside an acquisition because the code is synchronous (`Ready`). A pid may be
dead, reused by a process of the same user, or unverifiable (reused by another user's).
The recovery that `docs/workflows/running.md` describes is an action: the operator removes
exactly the named file of a process that is gone. The action is enabled only while no
launch is in progress; a removal that overlaps a guarded reclaim can free the path under
the reclaimer, whose rename would then take a fresh owner's lease.

### Handoff claim

Every operator is a process with one continuation run. A transition (`claim`, `bind`,
`release`) takes the lock, reads the claim, checks the lock again and mutates. `child[o]`
is what the run's files say; `erring` is a run that journaled an error line, has no result
and goes on. The lock grows old only after its owner died: the code's transition takes
far less than the 30 seconds of the lock lease.

### Groups

The trees of groups a script can build are constants; `Root` and `Above` are redundant
(the assumption ties them to `Host`) and spare a recursion. `loops[g]` counts the workers
that are at the head of their loop, a running branch stands for the worker that awaits it.
A thunk is nondeterministic: it returns, returns a failure, throws an error of its own or
one it caught from a nested group, swallows that, or meets the cap or the deadline; the
last is named by the branch, so that "the first failure" can be told from a later one.
`hard` is a history variable. A detached group is one whose promise nobody awaits.

### Run lifecycle

`at[r]` is the step the runner is about to take. The code of a run between two awaits is a
turn in which no other run of the process moves; the steps of a turn are still actions of
their own, because each touches files and the process may die between them. Lease and
claim are reduced to who owns them, which is what `WorkflowLease` and `HandoffClaim`
establish. An out-of-band failure ends every guarded run at once and
stops no script, so `script[r]` goes on by itself. `LeaseRemoved` is somebody who deletes
the lease file under a living run.

The runner awaits one promise, that of the script's entry: `script[r]`. What the entry
starts and does not await (agents, groups, saved children) has promises of its own:
`work[r]`, which may settle before the entry or long after the run's result. Nobody waits
for it and nobody stops it.

Most of the start stands inside tries that lead to `finishRun()`; some calls do not, and
what they throw leaves the runner (`Escape`, then `at[r]` is "thrown"): the claim of the run
directory (`workflow-runner.ts:348`), the listener that hears the prelude (`:414`), the
replay controller (`:764`), the resource loader (`:798`), and what follows a good binding
until the script is loaded. Then `finishRun()` is never called. A claim that was not bound
expires after five minutes; a lease stays with the living process, and as there is no result
`--force` does not take it either. `HoldingsAccounted` says what is left of the promise: such
a run claims no outcome and never came to its script.

### Replay and resume

`replayer` is the controller of `workflow-replay.ts` with its options, its cursors and its
counters. `Lookup` says what a call finds at the ordinal of the cursor, `Verdict` what that
comes to, `Admitted` and `Settled` what beginning and recording an attempt change. `verdicts`
is a history variable: what each admission got. A workflow version is a set of branches of
steps; a step calls an agent, whose prompt may quote what the branch read last, or reads the
clock. `WorkflowResume` runs such a version (`Admit`, `Queue`, `Start`, `Finish`, `Settle` are
the stretches of `runAgentAttempt` and `runAttempt` between two awaits), appends to `journal`
and `record` the lines that the code appends, in its order, and lets any write be lost and
the process die between any two actions. `Resume` starts the next run of the chain when
`Recoverable` (an interrupted recovery), `TypedEvidence` (a typed resume) or a plain text
resume admits it. A damaged row reads as a missing one.

### Saved children

`root[r]` is a run of the workspace in a process of its own, with the runs it resumes (or
continues); `call[r][u]` is where `invoke` of `SavedChildExecutionOwner` stands for the unit
`u`, and what the parent's journal and result say of it; `child[r][u]` is the run it started.
A checkpoint is the identity it was written under and the run that wrote it; `whole` says
whether it still reads. `FiledAs` is the digest of its path, so that what a typed checkpoint
is compared by (`SameIdentity`) and what it is found by are told apart. `Refused` is the walk
of `hasPriorCompletedTypedChild`. `Read` is the stretch from the admitted input to the start
of the child, `Fence` and `Rename` the two halves of a commit, between which only other
processes move (`Free`). A script need not await its invocations, so `End` comes at any time
and what it left goes on. Around the runs somebody edits the child's source and damages or
removes a file, and a release of the lease fails (`MaxUpsets` of these together). Lines of
the journal are not lost here (they are in `WorkflowResume`).

### Session

A session has generations: `session_shutdown` revokes the lease of one, and what was launched
under it settles later. `BackgroundRuns` has one action per operation of the registry.

`OperatorInteraction` has one action per stretch of `requestInlineOperatorInteraction` and of
the component wrapper between two awaits: a request waits for the surface, enters under its
guard, mounts, reports, is disposed; `silent` holds the disposals whose microtask is due. One
`custom()` call may run its factory again (`Remount`), so a component is a pair of its request
and a number; `building` is `mount.inFlight`, `built` numbers `mount.current`, and `screen`
is the component that the host shows. `holder[f]` is who holds the slot of the queue that
request f founded: a queue nobody waits in is dropped, and the next request founds a new one
that knows nothing of the old one's holder. `strayed` is a history variable: a call that
builds a second component has parted from its slot, because the first was disposed
meanwhile (which gives up the slot of the whole request) or because the request was
superseded or given up. The host is external; it is modelled from what the module's comments
and the host of its tests say: it closes a call once, and closing restores the editor over
whatever is on the screen.

`WorkflowSession` adds the pump of `operator-handoff-controller.ts`, automatic or commanded,
and the service behind it. The guard of a pump is evaluated before the question, at the mount
and after the answer, and Pi may be busy at any of these. The service claims the handoff,
then launches, then perhaps releases: it is one stretch of synchronous code, and every way
through it is a disjunct of `LaunchClaimed`. The launch gives a continuation, or is refused
or throws, and then the release works or fails. `claimOf` is the claim with the run it is
left to, `summary` what the files of a continuation say, `Projected` what the controller
concludes from both. `Faults` names what may go wrong around a claim: it expires unbound, its
release fails, a bound continuation survives an error line, or a run escapes (above).
`orphaned` marks the handoffs whose claim could not be released or whose run escaped.
`HandoffClaim` is the file-level model of a claim.

### Agent sessions

A call is one child agent: of a workflow (through `workflow-agent-bridge.ts`) or a task that
somebody spawned (through `run-launcher.ts`). `at[c]` is what its code awaits, `child[c]`
what the child's session has done, `turn[c]` how many prompts it was given. One action is
one turn of the event loop: `Abort` aborts a controller and takes every turn that races
against it to the stopping of its child, as the promise reactions do before anything else
runs. `owner[c]` is `abortOwner`: the run, the call's own fuse or a question that could not
be recorded, whichever was first. `Depart` is the way out that all paths share: disposal,
the envelope (whose write may fail), the verdict of the bridge or the last patch of the
launcher. What was local to a call is forgotten there. The child and its provider are
external: they may send no event, fail, or never answer. `AgentLiveStore` has the rows: an
execution handle is the call that holds it, so a handle of an earlier round in the same row
or of an earlier session reaches nothing. The operator (`View`, `Steer`, `FleetStops`) acts
on the execution that is on the screen, which may be an old one.

### Structured calls

`port` is the owner that `createWorkflowStructuredCall` closes over: the raw turns, what each
call id was judged, the submissions, the accepted value and whether a failure was noted; its
callbacks are the operators of `StructuredReturn`. `Receipt` projects it as `receipt.ts`
writes it, `Verifies` counts it again as replay does. In `StructuredCall` one action is one
raw frame, one hook or one step of the host's loop: `Added` and `Finalizes` may come in any
order and for any item until a terminal frame (`Completes`, `EndsBadly`) or a disconnect, and
`queue` is what the message then holds of tool calls. The two counters of the ledger differ:
`toolCalls` counts what the child announced, `admittedToolCalls` what the hooks let through.
`limited` says that a budget stop won the race of `driveChildTurn`: the child may still go on
until the host stops it, but its prompt is no longer listened to. `Request` is any request of
the child: of the prompt, of a steering message, of the SDK's own retry. `HooksReplaced` is
another extension that replaces the hook which observes the stream; one that replaces all
hooks takes the child out of the code's hands and is not modelled. A failure is a flag, its
cause is wording. `effects` is a history variable.

The model assumes that the SDK reads nothing behind the terminal event of a response
(`protocol-controls.test.ts` tests that): an item observed after it would enter no receipt
consistently, and replay would refuse it.

## 3. Runs

| Run | Question | Bounds |
|---|---|---|
| `execution_nested` | do queue, permits and owner fit together; joins, failures, late launches, refinement of `AgentLaunches` | 3 invocations, 2 scopes (a grandchild), 1 permit, cap 2: two wait behind one, the third launch is one too many |
| `execution_live` | do ledger and promised slots fit the launches, and does every started invocation settle? | 2 invocations, 1 scope, 1 permit, cap 2, 1 reservation of up to 2 slots, with fairness: a parent and the child it waits for meet at the permit, a group and an unreserved launch at the last slot. A third invocation would repeat one of the two roles; it is in `execution_nested`, without fairness |
| `lease` | one owner, never displaced, nobody waits? | 3 runs in 3 processes, 2 rounds: an owner, a reclaimer and one that takes the gap |
| `handoff` | is the handoff answered once, does nobody wait? | 3 operators: a dead one, and two that race for what it left |
| `handoff_errors` (violation) | is a claim ever taken from a running continuation? | 2 operators |
| `groups` | do barriers join, are slots accounted for, does a swallowed hard failure surface? | 4 groups on 3 levels: a pair on two workers, a pipeline of two items and two stages on one worker below it, a group below its first item and a forgotten group below its second |
| `run` | are leases, claims, verdicts and results in step, whatever fails; do entries exclude each other? | 2 runs, one a continuation, one workspace |
| `resume` | does a replayed call get its own answer, only on an unbroken prefix; is confirmed work neither repeated nor skipped; can ended typed runs be resumed? | eight versions: a serial text script with a retried call, two repairs of it and one with a worktree call (3 runs, 1 lost write), a typed one with a caught failure and a clock (3 runs, 1 lost write), a text and a typed group of two branches with a structured call (2 runs), two calls outside of a group (2 runs, 1 lost write); two answers, symmetric |
| `saved_child` | does a checkpoint answer only what was earned, does a stale owner commit nothing, is a typed child computed once in its lineage? | 3 runs, one unit (a run may end at any time, as if it had others to attend to), 3 scripts and 3 sources of which two pass or take a value, one upset |
| `session` | one command run, does a shutdown wait for what was launched, does an answer stay in the session that asked; does a handoff that reads as running have its continuation at work; can a caller that waits for its component be answered? | three instances in one run (`MC_WorkflowSession`), below |
| `agent` | does the verdict stand on what happened, does steering reach the child on the screen, does a stop end the call? | two of three calls: two rounds of one workflow row, the first structured, on at most 2 turns and with a deadline, the second free to ask, and a task beside them |
| `structured` | does every accepted value leave a receipt that replay verifies, does work run beside or after a return, are generations bounded? | 4 call ids, 2 to a response, 3 responses, one valid value and one that is not (a repetition is the same value, a conflict the other one), 2 submissions, 3 turns, 3 admitted tools: research, a rejected batch, its correction; any number of fresh children |

`session` is a run of three instances, because their product is too large and none of them
needs all of the others' detail. "questions" has 2 runs, 2 generations, a question of the
controller and a viewer, one component each, which reports or is replaced but not
disposed, and no faults of claims. "claims" has 3 runs, all of commands (one
that asks, its continuation, and one that takes over or continues that one) and one generation
with its shutdown, all four faults, and answers by command, because the surface adds nothing
to what a claim goes through. "surface" has 3 requests (one shown, one that takes its place,
one that founds the next queue), one of which may build a second component.

Larger instances add more actors of the same kinds. The bounds are chosen so that every
pair of actors that can meet at a resource does, with a third party that died or waits. A
chain of three runs has one that records, one that replays part of it and records again,
and one that replays that mixture. Answers are only compared for equality and the
properties of `resume` are safety properties, so their symmetry is sound.

One divergence is recorded with the run marked so, `handoff_errors`: a running continuation
that journaled a tolerated error reads as failed, so another operator takes its claim.
The passing runs contain this history and those below; variables (`astray`, `disturbed` and
the `script` that still runs, `held`, `strayed`, `orphaned`, the place "thrown") mark them and
their like, and the properties that they break are stated for the histories without them.

What else the modelling met, without a run of its own:

* `docs/workflows/outcomes.md:77` promises that every started branch settles before the run's
  result and the release of its lease. The runner awaits the entry's promise alone, so a
  branch that the entry does not await goes on (`work`) in a workspace others may take; and
  the guard against host failures (`workflow-runner.ts:1114`) ends a run whose entry still
  works. `ScriptsExclude` is about entries, and excepts the second case as `disturbed`.
* `docs/workflows/evidence.md:202` says that a launch failure releases the claim. A runner that
  throws outside its tries releases nothing (`Escape`).
* An automatic pump must not ask what was answered already, says
  `operator-handoff-controller.ts:162`. A command that answers a retryable handoff anew while
  the launcher is busy first takes the claim of the failed continuation over and then removes
  it (`ReleaseClaim` of `WorkflowSession`), so the handoff reads as never answered and the next
  automatic pump raises it.
* A superseded surface can never blank the live one, says `operator-interaction.ts:296`. A
  component that is built for a request after that was superseded is mounted over it all the
  same (:363), and one that is disposed after another was built for its request gives up the
  slot that the other stands on (:347). `StrandsNobody` ends where such a call has strayed.
* With three operators, two that saw the same dead owner's lock can both pass: the slower
  removes the faster one's fresh lock by its path, and the faster one's rename still goes
  through (`astray`).
* An abort that arrives while an output contract is being installed does not end the call:
  the host looks at the signal before that await (`agent-sdk-host.ts:748`) and listens to it
  again only in the next turn's race, where an already aborted signal is not noticed
  (`agent-sdk-host.ts:1178`); `StopEndsCall` names the gap.
* A question of `workflow_ask` that is on the screen when its call is stopped is recorded as
  declined by the operator (`workflow-ask-tool.ts:275`), which `docs/workflows/running.md`
  reserves for what an operator did; the model has the question, not the text of its record.
* `docs/workflows/dsl.md:455` says that a stale owner is prevented from committing after a
  takeover. A run whose own release failed has ended with a result, so `--force` replaces its
  lease; if an invocation that its script left behind stands between the lease check of its
  commit and the rename, it renames all the same. `StaleOwnerStops` excepts that run (`held`).
* The clean-up of an earlier attempt is not awaited for ever: a child of an attempt that timed
  out may still be in its `prepareRequest` hook when the next attempt drives the same owner,
  and the turn it then opens fails the call. The model's fresh child replaces the old one.
* A script that ends (a rejected `Promise.all`, an invocation it does not await) leaves its
  children working, and a run that resumes it may start the same text unit beside them: a
  unit is worked at least once. And after an interrupted recovery every saved child is
  refused in the recovered run and in all that resume it, a text one too, because an ancestor
  without a result proves nothing (`workflow-launch-binding.ts:237`).

Fairness. `execution_live` assumes that promise continuations run, and that callbacks end
once they await nothing; a JavaScript event loop gives the first, the agents' timeouts the
second. Nothing is asked of operators, deadlines or aborts. `agent` assumes weak fairness of
`Progress(c)`: timers that are armed fire, waits with a bound end, file operations and the
creation of a session settle. Nothing is asked of the child, the provider or the operator:
`StopEndsCall` holds although a prompt may hang for ever. Lease, claim and groups are
checked for progress without fairness: `NeverWaits` says that a process in the middle of
an acquisition or a transition can always take its next step by itself, and the tries are
bounded (the lease's by `TypeCorrect`, which is proved, the handoff's by the two that its
guard admits); `SomebodyMoves` says the same of a tree of groups, in which
every move is final.

Deadlock is not checked, because every system here really stops: invocations that have all
settled, groups that have all ended, runs that are over, processes that died. What must
not stop before is said by the properties above.

## 4. Proofs

* `ExecutionState_proofs` holds what concerns launches.
  * The ledger: `BudgetInv` adds to the three checked invariants that an active
    record was made. The shared counter equals the number of pairs `<<r, k>>` with k at most
    what r still holds (`HeldSlots`), so a change of one record is a change of a disjoint
    part of that set (`SlotsChange`).
  * The queue: the invariant is the conjunction of the checked ones. The permit counters
    need the queue order (only one waiter is first, so one dispatch admits at most one), and
    work conservation needs that a non-empty finite queue has a first element, which is a
    well-foundedness argument (`FirstExists`).
  * The owner touches ledger and queue only through their operations, so their invariants
    carry over. `ScopeInv` relates scopes, owners and jobs, `SlotInv` says who executes and
    who asks, `FailureInv` how a failure travels. Each is preserved action by action; the
    effect lemmas say what an operation of the queue does to `Executing` and `Asking`, so
    that no later proof opens the queue again.
  * Promised slots: a launch or a replay takes one slot of the reservation behind it, and that
    is the only way into `working` or `replayed` (`TakenFrom`); that an unreserved one leaves
    every held slot under the cap follows from `BudgetInv`, by which the counter that the
    code compares is the number of the slots.
  * The refinement: under that invariant every step changes the abstract status of at most
    one invocation, in a way `AgentLaunches` allows.
* `WorkflowConcurrency_proofs` holds the lease and the groups.
  * The lease: each file has at most one run that may touch it. `GuardOwned` and `LeaseOwned`
    say where a run stands while a file is its own; `StaleFound` says that the lease under a
    reclaimer's rename belongs to a run that is over, which rests on `GoneEnded` (a run whose
    process is gone, or that has its result, never moves again). Every step of an acquisition
    is reduced to what it does to the two files (`GuardEffect`, `LeaseEffect`), and the
    invariants are proved from that.
  * The groups, for every tree, width and number of stages: steps are reduced to a few kinds
    (`StepKinds`). Joining is local (`OpenWorks`, `HostsWait`). That a failure swallowed on the
    way up still fails the outermost group is not: `KeepsAbove` says that an awaited group
    keeps every branch above it running, so the root is still open when the failure happens,
    and `HardStops` that its verdict will see the stop record. A settled group without a
    failure has dispatched all its branches because an open one always has a worker or a
    running branch (`Attended`). `GroupsNeverStick` is `SomebodyMoves` with the guards in the
    place of ENABLED (`Unstuck`): a group that cannot work waits for one deeper in the tree
    (`WaitsBelow`), and the branches around a group are finitely many, so a deepest active
    group has nobody to wait for.
* `WorkflowRun_proofs`: `RunInv` says of every place a run can be in what it holds there: its
  lease (`LeaseStands`), its script (`ScriptStands`), its verdict (`VerdictStands`), its
  claim (`ClaimStands`); and one run at a time is inside a turn (`OneTurn`). A run that threw
  is a place like the others, where the script is idle and nothing was decided. The checked
  properties are not inductive: what a failure leaves behind depends on how far the run had
  got. One frame lemma says that a step of one run leaves the parts of the others alone; each
  action then shows its own part.
* `WorkflowOperator_proofs` holds the session, its surface and the claim. `SessionInv` is
  the conjunction of a part for the registry (`RegistryInv`: which runs a generation and a
  lease of the session still count), one for the surface (`SurfaceInv`) and one for the
  pump (`PumpInv`). `SurfaceInv` says at all times that those who wait do so in the one
  queue that is not dropped (`OneQueue`) and that who builds, holds or may report has come
  up (`ComeUp`); and, until a call has strayed, that one request is shown, which holds the
  slot of its queue and the screen, and that late reports are dropped (`SurfaceKept`). It
  is an invariant of the surface by itself and, because a step of the session is a step of
  it or leaves it alone, of the session. `PumpInv` says which continuation a claim names
  and how far that one is (`ClaimsStand`, with the exception of the orphaned), that one at
  work keeps what it bound until an error line (`BoundStand`), and what has been answered
  (`AnswersStand`). `HandoffInv` is about the claim: while the protocol has not gone
  astray (no fresh lock broken, no error survived), the lock of a transition under way is
  its own (`LockOwned`), so what it found out about the claim still holds when it acts
  (`ClaimFound`), and a continuation that works or has completed is the one the claim
  names (`Answering`), which no transition takes.
* `WorkflowSavedChild_proofs`: `SavedInv` says that runs resume runs that were launched
  before, down to one that resumes none (`Rooted`), what a call and its child are at each
  place (`CallStands`), and that a commit is under way only with the lease that was
  checked (`Fenced`). `StaleOwnerStops` and `TypedOnce` are action properties that follow
  from it.
* `WorkflowResume_proofs` holds replay, in four parts.
  * Answers: the record of a run and the log it is to replay are made of rows that were
    earned (`RowsEarned`): every answer in them was given to a call of that slot and name by
    this run or an ancestor. The replayer is a prefix machine (`Prefixed`): once it is not
    replaying it never is again.
  * The chain (`ChainInv`): each open receipt belongs to one branch and each branch in a call
    has one (`Linked`), an ordinal has one receipt, and the counts are cardinalities of sets
    of verdicts (`Counted`), so that an admission and a settlement change one element of
    them. `TypedStands` says of a typed replay what each verdict means for the row of its
    ordinal; a run that succeeded has a complete controller (`Served`). The lemmas on
    `Admitted`, `Settled` and `AfterValue` (`AdmitFields` and its like) say which fields they
    change, so that no later proof opens the controller.
  * The first run, undisturbed (`FirstRunInv`): a call has a row exactly when it was settled
    (`RecordTells`), a queued or started line exactly when it was admitted (`CallsTold`); the
    last line about a call says what its row says or what it will say (`RowsTold`,
    `CallTold`), and what was started has ended or is running (`StartsTold`). When such a run
    ends nothing is open, and rows and lines number the same calls.
  * Recovery, in a chain in which at most one write fails. The dead run (`WrittenInv`): its
    calls are known by an open receipt, by a row, or, for the one whose row was lost, by what
    was written before; what was started is known; and the number in a node name counts the
    calls with its label before it (`Counts`), once they are all known, for an ordinal may go
    to a call that was refused. What was answered was started, unless the one lost write was
    that start: while its attempt runs nothing else can be lost, so it leaves an end without a
    start (`Torn`), which no recovery accepts. In a journal that is accepted, then, there are as
    many starts as rows and every row was started, so every start has its row
    (`RecoverablePrefix`). The recovery (`PrefixInv`): up to the end of its record it is served
    row by row under the same names, or it refuses all that follows; behind it a new call has a
    later number of its label. So no name of the dead run gets a child, and a run that counts
    as many replayed calls as rows was served each of them.
* `StructuredCall_proofs`: turns are paid for. While a response is open, every earlier turn
  since the first that was not research has cost a submission (`PaidBefore`); when its turn
  is finished it has paid as well (`Paid`), by its returns, by the batch, or because nothing
  was returned; a request is let through only while a submission is left (`Afforded`). That
  bounds the generations; and it shows that work which is not blocked, before the first
  submission, stands in a turn of research after turns of research. The lemmas on the
  owner's operators say what each does to the turns and to the count; those on `Returns` and
  `EachFinalized`, which are recursive functions, rest on an induction over 0..n (`UpTo`)
  from the well-foundedness of the subsets of a finite set.

  The receipt is counted again from the raw turns, by cardinalities of sets of places, while
  the code counts on line (`ReceiptInv`). `Tally(p, m)` says that the two counts are one: the
  submissions are the turns that count as a whole (a rejected batch, a turn without a call
  that should have had one) and the calls that were judged one by one; the last turn may
  count only once it has paid, hence the bound `m`. That a step adds exactly one place needs
  that the places are what they seem (`Sound`): every turn but the last completed, under an
  identity of its own (`Named`), no call is proposed twice (`Placed`), each was observed
  (`Known`), until a value is accepted all are rejected (`Told`), and the chosen place has
  only rejections before it and repetitions behind it (`Decided`); and that the items of the
  open response are new (`Fresh`). One lemma per operator says what it adds
  (`JudgedIsBilled`, `RejectedIsBilled`, `FinishedBilled`, `OpenedBilled`), with an induction
  over the returns of a batch; `StandingVerifies` turns the result into what
  `verifyWorkflowStructuredReceipt()` recomputes.
* `AgentSession_proofs`: `CallInv` says of one call on what evidence it has settled (a result
  "completed" has a child that ran, a result "cancelled" an aborted controller, and nothing is
  settled before the turn is over), `RowInv` that the row of a call which is closing names a
  model only if one ran, and that input is registered for a child that is driven and no other.
  The lemmas on the store show that a write through one handle takes another call's row over
  or leaves it alone (`Others`). So every action of one call is shown to have an `Effect` on
  that call, and one lemma (`EffectKeeps`) has the rest; an abort of many calls is a step of
  its own (`AbortStep`). `VerdictStands` and `SteeringHitsTarget` are proved of every step on
  the way.

The assumptions are the ASSUMEs of the component modules: finite sets of clients and
reservations, natural bounds, distinct identifiers, trees that are trees, in which no
branch is around itself (`NestingAssumption`), and "nobody" or "nothing" distinct from
what it stands beside, a node name, an accepted value and a status among them
(`HandoffAssumption`, `InteractionAssumption`, `ResumeAssumption`, `NothingAssumption`,
`ReturnAssumption`, `CallAssumption`, `CallsAssumption`), as `undefined` is in the code; the
questions are requests and the faults are among the four kinds (`QuestionsAssumption`,
`FaultsAssumption`). All the constants are otherwise arbitrary.

Only model-checked: liveness (`EveryRunSettles`, `StopEndsCall`) and the properties with
ENABLED (`NeverWaits` of the lease and of the claim, `SomebodyMoves`), which are out of the
prover's reach. Of the last, what its guards say is proved (`GroupsNeverStick`).

`RecoveryLosesNothing` has a hypothesis, `\A s \in Scripts : s.losses <= 1`, that the other
theorems do without; the checked chain loses one write. It cannot be weaker: a run that
lost both lines of one call and died before the row of the next looks confirmed, and its last
call runs again (TLC finds this with two lost writes). The half of `ConfirmedWorkStands` about
typed resumes is proved for every number of lost writes (`TypedResumeLosesNothing`).

Only proved, and not repeated by a run: the type invariants of the owner, the lease, the
groups, the runs, the claim, saved children, structured calls and agent sessions, one
reclaimer at a time
(`SingleReclaimer`), the ledger of the permits (`PermitLedger`, in `SchedulerCorrect`),
first come first served (`NoOvertaking`, in `SchedulerFair`) and the single failure of a
scope (`FailureIsOne`).

## 5. Not modelled, and the plan

* Replay and resume: rows of log version 3 and retired native rows, the bindings of target,
  source and input (a version of a script stands for them), the evidence store behind a
  structured receipt (it passes or fails), the resource loader. Recovery's promise is about
  what the interrupted run itself journaled. A typed run that was stopped at its deadline
  may leave a row without a line and is then refused for resume; the code fails closed there,
  which `EndedRunsResume` leaves out by its premise.
* Journal: the format of its lines and the summaries for the run list.
* Runs: child runs, the text of results and reports, and what work that outlives its run does
  to a journal that has ended.
* Session: `launch-guard.ts`, the forms of `ask-user-question`, rendering. The factories of the
  session's own features build their component at once, so a call that is still building
  while others move is checked in the instance "surface" alone.
* Agent sessions and structured calls: the prompt and its capsules, the tools of a child,
  the decoding and the schemas of values, digests, return contracts before version 4 (they
  are validated after the turn and ask for none), the text of questions and the queue of
  several questions of one call, evidence files, the thinking label, transcripts, and the
  retirement of the rows of old runs.
* Structured receipts: `verifyWorkflowStructuredReceipt()` also compares the elapsed time with
  the timeout and the recorded allowance with the contract (`receipt.ts:54`); both are copied
  from the contract or the clock, no step counts them, and `Verifies` leaves them out.
* Saved children: the links of a workspace to its runs, worktrees, the parsing of bindings;
  what a child does inside (it is a run like its parent).
* Planned, in this order: artifacts, fusion.
* Rendering, command parsing, source analysis, model selection and the AST tool are
  sequential data processing that unit tests reach; they stay outside.

Every property of a run is stated by a theorem but for liveness and ENABLED; what is worth
proving next comes with the next module of the plan.
