--------------------------- MODULE BackgroundRuns ---------------------------
(***************************************************************************)
(* The workflow runs of one Pi session that outlive their command or tool   *)
(* call: the process-global registry (workflows/run/background-run-         *)
(* registry.ts) and the launcher of one extension instance on top of it     *)
(* (workflows/launch/workflow-command-launcher.ts).                        *)
(*                                                                         *)
(* Every session_start gives the session a new generation; a lease is its   *)
(* number.  The registry survives a reload of the extension, the launcher   *)
(* does not: a fresh launcher has no callback lease, which is as good as    *)
(* one of a generation that is not current.  Runs are numbered in the order *)
(* of their start.  One action is one turn of the event loop.               *)
(***************************************************************************)
EXTENDS Naturals, FiniteSets

CONSTANTS MaxRuns,         \* how many runs the session starts
          MaxGenerations   \* how many times it starts

ASSUME SessionAssumption == MaxRuns \in Nat /\ MaxGenerations \in Nat

Runs == 1..MaxRuns
None == 0

VARIABLES current,     \* the generation in the registry that is not revoked
          generation,  \* the last one given
          lease,       \* the launcher's sessionLease
          closed,      \* sessionRevoked
          callback,    \* callbackLease
          started,     \* how many runs were started
          state,       \* the state of each run's record; stopping: it was aborted
          leaseOf,     \* the generation that started it
          exclusive,   \* runs of slash commands
          receipt,     \* how far the terminal callbacks of a command run are
          awaited      \* the runs that shutdown() awaits, or Idle

registryVars == <<current, generation, lease, closed, callback, started, state, leaseOf, exclusive, receipt, awaited>>

Generations == 1..MaxGenerations
Idle == {None}    \* no shutdown is under way

RegistryInit ==
    /\ current = None /\ generation = 0
    /\ lease = None /\ callback = None /\ closed = FALSE
    /\ started = 0
    /\ state = [r \in Runs |-> "new"]
    /\ leaseOf = [r \in Runs |-> None]
    /\ exclusive = {}
    /\ receipt = [r \in Runs |-> "none"]
    /\ awaited = Idle

-----------------------------------------------------------------------------
\* findUnsettledRuns(): of the session, whatever their generation.
Unsettled == {r \in Runs : state[r] \in {"running", "stopping"}}

\* isCurrentLease(), and what currentLease() gives a caller.
IsCurrent(g) == g # None /\ g = current
HasLease == ~closed /\ IsCurrent(lease)

(* revokeGeneration(): its unsettled runs are stopped.                     *)
RevokeGeneration(g) ==
    state' = [r \in Runs |-> IF r \in Unsettled /\ leaseOf[r] = g THEN "stopping" ELSE state[r]]

(* session_start, or the first command of an instance that has no lease:    *)
(* the generation before is revoked unless it was shut down.               *)
StartSession ==
    /\ generation < MaxGenerations
    /\ generation' = generation + 1
    /\ current' = generation' /\ lease' = generation'
    /\ closed' = FALSE
    /\ RevokeGeneration(current)
    /\ UNCHANGED <<callback, started, leaseOf, exclusive, receipt, awaited>>

\* startRun(): a record under the launcher's lease.
StartRun(r) ==
    /\ r = started + 1 /\ r \in Runs
    /\ started' = r
    /\ state' = [state EXCEPT ![r] = "running"]
    /\ leaseOf' = [leaseOf EXCEPT ![r] = lease]

(* Mutant: only the runs of the own generation keep a launch out.           *)
ActiveOfGeneration == {r \in exclusive \cap Unsettled : leaseOf[r] = lease}

\* findActiveExclusiveRun()
Active == exclusive \cap Unsettled

\* Nothing holds the one interactive command slot.
SlotFree == ~IsCurrent(callback) /\ Active = {}

(* launch() of a slash command or a continuation; the other outcomes, stale *)
(* and busy, change nothing.                                               *)
Launch(r) ==
    /\ HasLease /\ SlotFree
    /\ StartRun(r)
    /\ exclusive' = exclusive \cup {r}
    /\ callback' = lease
    /\ receipt' = [receipt EXCEPT ![r] = "due"]
    /\ UNCHANGED <<current, generation, lease, closed, awaited>>

(* attach(): a tool call owns its run, which takes no command slot.  (Its   *)
(* abort reaches the run's signal and leaves the record as it is.)          *)
Attach(r) ==
    /\ HasLease
    /\ StartRun(r)
    /\ UNCHANGED <<current, generation, lease, closed, callback, exclusive, receipt, awaited>>

(* stop() of a run that is named, or of the newest unsettled one.           *)
Stop(r) ==
    /\ IsCurrent(lease) /\ state[r] = "running"
    /\ state' = [state EXCEPT ![r] = "stopping"]
    /\ UNCHANGED <<current, generation, lease, closed, callback, started, leaseOf, exclusive, receipt, awaited>>

(* settleRun(): the runner's promise settles and the terminal resolves.     *)
Settle(r) ==
    /\ r \in Unsettled
    /\ state' = [state EXCEPT ![r] = "settled"]
    /\ UNCHANGED <<current, generation, lease, closed, callback, started, leaseOf, exclusive, receipt, awaited>>

\* The callbacks are over, whether or not the run still has the slot.
CallbacksOver(r) ==
    /\ receipt' = [receipt EXCEPT ![r] = "done"]
    /\ callback' = IF callback = leaseOf[r] THEN None ELSE callback

(* The terminal callback of a command run begins; a stale one is dropped.   *)
BeginReceipt(r) ==
    /\ state[r] = "settled" /\ receipt[r] = "due"
    /\ IF IsCurrent(leaseOf[r]) THEN receipt' = [receipt EXCEPT ![r] = "publishing"] /\ UNCHANGED callback
                                ELSE CallbacksOver(r)
    /\ UNCHANGED <<current, generation, lease, closed, started, state, leaseOf, exclusive, awaited>>

(* onResult() or onError() has published the receipt, or has thrown; then   *)
(* onFinally(), and onTerminal() for a published receipt under a current    *)
(* lease, and the slot is free.                                            *)
EndReceipt(r) ==
    /\ receipt[r] = "publishing"
    /\ CallbacksOver(r)
    /\ UNCHANGED <<current, generation, lease, closed, started, state, leaseOf, exclusive, awaited>>

(* Mutant: the runs are collected after the generation was revoked.         *)
ShutdownLate ==
    /\ awaited = Idle /\ ~closed /\ lease # None
    /\ closed' = TRUE
    /\ RevokeGeneration(lease)
    /\ current' = IF IsCurrent(lease) THEN None ELSE current
    /\ awaited' = {}
    /\ UNCHANGED <<generation, lease, callback, started, leaseOf, exclusive, receipt>>

(* session_shutdown: the generation is revoked and removed, and the host is *)
(* kept alive for every run of the session that has not settled.           *)
Shutdown ==
    /\ awaited = Idle /\ ~closed /\ lease # None
    /\ closed' = TRUE
    /\ IF IsCurrent(lease)
         THEN RevokeGeneration(lease) /\ current' = None /\ awaited' = Unsettled
         ELSE UNCHANGED <<state, current>> /\ awaited' = {}
    /\ UNCHANGED <<generation, lease, callback, started, leaseOf, exclusive, receipt>>

(* The terminals it awaits have resolved; the host goes on, to its exit or  *)
(* to the next session_start.                                              *)
ShutdownReturns ==
    /\ awaited # Idle /\ awaited \cap Unsettled = {}
    /\ awaited' = Idle
    /\ UNCHANGED <<current, generation, lease, closed, callback, started, state, leaseOf, exclusive, receipt>>

-----------------------------------------------------------------------------
(* The command slot is one across settlement, callbacks and session         *)
(* generations: a command run starts only after the command run before it   *)
(* has settled, and in its own session has finished its callbacks too.      *)
OneCommandRun ==
    \A r, q \in exclusive : r < q =>
       /\ state[r] = "settled"
       /\ IsCurrent(leaseOf[r]) /\ leaseOf[r] = leaseOf[q] => receipt[r] = "done"

(* When session_shutdown returns, no run of the session is at work: each    *)
(* has persisted its terminal result, the ones of tools and of earlier      *)
(* generations included (workflow-command-launcher.ts:234-242).             *)
ShutdownWaits == closed /\ awaited = Idle => Unsettled = {}
=============================================================================
