---------------------------- MODULE AgentSession ----------------------------
(***************************************************************************)
(* One child agent per call: from the call of the workflow bridge (work-    *)
(* flows/runtime/workflow-agent-bridge.ts) or of the interactive launcher   *)
(* (agents/run/run-launcher.ts), through the host that creates, prompts,    *)
(* stops and disposes of the child session (_shared/agent-runtime/agent-    *)
(* sdk-host.ts), to the result envelope (agent-runner.ts) and the verdict   *)
(* the caller gets.  Beside it the live rows and the operator who watches,  *)
(* steers and stops.  One action is one turn of the event loop: the abort   *)
(* of a controller and everything the awaits it resolves go on to do are    *)
(* one step.  The child and its provider are external: they may hang.       *)
(***************************************************************************)
EXTENDS AgentLiveStore, Naturals, FiniteSets

CONSTANTS Tasks,        \* the calls of spawn_agent and /agent run
          Timed,        \* workflow calls with a timeoutMs
          Structured,   \* workflow calls with a v4 return contract
          Asking,       \* workflow calls with ask: true
          MaxTurns,     \* prompts that maxAttempts of a contract allows
          MaxCalls      \* how many of the calls one history makes

ASSUME CallsAssumption ==
    /\ Tasks \subseteq Calls
    /\ Timed \cup Structured \cup Asking \subseteq Calls \ Tasks
    /\ \A c \in Tasks, d \in Calls : RowOf[c] = RowOf[d] => c = d
    /\ MaxTurns \in Nat \ {0} /\ MaxCalls \in Nat
    /\ None \notin {"run", "call-timeout", "ask-failed", "completed", "failed", "cancelled"}

VARIABLES at,          \* what the call awaits
          child,       \* its session
          turn,        \* prompts given to it
          ran,         \* calls whose child emitted an event
          executed,    \* calls with an observed.executedModel
          aborted,     \* calls whose childController is aborted
          owner,       \* abortOwner of the bridge
          outcome,     \* the result the host has settled on
          envelope,    \* the status in the stored result envelope
          verdict,     \* the result the caller gets
          ask,         \* the call's workflow_ask
          runStopped,  \* the signal of the workflow run is aborted
          store,       \* agentLiveStore
          held         \* the execution the operator's viewer shows

vars == <<at, child, turn, ran, executed, aborted, owner, outcome, envelope, verdict, ask, runStopped, store, held>>

Awaits == {"resolving",    \* the launcher: the model of the agent
           "creating",     \* createSession()
           "admitting",    \* installAgentOutputAdmission()
           "driving",      \* driveChildTurn()
           "stopping",     \* abortChild()
           "halting",      \* the export, after a stop
           "finishing",    \* the export, after a turn that completed
           "closing"}      \* the export, the row being final

AgentInit ==
    /\ at = [c \in Calls |-> "idle"]
    /\ child = [c \in Calls |-> "none"]
    /\ turn = [c \in Calls |-> 0]
    /\ ran = {} /\ executed = {} /\ aborted = {}
    /\ owner = [c \in Calls |-> None]
    /\ outcome = [c \in Calls |-> None]
    /\ envelope = [c \in Calls |-> None]
    /\ verdict = [c \in Calls |-> None]
    /\ ask = [c \in Calls |-> "none"]
    /\ runStopped = FALSE
    /\ store = EmptyStore
    /\ held = None

-----------------------------------------------------------------------------
Live(c) == at[c] \in Awaits
Driving(c) == at[c] = "driving"
Goes(c, to) == at' = [at EXCEPT ![c] = to]
Decides(c, out) == outcome' = [outcome EXCEPT ![c] = out]

\* patchTerminalRow(): the model stays on the row of a child that ran.
PatchTerminalRow(rows, c, status) ==
    IF c \in executed THEN PatchExecution(rows, c, status)
                      ELSE PatchExecutionWithoutReadback(rows, c, status)

StatusOf(result) ==
    CASE result = "completed" -> "done" [] result = "cancelled" -> "cancelled" [] OTHER -> "error"

-----------------------------------------------------------------------------
(* Returning                                                               *)

\* An abort that the bridge itself names in the result.
Named(own) == own \in {"call-timeout", "ask-failed"}

(* Mutant: the envelope holds what the host reported.                       *)
FinalizedAsReported(result, own) == result

\* finalizeResult(), before the envelope is written.
Finalized(result, own) == IF Named(own) THEN own ELSE result

(* What the caller gets: the bridge names its own aborts first, throws for  *)
(* a host without the SDK and fails a call whose envelope was not written;  *)
(* the launcher passes that on by name.                                     *)
Given(c, final, stored, own) ==
    CASE Named(own) -> own
      [] stored \/ (final = "blocked" /\ c \notin Tasks) -> final
      [] OTHER -> IF c \in Tasks THEN "storage-failed" ELSE "failed"

(* The host returns: its finally blocks, the envelope, which may not be     *)
(* written, the bridge's mapping or the launcher's last patch of its row.   *)
(* What was local to the call is forgotten.                                 *)
Depart(c, result, own, rows) ==
    /\ Goes(c, "returned") /\ Decides(c, None)
    /\ child' = [child EXCEPT ![c] = IF @ = "none" THEN @ ELSE "gone"]
    /\ turn' = [turn EXCEPT ![c] = 0]
    /\ ran' = ran \ {c} /\ executed' = executed \ {c} /\ aborted' = aborted \ {c}
    /\ owner' = [owner EXCEPT ![c] = None]
    /\ ask' = [ask EXCEPT ![c] = "none"]
    /\ UNCHANGED <<runStopped, held>>
    /\ \E stored \in BOOLEAN :
         LET final == Finalized(result, own)
             given == Given(c, final, stored, own)
             left == UnregisterCancel(rows, c)
         IN  /\ envelope' = [envelope EXCEPT ![c] = IF stored THEN final ELSE "unwritten"]
             /\ verdict' = [verdict EXCEPT ![c] = given]
             /\ store' = IF c \in Tasks THEN PatchExecution(left, c, StatusOf(given)) ELSE left

-----------------------------------------------------------------------------
(* Starting                                                                *)

\* The bound on a history.
Uncalled(c) == at[c] = "idle" /\ Cardinality({d \in Calls : at[d] # "idle"}) < MaxCalls

\* run() of the host: a call that is already aborted creates no child.
Enter(c, stopped, own, rows) ==
    IF stopped
    THEN Depart(c, "cancelled", own, PatchExecutionWithoutReadback(rows, c, "cancelled"))
    ELSE /\ Goes(c, "creating")
         /\ store' = RegisterCancel(rows, c)
         /\ UNCHANGED <<child, turn, ran, executed, aborted, owner, outcome, envelope, verdict, ask, runStopped, held>>

\* activeAgentSlots: one running call per row.
SlotBusy(c) == \E d \in Calls : RowOf[d] = RowOf[c] /\ Live(d)

\* WorkflowAgentSlotConflictError: nothing is spent on the call.
Refuse(c) ==
    /\ c \notin Tasks /\ Uncalled(c) /\ SlotBusy(c)
    /\ Goes(c, "returned")
    /\ verdict' = [verdict EXCEPT ![c] = "refused"]
    /\ UNCHANGED <<child, turn, ran, executed, aborted, owner, outcome, envelope, ask, runStopped, store, held>>

(* A workflow call: a new round on its row; the run may be stopped already. *)
Call(c) ==
    /\ c \notin Tasks /\ Uncalled(c) /\ ~SlotBusy(c)
    /\ Enter(c, runStopped, "run", BeginExecution(store, c))

\* runAgentLiveTask(): the row first, then the model is resolved ...
CallTask(c) ==
    /\ c \in Tasks /\ Uncalled(c)
    /\ Goes(c, "resolving")
    /\ store' = BeginExecution(store, c)
    /\ UNCHANGED <<child, turn, ran, executed, aborted, owner, outcome, envelope, verdict, ask, runStopped, held>>

\* ... or refused, which leaves a row and no envelope.
Resolve(c) ==
    /\ at[c] = "resolving"
    /\ \/ Enter(c, c \in aborted, None, store)
       \/ /\ Goes(c, "returned")
          /\ verdict' = [verdict EXCEPT ![c] = "failed"]
          /\ aborted' = aborted \ {c}
          /\ store' = PatchExecutionWithoutReadback(store, c, "error")
          /\ UNCHANGED <<child, turn, ran, executed, owner, outcome, envelope, ask, runStopped, held>>

-----------------------------------------------------------------------------
(* The child session                                                       *)

(* driveChildTurn(): subscribe, register the input, prompt.  A signal that  *)
(* is aborted by now is never heard: aborted /\ Driving.                    *)
Prompt(c, rows) ==
    /\ Goes(c, "driving")
    /\ child' = [child EXCEPT ![c] = "prompted"]
    /\ turn' = [turn EXCEPT ![c] = @ + 1]
    /\ store' = RegisterInput(rows, c)

\* createSession() rejects, or the tools of the session are not as they must be.
CreateFails(c) ==
    /\ at[c] = "creating"
    /\ \E out \in {"blocked", "failed"} :
         Depart(c, out, owner[c], PatchExecutionWithoutReadback(store, c, "error"))

(* The session is there: the row shows its model.  An abort that came       *)
(* meanwhile, or a model nobody asked for, ends the call unprompted.        *)
Created(c) ==
    /\ at[c] = "creating"
    /\ LET working == PatchExecution(store, c, "working")
           ends(out) == /\ Goes(c, "closing") /\ Decides(c, out)
                        /\ child' = [child EXCEPT ![c] = "created"]
                        /\ store' = PatchExecutionWithoutReadback(working, c, StatusOf(out))
                        /\ UNCHANGED turn
       IN  \/ c \in aborted /\ ends("cancelled")
           \/ c \notin aborted /\ ends("failed")
           \/ /\ c \notin aborted /\ c \in Structured
              /\ Goes(c, "admitting")
              /\ child' = [child EXCEPT ![c] = "created"]
              /\ store' = working
              /\ UNCHANGED <<turn, outcome>>
           \/ /\ c \notin aborted /\ c \notin Structured
              /\ Prompt(c, working)
              /\ UNCHANGED outcome
    /\ UNCHANGED <<ran, executed, aborted, owner, envelope, verdict, ask, runStopped, held>>

\* The output contract is installed, or the host cannot carry it.
Admitted(c) ==
    /\ at[c] = "admitting"
    /\ \/ Prompt(c, store) /\ UNCHANGED outcome
       \/ /\ Goes(c, "closing") /\ Decides(c, "failed")
          /\ store' = PatchTerminalRow(store, c, "error")
          /\ UNCHANGED <<child, turn>>
    /\ UNCHANGED <<ran, executed, aborted, owner, envelope, verdict, ask, runStopped, held>>

-----------------------------------------------------------------------------
(* What the child does                                                     *)

\* Its first event.
ChildStarts(c) ==
    /\ Driving(c) /\ child[c] = "prompted"
    /\ child' = [child EXCEPT ![c] = "streaming"]
    /\ ran' = ran \cup {c}
    /\ store' = PatchExecution(store, c, "working")
    /\ UNCHANGED <<at, turn, executed, aborted, owner, outcome, envelope, verdict, ask, runStopped, held>>

\* agent_end: with steering queued the session streams on, else the row is done.
ChildEnds(c) ==
    /\ Driving(c) /\ child[c] \in {"streaming", "steered"} /\ ask[c] # "shown"
    /\ child' = [child EXCEPT ![c] = IF @ = "steered" THEN "streaming" ELSE "ended"]
    /\ store' = IF child[c] = "steered" THEN store ELSE PatchExecution(store, c, "done")
    /\ UNCHANGED <<at, turn, ran, executed, aborted, owner, outcome, envelope, verdict, ask, runStopped, held>>

\* driveChildTurn() returns: what it registered is gone, and a model ran if there was an event.
TurnOver(c) == executed' = IF c \in ran THEN executed \cup {c} ELSE executed
WithoutInput(c) == UnregisterInputs(store, {c})

\* A turn that ended early; an abort has the last word.
StopTurn(c, out) ==
    /\ Goes(c, "stopping") /\ Decides(c, IF c \in aborted THEN "cancelled" ELSE out)
    /\ TurnOver(c)
    /\ store' = WithoutInput(c)
    /\ UNCHANGED <<child, turn>>

(* prompt() resolves after agent_end.  inspect() accepts or fails the       *)
(* output, or wants another turn, which the deadline or a budget may deny.  *)
TurnCompletes(c) ==
    /\ Driving(c) /\ child[c] = "ended"
    /\ \/ c \in aborted /\ StopTurn(c, "cancelled")
       \/ /\ c \notin aborted
          /\ Goes(c, "finishing")
          /\ \E out \in {"completed", "failed"} : Decides(c, out)
          /\ TurnOver(c)
          /\ store' = WithoutInput(c)
          /\ UNCHANGED <<child, turn>>
       \/ /\ c \notin aborted /\ c \in Structured
          /\ \/ StopTurn(c, "failed")
             \/ /\ turn[c] < MaxTurns
                /\ Prompt(c, WithoutInput(c)) /\ TurnOver(c)
                /\ UNCHANGED outcome
    /\ UNCHANGED <<ran, aborted, owner, envelope, verdict, ask, runStopped, held>>

\* prompt() resolves and no event ever came: an input handler absorbed it.
PromptAbsorbed(c) ==
    /\ Driving(c) /\ child[c] = "prompted"
    /\ \/ c \in aborted /\ StopTurn(c, "cancelled")
       \/ /\ c \notin aborted
          /\ Goes(c, "closing") /\ Decides(c, "failed")
          /\ store' = PatchTerminalRow(WithoutInput(c), c, "error")
          /\ UNCHANGED <<child, turn, executed>>
    /\ UNCHANGED <<ran, aborted, owner, envelope, verdict, ask, runStopped, held>>

\* prompt() rejects: the catch of runChildSession().
PromptRejects(c) ==
    /\ Driving(c) /\ child[c] \in {"prompted", "streaming", "steered"} /\ ask[c] # "shown"
    /\ Goes(c, "closing") /\ Decides(c, "failed")
    /\ store' = PatchTerminalRow(WithoutInput(c), c, "error")
    /\ UNCHANGED <<child, turn, ran, executed, aborted, owner, envelope, verdict, ask, runStopped, held>>

\* maxToolCalls or maxTurns is reached.
BudgetStops(c) ==
    /\ Driving(c) /\ child[c] \in {"streaming", "steered"}
    /\ StopTurn(c, "failed")
    /\ UNCHANGED <<ran, aborted, owner, envelope, verdict, ask, runStopped, held>>

-----------------------------------------------------------------------------
(* Stopping                                                                *)

(* Mutant: a turn that is driven does not race against the signal.          *)
AbortUnheard(cs) ==
    /\ aborted' = aborted \cup cs
    /\ UNCHANGED <<at, child, turn, ran, executed, outcome, envelope, verdict, store, held>>

(* The childControllers of cs are aborted: a turn that is driven and hears   *)
(* it goes on to stop the child, any other call finds the signal later.     *)
Abort(cs) ==
    LET heard == {c \in cs \ aborted : Driving(c)}
    IN  /\ aborted' = aborted \cup cs
        /\ at' = [c \in Calls |-> IF c \in heard THEN "stopping" ELSE at[c]]
        /\ outcome' = [c \in Calls |-> IF c \in heard THEN "cancelled" ELSE outcome[c]]
        /\ executed' = executed \cup (heard \cap ran)
        /\ store' = UnregisterInputs(store, heard)
        /\ UNCHANGED <<child, turn, ran, envelope, verdict, held>>

\* abortFromRun(), fireFuse(), failAskCall(): the first of them owns the result.
Own(cs, by) ==
    LET first == {c \in cs : owner[c] = None}
    IN  /\ owner' = [c \in Calls |-> IF c \in first THEN by ELSE owner[c]]
        /\ Abort(first)

RunStops ==
    /\ ~runStopped
    /\ runStopped' = TRUE
    /\ Own({c \in Calls \ Tasks : Live(c)}, "run")
    /\ UNCHANGED ask

FuseFires(c) ==
    /\ c \in Timed /\ Live(c) /\ owner[c] # "call-timeout"
    /\ Own({c}, "call-timeout")
    /\ UNCHANGED <<ask, runStopped>>

\* The signal of the tool call or command, and the operator's confirmed x in the fleet menu.
TaskStops(c) ==
    /\ c \in Tasks /\ Live(c) /\ c \notin aborted
    /\ Abort({c})
    /\ UNCHANGED <<owner, ask, runStopped>>
FleetStops(c) ==
    /\ c \in Tasks /\ Stoppable(store, c)
    /\ Abort({c})
    /\ UNCHANGED <<owner, ask, runStopped>>

(* The host's own deadline.  For a plain workflow call the bridge's fuse,   *)
(* armed earlier for the same span, is always first.                        *)
DeadlinePasses(c) ==
    /\ Driving(c) /\ c \in Tasks \cup (Timed \cap Structured)
    /\ StopTurn(c, "failed")
    /\ UNCHANGED <<ran, aborted, owner, envelope, verdict, ask, runStopped, held>>

\* abortChild(): the child acknowledges, or the bound of the wait is over.
ChildStopped(c) ==
    /\ at[c] = "stopping"
    /\ Goes(c, "halting")
    /\ UNCHANGED <<child, turn, ran, executed, aborted, owner, outcome, envelope, verdict, ask, runStopped, store, held>>

\* A turn that completed may still turn out to be a provider failure or unparseable.
Concluded(c) == IF at[c] = "finishing" THEN {outcome[c], "failed"} ELSE {outcome[c]}

(* The evidence is exported, or that failed, which is a diagnostic; only    *)
(* then is the row of a stopped or finished child patched.                  *)
Exported(c) ==
    /\ at[c] \in {"halting", "finishing", "closing"}
    /\ \E out \in Concluded(c) :
         Depart(c, out, owner[c],
                IF at[c] = "closing" THEN store ELSE PatchTerminalRow(store, c, StatusOf(out)))

-----------------------------------------------------------------------------
(* workflow_ask: a question of a call's child                               *)

\* The tool is called; without an interactive surface it fails the call.
AskShown(c) ==
    /\ c \in Asking /\ Driving(c) /\ child[c] \in {"streaming", "steered"} /\ ask[c] = "none"
    /\ ask' = [ask EXCEPT ![c] = "shown"]
    /\ UNCHANGED <<at, child, turn, ran, executed, aborted, owner, outcome, envelope, verdict, runStopped, store, held>>
AskUnavailable(c) ==
    /\ c \in Asking /\ Driving(c) /\ child[c] \in {"streaming", "steered"} /\ ask[c] = "none"
    /\ ask' = [ask EXCEPT ![c] = "over"]
    /\ Own({c}, "ask-failed")
    /\ UNCHANGED runStopped

(* The operator answers or declines, or the child is being stopped; what    *)
(* they said is recorded, and the call fails if it cannot be.               *)
AskSettles(c) ==
    /\ ask[c] = "shown" /\ Live(c)
    /\ ask' = [ask EXCEPT ![c] = "over"]
    /\ \/ UNCHANGED <<at, child, turn, ran, executed, aborted, owner, outcome, envelope, verdict, store, held>>
       \/ Own({c}, "ask-failed")
    /\ UNCHANGED runStopped

-----------------------------------------------------------------------------
(* The operator                                                            *)

\* A viewer captures the execution of a row.
View(r) ==
    /\ store[r].execution # None
    /\ held' = store[r].execution
    /\ UNCHANGED <<at, child, turn, ran, executed, aborted, owner, outcome, envelope, verdict, ask, runStopped, store>>

\* #submitInput(): text for the child that is on the screen.
Steer ==
    /\ held # None
    /\ LET c == InputTarget(store, held)
       IN  /\ c # None
           /\ child[c] = "streaming"
           /\ child' = [child EXCEPT ![c] = "steered"]
    /\ UNCHANGED <<at, turn, ran, executed, aborted, owner, outcome, envelope, verdict, ask, runStopped, store, held>>

\* session_start: the store is reset and the viewers are closed; the calls go on.
SessionStarts ==
    /\ store' = EmptyStore
    /\ held' = None
    /\ UNCHANGED <<at, child, turn, ran, executed, aborted, owner, outcome, envelope, verdict, ask, runStopped>>

-----------------------------------------------------------------------------
\* What the process itself will get done: its timers, its bounded waits and its file I/O.
Progress(c) ==
    \/ Resolve(c) \/ CreateFails(c) \/ Created(c) \/ Admitted(c)
    \/ FuseFires(c) \/ DeadlinePasses(c) \/ ChildStopped(c) \/ Exported(c)

Next ==
    \/ \E c \in Calls :
         \/ Refuse(c) \/ Call(c) \/ CallTask(c) \/ Progress(c)
         \/ ChildStarts(c) \/ ChildEnds(c) \/ TurnCompletes(c)
         \/ PromptAbsorbed(c) \/ PromptRejects(c) \/ BudgetStops(c)
         \/ TaskStops(c) \/ FleetStops(c)
         \/ AskShown(c) \/ AskUnavailable(c) \/ AskSettles(c)
    \/ RunStops
    \/ \E r \in Rows : View(r)
    \/ Steer
    \/ SessionStarts

AgentSpec == AgentInit /\ [][Next]_vars
LiveAgentSpec == AgentSpec /\ \A c \in Calls : WF_vars(Progress(c))

-----------------------------------------------------------------------------
(* Properties                                                              *)

(* When a call returns, its verdict stands on what happened first and on    *)
(* what its child did: the fuse or the failed question that was first to    *)
(* abort the call names its result, whatever the host still reported; a     *)
(* success had a child that ran, a cancellation an abort; the envelope says *)
(* the same; and the row names a model only if that model ran.              *)
VerdictStands ==
    [][/\ \A c \in Calls : Live(c)' /\ owner[c] # None => owner'[c] = owner[c]
       /\ \A c \in Calls : Live(c) /\ at'[c] = "returned" =>
        /\ {owner[c], verdict'[c]} \cap {"call-timeout", "ask-failed"} # {} => verdict'[c] = owner[c]
        /\ verdict'[c] = "completed" => c \in ran
        /\ verdict'[c] = "cancelled" => c \in aborted
        /\ envelope'[c] \in {None, "unwritten", verdict'[c]}
        /\ Owns(store', c) =>
             /\ store'[RowOf[c]].model => c \in executed
             /\ c \in Tasks => store'[RowOf[c]].status = StatusOf(verdict'[c])]_vars

(* The text an operator types reaches the child whose transcript is on the  *)
(* screen, never the next round in the same row.                            *)
SteeringHitsTarget ==
    [][\A c \in Calls : child'[c] = "steered" /\ child[c] # "steered" => held = c /\ Driving(c)]_vars

(* Neither a hung prompt nor a missing agent_end pins a call: one with a     *)
(* deadline returns, and so does one that was aborted, unless it is a        *)
(* structured call without a deadline, whose abort may go unheard.          *)
StopEndsCall ==
    \A c \in Calls :
        Live(c) /\ (c \in Tasks \cup Timed \/ c \in aborted \ Structured) ~> at[c] = "returned"
=============================================================================
