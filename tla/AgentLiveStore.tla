--------------------------- MODULE AgentLiveStore ---------------------------
(***************************************************************************)
(* The process-wide store of live agent rows (_shared/agent-runtime/agent-  *)
(* live-store.ts), as operators on its value.  A row is reused by the       *)
(* rounds of one workflow slot; an execution handle is the call that holds  *)
(* it, and so are the registrations it makes.  Once another execution of    *)
(* the row begins, or the store is reset, a handle reaches nothing.         *)
(***************************************************************************)
CONSTANTS Calls,       \* calls that run one child agent each
          Rows,        \* ids of live rows
          RowOf,       \* the row a call is shown in
          None

ASSUME RowsAssumption == RowOf \in [Calls -> Rows] /\ None \notin Calls

\* A row: #executionAuthorities, its status, whether it names a model,
\* #cancelRegistrations and #inputRegistrations.
NoRow == [execution |-> None, status |-> "absent", model |-> FALSE, cancel |-> None, input |-> None]

\* reset()
EmptyStore == [r \in Rows |-> NoRow]

\* #currentExecutionRowId() is defined.
Owns(store, c) == store[RowOf[c]].execution = c

\* A write through an execution handle.
Write(store, c, row) == IF Owns(store, c) THEN [store EXCEPT ![RowOf[c]] = row] ELSE store

(* beginExecution(): a fresh row, named for the model that was asked for,   *)
(* without the registrations of the execution before.                      *)
BeginExecution(store, c) ==
    [store EXCEPT ![RowOf[c]] = [NoRow EXCEPT !.execution = c, !.status = "queued", !.model = TRUE]]

PatchExecution(store, c, status) == Write(store, c, [store[RowOf[c]] EXCEPT !.status = status])

PatchExecutionWithoutReadback(store, c, status) ==
    Write(store, c, [store[RowOf[c]] EXCEPT !.status = status, !.model = FALSE])

\* registerCancelForExecution(), registerInputForExecution()
RegisterCancel(store, c) == Write(store, c, [store[RowOf[c]] EXCEPT !.cancel = c])
RegisterInput(store, c) == Write(store, c, [store[RowOf[c]] EXCEPT !.input = c])

\* The cleanups they return touch their own registration only.
UnregisterCancel(store, c) ==
    IF store[RowOf[c]].cancel = c THEN [store EXCEPT ![RowOf[c]].cancel = None] ELSE store
UnregisterInputs(store, cs) ==
    [r \in Rows |-> IF store[r].input \in cs THEN [store[r] EXCEPT !.input = None] ELSE store[r]]

(* Mutant: the text goes to whoever is registered on the row.               *)
InputOnRow(store, c) == store[RowOf[c]].input

(* sendInputForExecution(): the call whose child gets the text, if any.     *)
InputTarget(store, c) == IF Owns(store, c) /\ store[RowOf[c]].input = c THEN c ELSE None

(* isFleetRowStoppable() and cancelWithAuthority().                         *)
Stoppable(store, c) ==
    /\ Owns(store, c)
    /\ store[RowOf[c]].cancel = c
    /\ store[RowOf[c]].status = "working"
=============================================================================
