--------------------------- MODULE StructuredCall ---------------------------
(***************************************************************************)
(* One agent() call with a schema, from its first prompt to its result: the *)
(* provider streams raw responses, the host (agent-sdk-host.ts, with the    *)
(* hooks of output-acceptance/agent-output-admission.ts) dispatches tools   *)
(* and turns, the owner of the result (StructuredReturn) judges, and the    *)
(* acceptance loop of the host prompts the same child again or returns.     *)
(* The provider may send any frames up to the terminal one, where the SDK   *)
(* stops reading; somebody may replace the hook that observes it, which the *)
(* other hooks find out; a child that timed out before its first request    *)
(* may be followed by a fresh one with the same owner                      *)
(* (workflow-agent-call.ts).  The clock is read only where the code reads it. *)
(***************************************************************************)
EXTENDS StructuredReturn

CONSTANT MaxItems      \* bound: tool items of a response

ASSUME CallAssumption ==
    /\ MaxItems \in Nat \ {0}
    /\ None # "completed"       \* nothing is returned yet

VARIABLES at,         \* where the child, or the host, is
          port,       \* the owner of the result
          ledger,     \* AgentExecutionLedger
          queue,      \* tool calls of the message that are to be dispatched
          hooked,     \* the observing hook is installed
          expired,    \* the deadline of the call was seen past
          limited,    \* a budget stop has won the race of driveChildTurn()
          effects,    \* turns in which a work tool was executed
          result      \* what the host returned

vars == <<at, port, ledger, queue, hooked, expired, limited, effects, result>>

Driving == at \in {"between", "streaming", "tools", "broken"}

Init ==
    /\ at = "between" /\ port = NewReturn /\ queue = <<>>
    /\ ledger = [toolCalls |-> 0, admittedToolCalls |-> 0, assistantTurns |-> 0]
    /\ hooked = TRUE /\ expired = FALSE /\ limited = FALSE
    /\ effects = {} /\ result = None

\* The raw observer is gone: the owner is told, and the hook throws.
Lost == at' = "broken" /\ port' = Failed(port)

Return(status) == at' = "returned" /\ result' = status

-----------------------------------------------------------------------------
(* Requests and the stream                                                 *)

\* Time passes; a deadline that is past stays so.
ClockIsRead == expired' \in {expired, TRUE}

(* beforeRequest(): a request opens a turn, or it throws.  It is the next   *)
(* turn of the prompt, a steering message or, after a failed message, the   *)
(* provider retry of the SDK; another route fails the call.                *)
Request ==
    /\ at \in {"between", "broken"}
    /\ \/ /\ ~hooked /\ Lost /\ UNCHANGED <<ledger, expired>>
       \/ /\ hooked /\ ClockIsRead
          /\ \E route \in BOOLEAN :
               LET p == RequestChecked(port, route)
                   outOfTurns == ledger.assistantTurns >= MaxTurns
               IN  IF p.failed \/ p.accepted # None \/ outOfTurns \/ expired'
                   THEN /\ port' = IF p.accepted = None /\ outOfTurns THEN Failed(p) ELSE p
                        /\ at' = "broken"
                        /\ UNCHANGED ledger
                   ELSE /\ port' = [p EXCEPT !.turns = Append(@, NewTurn)]
                        /\ ledger' = [ledger EXCEPT !.assistantTurns = @ + 1]
                        /\ at' = "streaming"
    /\ UNCHANGED <<queue, hooked, limited, effects, result>>

StreamUnchanged == UNCHANGED <<ledger, hooked, expired, limited, effects, result>>

\* One raw event that the owner sees.
Event(p) ==
    /\ at = "streaming" /\ hooked
    /\ port' = p
    /\ UNCHANGED <<at, queue>> /\ StreamUnchanged

Created(r) == Event(ResponseCreated(port, r))
Added(c, n) ==
    /\ at = "streaming" /\ Len(Current(port).items) < MaxItems
    /\ Event(ToolAdded(port, c, n))
Finalizes(c, arg, doneTwice) == Event(ItemFinalized(port, c, arg, doneTwice))
Refuses == Event(Failed(port))

\* The message ends, and what it holds of tool calls is to be dispatched.
MessageEnds(p) ==
    /\ at' = "tools" /\ port' = p /\ queue' = Current(port).items

(* response.completed: the restriction to the return tool may be refused    *)
(* by the host, which throws out of the observer.                          *)
Completes(r, output) ==
    /\ at = "streaming" /\ hooked
    /\ \/ MessageEnds(TerminalCompleted(port, r, output))
       \/ /\ Current(port).responseId = r /\ Submits(Confirmed(port, output))
          /\ at' = "broken" /\ UNCHANGED <<port, queue>>
    /\ StreamUnchanged

\* response.incomplete and response.failed
EndsBadly ==
    /\ at = "streaming" /\ hooked
    /\ \/ MessageEnds(Failed(port))
       \/ at' = "broken" /\ port' = Failed(port) /\ UNCHANGED queue
    /\ StreamUnchanged

Disconnects ==
    /\ at = "streaming"
    /\ \/ at' = "broken" /\ UNCHANGED port
       \/ ~hooked /\ Lost
    /\ UNCHANGED queue /\ StreamUnchanged

-----------------------------------------------------------------------------
(* Tools and the end of a turn                                             *)

\* tool_execution_start is counted before anything is asked.
Counted == [ledger EXCEPT !.toolCalls = @ + 1]
OverBudget == ledger.toolCalls >= MaxToolCalls

(* The hooks, outermost first: the owner of the result, a hook before it,   *)
(* the budget of the child; then the tool.                                 *)
Dispatch ==
    /\ at = "tools" /\ queue # <<>>
    /\ queue' = Tail(queue)
    /\ LET item == Head(queue)
           block == Blocked(port, item)
       IN  \/ /\ hooked /\ block = None /\ ledger.admittedToolCalls < MaxToolCalls
              /\ ledger' = [Counted EXCEPT !.admittedToolCalls = @ + 1]
              /\ limited' = (limited \/ OverBudget)
              /\ port' = IF item.name = "work" THEN port ELSE Executed(port, item.call)
              /\ effects' = IF item.name = "work" THEN effects \cup {Len(port.turns)} ELSE effects
           \/ /\ hooked /\ block # None
              /\ ledger' = Counted /\ limited' = (limited \/ OverBudget)
              /\ port' = IF block = "unseen" THEN Failed(port) ELSE port
              /\ UNCHANGED effects
           \/ /\ hooked /\ block = None /\ ledger.admittedToolCalls >= MaxToolCalls
              /\ ledger' = Counted /\ limited' = TRUE
              /\ UNCHANGED <<port, effects>>
           \/ /\ ~hooked
              /\ ledger' = Counted /\ limited' = (limited \/ OverBudget)
              /\ port' = Failed(port)
              /\ UNCHANGED effects
    /\ UNCHANGED <<at, hooked, expired, result>>

\* The host does not take the arguments, or one of its own hooks blocks.
HostRefuses ==
    /\ at = "tools" /\ queue # <<>>
    /\ queue' = Tail(queue)
    /\ ledger' = Counted /\ limited' = (limited \/ OverBudget)
    /\ UNCHANGED <<at, port, hooked, expired, effects, result>>

FinishTurn ==
    /\ at = "tools" /\ queue = <<>>
    /\ \/ ~hooked /\ Lost /\ UNCHANGED limited
       \/ /\ hooked /\ port' = TurnFinished(port) /\ at' = "between"
          /\ limited' = (limited \/ (GoesOn(port') /\ ledger.assistantTurns >= MaxTurns))
    /\ UNCHANGED <<ledger, queue, hooked, expired, effects, result>>

-----------------------------------------------------------------------------
(* The host                                                                *)

HostUnchanged == UNCHANGED <<ledger, queue, hooked, limited, effects>>

PromptEnds ==
    /\ at = "between" /\ port.turns # <<>> /\ ~limited
    /\ at' = "ended"
    /\ UNCHANGED <<port, expired, result>> /\ HostUnchanged

(* The acceptance loop: a retry is a prompt to the same child, unless time  *)
(* or turns are used up or the host refuses the restriction.               *)
Inspect ==
    /\ at = "ended" /\ ClockIsRead
    /\ port' = Inspected(port, expired')
    /\ \/ Decision(port') = "failed" /\ Return("failed")
       \/ Decision(port') = "accepted" /\ at' = "closing" /\ UNCHANGED result
       \/ Decision(port') = "retry" /\ Return("failed")
       \/ /\ Decision(port') = "retry" /\ ~expired' /\ ledger.assistantTurns < MaxTurns
          /\ at' = "between" /\ UNCHANGED result
    /\ HostUnchanged

\* After the export of the trace the decision is asked for once more.
Close ==
    /\ at = "closing" /\ ClockIsRead
    /\ port' = Inspected(port, expired')
    /\ Return(IF Decision(port') = "failed" THEN "failed" ELSE "completed")
    /\ HostUnchanged

\* An abort, a budget stop, a failed message, a prompt that was absorbed.
TurnStops ==
    /\ Driving
    /\ Return("failed")
    /\ UNCHANGED <<port, expired>> /\ HostUnchanged

(* The time of the child is up: a fresh child gets the same owner and the   *)
(* same ledger, or the call fails (TurnStops).                             *)
FreshChild ==
    /\ Driving /\ ClockIsRead
    /\ CanRetry(port, expired')
    /\ at' = "between" /\ queue' = <<>> /\ hooked' = TRUE /\ limited' = FALSE
    /\ UNCHANGED <<port, ledger, effects, result>>

HooksReplaced ==
    /\ Driving /\ hooked
    /\ hooked' = FALSE
    /\ UNCHANGED <<at, port, ledger, queue, expired, limited, effects, result>>

Next ==
    \/ Request
    \/ \E r \in Responses : Created(r)
    \/ \E c \in CallIds, n \in Names : Added(c, n)
    \/ \E c \in CallIds, arg \in Arguments, doneTwice \in BOOLEAN : Finalizes(c, arg, doneTwice)
    \/ Refuses
    \/ \E r \in Responses, output \in {"confirms", "differs", "refuses"} : Completes(r, output)
    \/ EndsBadly
    \/ Disconnects
    \/ Dispatch
    \/ HostRefuses
    \/ FinishTurn
    \/ PromptEnds
    \/ Inspect
    \/ Close
    \/ TurnStops
    \/ FreshChild
    \/ HooksReplaced

Spec == Init /\ [][Next]_vars

-----------------------------------------------------------------------------
(* Properties                                                              *)

(* Whatever the provider, the host and the operator did, a value that the   *)
(* host accepts leaves a receipt that a later run verifies from the raw     *)
(* turns alone: the submissions counted on line are those that are counted  *)
(* again, every turn was completed under an identity of its own, and the    *)
(* value is the one proposal, after which nothing was generated.           *)
ReceiptsVerify ==
    at = "closing" \/ result = "completed" => Verifies(Receipt(port, ledger))

Research(t) == t.workTools /\ Returns(t) = <<>>

(* Work is done only by research: in a turn that holds work alone, before   *)
(* any turn that submitted, or should have submitted, a result.            *)
SiblingsNeverRun == \A k \in effects : \A j \in 1..k : Research(port.turns[j])

(* From its first submission on, made or missed, the call gets no more      *)
(* turns than it has submissions, however it is prompted, steered, retried *)
(* or resumed by the SDK.                                                  *)
GenerationsBounded ==
    Cardinality({k \in DOMAIN port.turns : \E j \in 1..k : ~Research(port.turns[j])}) <= MaxSubmissions
=============================================================================
