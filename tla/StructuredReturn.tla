-------------------------- MODULE StructuredReturn --------------------------
(***************************************************************************)
(* The owner of a structured result (workflows/runtime/structured-results/  *)
(* return.ts) and the receipt it leaves (receipt.ts).  One owner serves one *)
(* logical call: it watches the raw events of the provider, counts what the *)
(* child submits, and alone decides which value is the result.  Its state   *)
(* is a record, its callbacks are operators on it; the raw protocol and the *)
(* host that calls them are StructuredCall.                                 *)
(***************************************************************************)
EXTENDS Naturals, FiniteSets, SequencesExt

CONSTANTS CallIds,         \* identities of tool calls (item id and call id)
          Responses,       \* identities of raw responses
          Values,          \* canonical values that satisfy the schema
          Invalid,         \* arguments that do not decode, or not to one of them
          MaxSubmissions,  \* contract.maxAttempts
          MaxTurns,        \* limits.maxTurns
          MaxToolCalls,    \* limits.maxToolCalls
          None

ASSUME ReturnAssumption ==
    /\ Invalid \notin Values /\ None \notin Values
    /\ None \notin [value : Values, executed : BOOLEAN]                  \* nothing is accepted yet
    /\ None \notin {"failed", "batch", "unseen", "open", "submitted"}   \* why Blocked blocks
    /\ MaxSubmissions \in Nat \ {0} /\ MaxTurns \in Nat \ {0} /\ MaxToolCalls \in Nat \ {0}

Arguments == Values \cup {Invalid}
Names == {"workflow_return", "work"}

\* A tool item of a response: what was observed of it so far.
Item(c, n) == [call |-> c, name |-> n, arguments |-> None]

NewTurn == [responseId |-> None, terminal |-> FALSE, workTools |-> FALSE,
            rejectedBatch |-> FALSE, calls |-> <<>>, items |-> <<>>]

\* createWorkflowStructuredCall()
NewReturn == [turns |-> <<>>, verdicts |-> [c \in CallIds |-> None],
              attempts |-> 0, accepted |-> None, failed |-> FALSE]

-----------------------------------------------------------------------------
(* fail(): nothing takes a failure back.  Its cause is wording here.        *)
Failed(p) == [p EXCEPT !.failed = TRUE]

Exhausted(p) ==
    IF p.accepted = None /\ p.attempts >= MaxSubmissions THEN Failed(p) ELSE p

Current(p) == p.turns[Len(p.turns)]
OnTurn(p, t) == [p EXCEPT !.turns[Len(p.turns)] = t]

(* The returns of a turn in their order: a recursive function on the number *)
(* of items read, which a proof can reason about, unlike SelectSeq.         *)
Returns(t) ==
    LET first[k \in 0..Len(t.items)] ==
            IF k = 0 THEN <<>>
            ELSE IF t.items[k].name = "workflow_return" THEN Append(first[k - 1], t.items[k])
            ELSE first[k - 1]
    IN  first[Len(t.items)]

\* hostCalls: the call ids of every item of every turn.
Observed(p) == {i.call : i \in UNION {ToSet(p.turns[k].items) : k \in DOMAIN p.turns}}

Verdict(arg, validation) == [arguments |-> arg, validation |-> validation]
Judged(p, c, v) == [p EXCEPT !.verdicts[c] = v]

-----------------------------------------------------------------------------
(* Raw events                                                              *)

ResponseCreated(p, r) ==
    IF Current(p).responseId # None \/ (\E k \in DOMAIN p.turns : p.turns[k].responseId = r)
    THEN Failed(p)
    ELSE OnTurn(p, [Current(p) EXCEPT !.responseId = r])

\* observeAddedTool()
ToolAdded(p, c, n) ==
    IF c \in Observed(p) THEN Failed(p)
    ELSE OnTurn(p, [Current(p) EXCEPT !.items = Append(@, Item(c, n))])

(* finalizedItem() with verifyWorkflowRawToolItem(): the arguments of one   *)
(* item.  The same arguments may be finalized again, but not by a second    *)
(* output_item.done.                                                       *)
ItemFinalized(p, c, arg, doneTwice) ==
    LET t == Current(p)
        known == {k \in DOMAIN t.items : t.items[k].call = c}
    IN  IF known = {} \/ doneTwice \/ (\E k \in known : t.items[k].arguments \notin {None, arg}) THEN Failed(p)
        ELSE OnTurn(p, [t EXCEPT
                 !.items = [k \in DOMAIN @ |-> IF k \in known THEN [@[k] EXCEPT !.arguments = arg] ELSE @[k]],
                 !.workTools = @ \/ (\E k \in known : t.items[k].name = "work")])

(* propose(): a repetition of the accepted value costs nothing, another one *)
(* is a conflict; every other return is a submission.                       *)
Propose(p, item) ==
    LET over == IF p.attempts + 1 > MaxSubmissions THEN Failed(p) ELSE p
        q    == [over EXCEPT !.attempts = @ + 1]
    IN  IF p.accepted # None
        THEN Judged(IF item.arguments = p.accepted.value THEN p ELSE Failed(p),
                    item.call, Verdict(item.arguments, "duplicate"))
        ELSE IF item.arguments \in Values /\ ~q.failed
        THEN Judged([q EXCEPT !.accepted = [value |-> item.arguments, executed |-> FALSE]],
                    item.call, Verdict(item.arguments, "accepted"))
        ELSE Judged(Exhausted(q), item.call, Verdict(item.arguments, "rejected"))

(* finalized(): returns that follow a failure are counted and rejected.    *)
Finalized(p, item) ==
    LET q == OnTurn(p, [Current(p) EXCEPT !.calls = Append(@, item.call)])
    IN  IF ~q.failed THEN Propose(q, item)
        ELSE Judged([q EXCEPT !.attempts = IF q.accepted = None THEN @ + 1 ELSE @],
                    item.call, Verdict(item.arguments, "rejected"))

\* The returns of a batch one after the other; recursive as Returns is.
EachFinalized(p, returns) ==
    LET after[k \in 0..Len(returns)] == IF k = 0 THEN p ELSE Finalized(after[k - 1], returns[k])
    IN  after[Len(returns)]

\* A batch of returns and work tools is one rejected submission.
RejectBatch(p) ==
    LET t == Current(p)
        mixed == {Returns(t)[k].call : k \in DOMAIN Returns(t)}
        q == OnTurn(p, [t EXCEPT !.rejectedBatch = TRUE,
                                 !.calls = [k \in DOMAIN Returns(t) |-> Returns(t)[k].call]])
    IN  Exhausted([q EXCEPT !.attempts = @ + 1,
                            !.verdicts = [c \in CallIds |->
                                IF c \in mixed
                                THEN Verdict((CHOOSE i \in ToSet(t.items) : i.call = c).arguments, "rejected")
                                ELSE @[c]]])

(* verifyWorkflowRawTerminal(): the terminal frame names exactly the items  *)
(* that were finalized, or it differs from them, or it holds a refusal.     *)
Confirmed(p, output) ==
    CASE output = "refuses" -> Failed(p)
      [] output = "differs" \/ (\E i \in ToSet(Current(p).items) : i.arguments = None) -> Failed(p)
      [] OTHER -> p

\* Whether the terminal makes the owner narrow the child to the return tool.
Submits(p) == ~p.failed /\ Returns(Current(p)) # <<>>

(* Mutant: each return of a batch is judged by itself.                     *)
ReconciledOneByOne(p) ==
    IF p.failed THEN p ELSE EachFinalized(p, Returns(Current(p)))

\* reconcileTerminal(), after the check of the frame.
Reconciled(p) ==
    IF ~Submits(p) THEN p
    ELSE IF Current(p).workTools THEN RejectBatch(p)
    ELSE EachFinalized(p, Returns(Current(p)))

\* response.completed
TerminalCompleted(p, r, output) ==
    IF Current(p).responseId \in {None} \cup (Responses \ {r}) THEN Failed(p)
    ELSE LET q == Reconciled(Confirmed(p, output))
         IN  OnTurn(q, [Current(q) EXCEPT !.terminal = TRUE])

-----------------------------------------------------------------------------
(* Hooks of the host                                                       *)

(* beforeRequest(), up to what makes it throw: the route, an observation    *)
(* that did not end, the submissions.                                      *)
RequestChecked(p, route) ==
    LET q == IF route THEN p ELSE Failed(p)
    IN  Exhausted(IF q.turns # <<>> /\ ~Current(q).terminal THEN Failed(q) ELSE q)

(* Mutant: only the batch itself is closed to work.                        *)
BlockedInBatchOnly(p, item) ==
    IF p.failed THEN "failed"
    ELSE IF Current(p).rejectedBatch THEN "batch"
    ELSE IF item.name = "workflow_return" /\ p.verdicts[item.call] = None THEN "unseen"
    ELSE IF ~Current(p).terminal THEN "open"
    ELSE None

\* beforeTool(): why a tool call is blocked, "unseen" if it fails the call.
Blocked(p, item) ==
    IF p.failed THEN "failed"
    ELSE IF Current(p).rejectedBatch THEN "batch"
    ELSE IF item.name = "workflow_return" /\ p.verdicts[item.call] = None THEN "unseen"
    ELSE IF ~Current(p).terminal THEN "open"
    ELSE IF p.attempts > 0 /\ item.name # "workflow_return" THEN "submitted"
    ELSE None

\* execute(): only a return that was not rejected makes the value executed.
Executed(p, c) ==
    IF p.failed \/ p.verdicts[c].validation = "rejected" \/ p.accepted = None THEN p
    ELSE [p EXCEPT !.accepted.executed = TRUE]

(* Mutant: a turn without a return costs nothing once something was        *)
(* submitted.                                                              *)
TurnFinishedFree(p) ==
    LET q == IF Current(p).terminal THEN p ELSE Failed(p)
        missing == Current(q).calls = <<>> /\ ~Current(q).workTools
    IN  Exhausted(IF missing /\ ~q.failed /\ q.accepted = None THEN [q EXCEPT !.attempts = @ + 1] ELSE q)

\* finishTurn(): a turn that should have returned something is a submission.
TurnFinished(p) ==
    LET q == IF Current(p).terminal THEN p ELSE Failed(p)
        missing == Current(q).calls = <<>> /\ (~Current(q).workTools \/ q.attempts > 0)
    IN  Exhausted(IF missing /\ ~q.failed /\ q.accepted = None THEN [q EXCEPT !.attempts = @ + 1] ELSE q)

\* What finishTurn() answers: the child goes on only from research.
GoesOn(p) == ~p.failed /\ p.accepted = None /\ p.attempts = 0 /\ Current(p).workTools

\* inspect(), the failures it names.
Inspected(p, expired) ==
    LET q == IF p.accepted # None /\ expired THEN Failed(p) ELSE p
    IN  IF q.accepted = None \/ q.accepted.executed THEN q ELSE Failed(q)

\* inspect(), its decision.
Decision(p) ==
    IF p.failed \/ p.turns = <<>> THEN "failed"
    ELSE IF ~Current(p).terminal THEN "failed"
    ELSE IF p.accepted = None THEN "retry" ELSE "accepted"

\* canRetry(): nothing was dispatched yet.
CanRetry(p, expired) == p.turns = <<>> /\ p.accepted = None /\ ~p.failed /\ ~expired

-----------------------------------------------------------------------------
(* The receipt                                                             *)

\* createWorkflowStructuredReceipt()
Receipt(p, ledger) ==
    [value    |-> p.accepted.value,
     spent    |-> [outputAttempts |-> p.attempts, assistantTurns |-> ledger.assistantTurns,
                   toolCalls |-> ledger.admittedToolCalls],
     rawTurns |-> [k \in DOMAIN p.turns |->
         [responseId |-> p.turns[k].responseId, terminal |-> p.turns[k].terminal,
          workTools |-> p.turns[k].workTools,
          calls |-> [j \in DOMAIN p.turns[k].calls |->
              LET c == p.turns[k].calls[j]
              IN  [callId |-> c, arguments |-> p.verdicts[c].arguments,
                   validation |-> p.verdicts[c].validation]]]]]

(* verifyWorkflowStructuredReceipt(): the count of the submissions and the  *)
(* sequence of the proposals, from the raw turns alone.  Two comparisons of *)
(* the code are left out: of the elapsed time with the timeout, and of the  *)
(* allowances in the receipt with the limits of the call that replays it.   *)
Verifies(r) ==
    LET turns == r.rawTurns
        Empty(k) == turns[k].calls = <<>>
        Mixed(k) == turns[k].workTools /\ ~Empty(k)
        Counts(k) == ~Empty(k) \/ ~turns[k].workTools
        Missing(k) == Empty(k) /\ (\E j \in 1..k : Counts(j))
        places == UNION {{k} \X DOMAIN turns[k].calls : k \in DOMAIN turns}
        Call(s) == turns[s[1]].calls[s[2]]
        Precedes(s, u) == s[1] < u[1] \/ (s[1] = u[1] /\ s[2] < u[2])
        first == {s \in places : Call(s).validation # "rejected"
                                 /\ \A u \in places : Precedes(u, s) => Call(u).validation = "rejected"}
        submissions == Cardinality({k \in DOMAIN turns : Mixed(k) \/ Missing(k)})
                       + Cardinality({s \in places : ~Mixed(s[1]) /\ Call(s).validation \in {"rejected", "accepted"}})
    IN  /\ r.spent.outputAttempts \in 1..MaxSubmissions /\ r.spent.outputAttempts = submissions
        /\ r.spent.assistantTurns \in 1..MaxTurns /\ r.spent.assistantTurns = Len(turns)
        /\ r.spent.toolCalls \in 1..MaxToolCalls
        /\ \A k \in DOMAIN turns : turns[k].terminal /\ turns[k].responseId # None
        /\ \A j, k \in DOMAIN turns : j # k => turns[j].responseId # turns[k].responseId
        /\ \A s, u \in places : s # u => Call(s).callId # Call(u).callId
        /\ \A s \in places : Mixed(s[1]) => Call(s).validation = "rejected"
        /\ \E s \in first :
             /\ s[1] = Len(turns) /\ Call(s).validation = "accepted" /\ Call(s).arguments = r.value
             /\ \A u \in places : Precedes(s, u) =>
                  Call(u).validation = "duplicate" /\ Call(u).arguments = r.value
=============================================================================
