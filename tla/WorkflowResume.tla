--------------------------- MODULE WorkflowResume ---------------------------
(* A chain of runs of one workflow, each but the first resuming the one     *)
(* before it: the agent calls of the script (workflow-agent-call.ts,        *)
(* workflow-agent-attempt.ts), what each run leaves on disk (journal,       *)
(* replay log, result), and the admission of a resume, a typed resume or an *)
(* interrupted recovery (workflow-run-resume.ts, interrupted-recovery.ts).  *)
EXTENDS WorkflowReplay, SequencesExt

CONSTANTS
    Scripts,   \* scripts, by target the versions of one: the branches (see Step),
               \* whether they are a group, whether the input is typed, and two
               \* bounds: the runs of a chain and the writes that fail in it
    Answers,   \* what an agent may answer
    Times      \* what a fresh clock may say

ASSUME ResumeAssumption ==
    /\ None \notin {"answer", "timeout"}  \* no outcome yet is not an outcome
    /\ \A s \in Scripts :
          /\ s.branches \in Seq(Seq(UNION {Range(steps) : steps \in Range(s.branches)}))
          /\ s.runs \in Nat \ {0} /\ s.losses \in Nat

VARIABLES
    script,      \* the version the current run executes
    run,         \* number of the current run in the chain
    phase,       \* "running", "ended" (result.json written) or "crashed"
    ok,          \* the verdict of result.json
    stopped,     \* the run's deadline passed or its owner stopped it
    at,          \* per branch of the script: its next step, 0 when it threw
    saw,         \* per branch: the last answer or time the script read
    doing,       \* per branch: the logical call it awaits, or None
    occurrences, \* per label: the calls the slot has opened
    calls,       \* physical invocations allocated (callId)
    journal,     \* the lines of the run's journal that reached the disk
    past,        \* ghost: the journal of the interrupted run that is recovered
    executed     \* ghost: <<request, answer>> of every answer a child gave

callVars == <<at, saw, doing, occurrences, calls, journal, executed>>
vars == <<replayVars, callVars, script, run, phase, ok, stopped, past>>

Branches == DOMAIN script.branches

(* A step of a branch reads the clock or calls an agent: which prompt, under*)
(* which label, whether the prompt quotes what the branch saw last, ...     *)
Step(b) == script.branches[b][at[b]]

Calls == {st \in UNION {Range(steps) : steps \in UNION {Range(s.branches) : s \in Scripts}} : st.kind = "call"}

Labels == {s.label : s \in Calls} \ {None}

Done(b) == at[b] = 0 \/ at[b] > Len(script.branches[b])

Ready(b) == phase = "running" /\ doing[b] = None /\ ~Done(b)

Awaits(b, stages) == phase = "running" /\ doing[b] # None /\ doing[b].stage \in stages

-----------------------------------------------------------------------------
(* Lines of the journal. A line whose write fails is gone for good.         *)
Line(kind, c, good) ==
    [kind |-> kind, call |-> c.call, logical |-> c.receipt.seq, node |-> c.receipt.node, ok |-> good]

GroupLine == [kind |-> "group", call |-> 0, logical |-> None, node |-> None, ok |-> TRUE]

Emit(lines) ==
    \E gone \in {0} \cup (IF losses > 0 THEN DOMAIN lines ELSE {}) :
       /\ journal' = journal \o (IF gone = 0 THEN lines ELSE RemoveAt(lines, gone))
       /\ losses' = losses - (IF gone = 0 THEN 0 ELSE 1)

(* How a call leaves its branch: with an answer, or with an error that the  *)
(* script catches (and goes on) or not (and the branch is over).            *)
Returns(b, value) ==
    /\ at' = [at EXCEPT ![b] = @ + 1]
    /\ saw' = [saw EXCEPT ![b] = value]
    /\ doing' = [doing EXCEPT ![b] = None]

Throws(b) ==
    /\ at' = [at EXCEPT ![b] = IF Step(b).caught THEN @ + 1 ELSE 0]
    /\ saw' = [saw EXCEPT ![b] = None]
    /\ doing' = [doing EXCEPT ![b] = None]

-----------------------------------------------------------------------------
(* The canonical request holds the prompt, the label and the options of the *)
(* call; the node is the label and its occurrence, claimed together with    *)
(* the ordinal.                                                             *)
Call(b) ==
    LET s == Step(b)
    IN  [key        |-> <<s.prompt, s.label, IF s.quotes THEN saw[b] ELSE None>>,
         node       |-> IF s.label = None THEN None ELSE <<s.label, occurrences[s.label]>>,
         structured |-> s.structured,
         replayable |-> ~s.worktree]

(* One slot, one running call: a group's members have slots of their own.   *)
SlotTaken(b) ==
    /\ Step(b).label # None /\ ~script.grouped
    /\ \E d \in Branches \ {b} : doing[d] # None /\ Step(d).label = Step(b).label

Open(receipt, stage, outcome, text) ==
    [receipt |-> receipt, stage |-> stage, call |-> calls + 1, attempt |-> 1,
     outcome |-> outcome, text |-> text]

(* A physical attempt of the call c: refused before anything is journalled  *)
(* once the run is stopped, queued otherwise.                               *)
Queue(b, c) ==
    IF stopped
    THEN /\ doing' = [doing EXCEPT ![b] = [c EXCEPT !.stage = "answered", !.outcome = "thrown"]]
         /\ UNCHANGED <<journal, losses>>
    ELSE /\ doing' = [doing EXCEPT ![b] = [c EXCEPT !.stage = "queued"]]
         /\ Emit(<<Line("queued", c, TRUE)>>)

(* A replayed attempt starts no child: both lines are written in one go,    *)
(* unless the run is stopped or the evidence store fails after the start.   *)
Replay(b, c) ==
    \/ /\ stopped
       /\ doing' = [doing EXCEPT ![b] = [c EXCEPT !.stage = "answered", !.outcome = "thrown"]]
       /\ UNCHANGED <<journal, losses>>
    \/ /\ ~stopped
       /\ doing' = [doing EXCEPT ![b] = [c EXCEPT !.stage = "answered", !.outcome = "answer"]]
       /\ Emit(<<Line("start", c, TRUE), Line("end", c, TRUE)>>)
    \/ /\ ~stopped
       /\ doing' = [doing EXCEPT ![b] = [c EXCEPT !.stage = "answered", !.outcome = "thrown"]]
       /\ Emit(<<Line("start", c, TRUE), Line("error", c, FALSE)>>)

(* The synchronous stretch of runAgentAttempt: slot, node name, ordinal and *)
(* lookup, then the first attempt up to its first await.                    *)
Admit(b) ==
    /\ Ready(b) /\ Step(b).kind = "call"
    /\ IF SlotTaken(b)
       THEN Throws(b) /\ UNCHANGED <<replayVars, occurrences, calls, journal>>
       ELSE LET call    == Call(b)
                verdict == Verdict(replayer, call)
                after   == Admitted(replayer, call)
                receipt == [seq |-> replayer.readCursor, node |-> call.node, key |-> call.key,
                            replayed |-> verdict = "replayed"]
            IN  /\ occurrences' = IF call.node = None THEN occurrences
                                  ELSE [occurrences EXCEPT ![call.node[1]] = @ + 1]
                /\ IF verdict = "throws"
                   THEN replayer' = after /\ Throws(b) /\ UNCHANGED <<record, losses, calls, journal>>
                   ELSE IF verdict # "replayed" /\ call.structured /\ run > 1
                   THEN \* no committed structured prefix: settled and thrown at once
                        /\ replayer' = Settled(after, receipt, FALSE)
                        /\ AppendRow([kind |-> "agent", seq |-> receipt.seq, node |-> receipt.node,
                                      key |-> receipt.key, ok |-> FALSE, value |-> None])
                        /\ Throws(b) /\ UNCHANGED <<calls, journal>>
                   ELSE /\ replayer' = after /\ UNCHANGED <<record, at, saw>>
                        /\ IF verdict = "replayed" /\ call.structured
                           THEN /\ doing' = [doing EXCEPT ![b] =
                                       Open(receipt, "revalidating", None, RecordedText(replayer))]
                                /\ UNCHANGED <<calls, journal, losses>>
                           ELSE /\ calls' = calls + 1
                                /\ IF verdict = "replayed"
                                   THEN Replay(b, Open(receipt, "", None, RecordedText(replayer)))
                                   ELSE Queue(b, Open(receipt, "", None, None))
    /\ UNCHANGED <<script, run, phase, ok, stopped, past, executed>>

(* The committed receipt of a structured answer is revalidated (awaited)    *)
(* before it is served; a receipt that fails settles the call as failed.    *)
Revalidate(b) ==
    /\ Awaits(b, {"revalidating"})
    /\ \/ /\ Replay(b, [doing[b] EXCEPT !.call = calls + 1])
          /\ calls' = calls + 1
          /\ UNCHANGED <<replayer, record, at, saw>>
       \/ /\ RecordAgentAttempt(doing[b].receipt, FALSE, None)
          /\ Throws(b) /\ UNCHANGED <<calls, journal>>
    /\ UNCHANGED <<script, run, phase, ok, stopped, past, occurrences, executed>>

(* The queue grants the permit and the child starts, or refuses it.         *)
Start(b) ==
    /\ Awaits(b, {"queued"})
    /\ IF stopped
       THEN /\ doing' = [doing EXCEPT ![b].stage = "answered", ![b].outcome = "thrown"]
            /\ Emit(<<Line("error", doing[b], FALSE)>>)
       ELSE /\ doing' = [doing EXCEPT ![b].stage = "running"]
            /\ Emit(<<Line("start", doing[b], TRUE)>>)
    /\ UNCHANGED <<replayer, record, at, saw, occurrences, calls, executed>>
    /\ UNCHANGED <<script, run, phase, ok, stopped, past>>

(* The child answers, fails (a timeout is told from another failure while   *)
(* attempts are left), or the host or the evidence store throws, which      *)
(* leaves an error line instead of an end.                                  *)
Finish(b) ==
    /\ Awaits(b, {"running"})
    /\ \/ \E text \in Answers :
          /\ doing' = [doing EXCEPT ![b].stage = "answered", ![b].outcome = "answer", ![b].text = text]
          /\ executed' = executed \cup {<<doing[b].receipt.key, text>>}
          /\ Emit(<<Line("end", doing[b], TRUE)>>)
       \/ \E outcome \in {"failed"} \cup (IF doing[b].attempt < Step(b).attempts THEN {"timeout"} ELSE {}) :
          /\ doing' = [doing EXCEPT ![b].stage = "answered", ![b].outcome = outcome]
          /\ Emit(<<Line("end", doing[b], FALSE)>>) /\ UNCHANGED executed
       \/ /\ doing' = [doing EXCEPT ![b].stage = "answered", ![b].outcome = "thrown"]
          /\ Emit(<<Line("error", doing[b], FALSE)>>) /\ UNCHANGED executed
    /\ UNCHANGED <<replayer, record, at, saw, occurrences, calls>>
    /\ UNCHANGED <<script, run, phase, ok, stopped, past>>

(* Back in runAgentAttempt, a microtask after the last line of the attempt: *)
(* the admission is settled and recorded, or the same request runs again.   *)
Retries(b) == doing[b].outcome = "timeout"

Settle(b) ==
    /\ Awaits(b, {"answered"})
    /\ IF Retries(b)
       THEN /\ Queue(b, [doing[b] EXCEPT !.call = calls + 1, !.attempt = @ + 1])
            /\ calls' = calls + 1
            /\ UNCHANGED <<replayer, record, at, saw>>
       ELSE /\ RecordAgentAttempt(doing[b].receipt, doing[b].outcome = "answer", doing[b].text)
            /\ IF doing[b].outcome = "answer" THEN Returns(b, doing[b].text) ELSE Throws(b)
            /\ UNCHANGED <<calls, journal>>
    /\ UNCHANGED <<script, run, phase, ok, stopped, past, occurrences, executed>>

(* now(): a value from the record while the prefix is whole, else a new one.*)
ReadClock(b) ==
    /\ Ready(b) /\ Step(b).kind = "clock"
    /\ LET after == AfterValue(replayer)
           row   == ValueOf(replayer)
       IN  IF replayer.refusal
           THEN Throws(b) /\ UNCHANGED replayVars
           ELSE /\ replayer' = after
                /\ IF after.refusal
                   THEN Throws(b) /\ UNCHANGED <<record, losses>>
                   ELSE \E time \in IF row = None THEN Times ELSE {row.value} :
                        /\ AppendRow([kind |-> "clock", seq |-> replayer.clock, node |-> None,
                                      key |-> None, ok |-> TRUE, value |-> time])
                        /\ Returns(b, time)
    /\ UNCHANGED <<script, run, phase, ok, stopped, past, occurrences, calls, journal, executed>>

(* The deadline passes, or the run's owner is stopped.                      *)
StopRun ==
    /\ phase = "running" /\ ~stopped
    /\ stopped' = TRUE
    /\ UNCHANGED <<replayVars, callVars, script, run, phase, ok, past>>

(* The script settles. A success is asked whether it used up the record.    *)
AgentRows(source) == {source[i] : i \in Rows(source, "agent")}

EndRun ==
    /\ phase = "running" /\ \A b \in Branches : doing[b] = None /\ Done(b)
    /\ phase' = "ended"
    /\ ok' = /\ \A b \in Branches : at[b] # 0
             /\ replayer.options.prefix =>
                   replayer.replayed >= Cardinality(Rows(replayer.options.source, "agent"))
             /\ Complete(replayer)
    /\ UNCHANGED <<replayVars, callVars, script, run, stopped, past>>

(* The process dies; what was appended stays.                               *)
Crash ==
    /\ phase = "running"
    /\ phase' = "crashed"
    /\ UNCHANGED <<replayVars, callVars, script, run, ok, stopped, past>>

-----------------------------------------------------------------------------
Lines(kinds) == {i \in DOMAIN journal : journal[i].kind \in kinds}

(* The two lines of one call, with no line of another call between them.    *)
Confirms(i, j) ==
    /\ i < j /\ journal[i].call = journal[j].call /\ journal[i].node # None /\ journal[j].ok
    /\ \A k \in Lines({"start", "end"}) : k <= i \/ j <= k

(* The rows are those of as many calls, in the order of their ordinals.     *)
ConfirmedRows ==
    /\ Len(record) = Cardinality(Lines({"end"}))
    /\ \A i \in DOMAIN record :
          record[i].kind = "agent" /\ record[i].ok /\ record[i].seq = i - 1 /\ record[i].node # None

(* Mutant: a call that was started and never confirmed is left out.         *)
RecoverableTail ==
    /\ Lines({"group", "error"}) = {} /\ Lines({"end"}) # {}
    /\ \A j \in Lines({"end"}) : \E i \in Lines({"start"}) : Confirms(i, j)
    /\ ConfirmedRows

(* readInterruptedWorkflowResumeBinding: nothing but a serial, labelled,    *)
(* fully confirmed prefix whose replay rows say the same may be recovered.  *)
Recoverable ==
    /\ Lines({"group", "error"}) = {} /\ Lines({"start"}) # {}
    /\ Cardinality(Lines({"start"})) = Cardinality(Lines({"end"}))
    /\ \A i \in Lines({"start"}) : \E j \in Lines({"end"}) : Confirms(i, j)
    /\ \A j \in Lines({"end"}) : \E i \in Lines({"start"}) : Confirms(i, j)
    /\ ConfirmedRows

(* Mutant: of the attempts of a call the first one is asked.                *)
FirstTerminal(logical) ==
    LET terminals == {i \in Lines({"end", "error"}) : journal[i].logical = logical}
    IN  IF terminals = {} THEN None ELSE journal[CHOOSE i \in terminals : \A j \in terminals : i <= j]

(* readTypedReplayRetryOrdinals: every logical call is told by a row and by *)
(* its last terminal line, in agreement, without gaps.                      *)
LastTerminal(logical) ==
    LET terminals == {i \in Lines({"end", "error"}) : journal[i].logical = logical}
    IN  IF terminals = {} THEN None ELSE journal[CHOOSE i \in terminals : \A j \in terminals : j <= i]

HasClock == \E b \in Branches : \E i \in DOMAIN script.branches[b] : script.branches[b][i].kind = "clock"

TypedEvidence ==
    /\ replayer.fresh + replayer.replayed = Cardinality(Rows(record, "agent"))
    /\ Cardinality({journal[i].logical : i \in Lines({"queued", "start"})}) = Cardinality(Rows(record, "agent"))
    /\ \A r \in AgentRows(record) : LastTerminal(r.seq) # None /\ r.ok = LastTerminal(r.seq).ok
    /\ \A i \in Lines({"start"}) : \E j \in Lines({"end", "error"}) : journal[j].call = journal[i].call
    /\ record = <<>> => ~HasClock
    /\ \A kind \in {"agent", "clock"} :
          {record[i].seq : i \in Rows(record, kind)} = 0..(Cardinality(Rows(record, kind)) - 1)

Failed(rows) == {r.seq : r \in {r \in rows : ~r.ok}}

Begin(s, options) ==
    /\ script' = s
    /\ phase' = "running" /\ ok' = FALSE /\ stopped' = FALSE
    /\ replayer' = NewController(options) /\ record' = <<>>
    /\ at' = [b \in DOMAIN s.branches |-> 1]
    /\ saw' = [b \in DOMAIN s.branches |-> None]
    /\ doing' = [b \in DOMAIN s.branches |-> None]
    /\ occurrences' = [l \in Labels |-> 0]
    /\ calls' = 0
    /\ journal' = IF s.grouped THEN <<GroupLine>> ELSE <<>>

(* The next run of the chain, at the same target (another one is refused    *)
(* and runs fresh). A text run may have been repaired; a typed one repeats  *)
(* its source, an interrupted one its source and its prefix.                *)
Resume(s) ==
    /\ s.target = script.target /\ run < s.runs /\ run' = run + 1
    /\ \/ /\ phase = "ended" /\ ~script.typed /\ ~s.typed
          /\ Begin(s, IF record = <<>> THEN Options(None, FALSE, FALSE, None)
                      ELSE Options(record, s # script, FALSE, None))
       \/ /\ phase = "ended" /\ script.typed /\ s = script /\ TypedEvidence
          /\ Begin(s, Options(record, FALSE, FALSE, IF ok THEN {} ELSE Failed(AgentRows(record))))
       \/ /\ phase = "crashed" /\ s = script /\ Recoverable
          /\ Begin(s, Options(record, FALSE, TRUE, None))
    /\ past' = IF phase = "crashed" THEN journal ELSE <<>>
    /\ UNCHANGED <<losses, executed>>

Init ==
    /\ script \in Scripts /\ run = 1
    /\ phase = "running" /\ ok = FALSE /\ stopped = FALSE
    /\ replayer = NewController(Options(None, FALSE, FALSE, None)) /\ record = <<>> /\ losses = script.losses
    /\ at = [b \in Branches |-> 1]
    /\ saw = [b \in Branches |-> None]
    /\ doing = [b \in Branches |-> None]
    /\ occurrences = [l \in Labels |-> 0]
    /\ calls = 0
    /\ journal = (IF script.grouped THEN <<GroupLine>> ELSE <<>>) /\ past = <<>>
    /\ executed = {}

Next ==
    \/ \E b \in Branches : Admit(b) \/ Revalidate(b) \/ Start(b) \/ Finish(b) \/ Settle(b) \/ ReadClock(b)
    \/ StopRun \/ EndRun \/ Crash
    \/ \E s \in Scripts : Resume(s)

Spec == Init /\ [][Next]_vars
-----------------------------------------------------------------------------
Verdicts == {"fresh", "retried", "replayed", "refused", "throws"}

\* What a script may read, and what identifies a call.
Values == {None} \cup Answers \cup Times
Nodes  == {None} \cup (Labels \X Nat)
Keys   == {s.prompt : s \in Calls} \X ({None} \cup Labels) \X Values

Receipts == [seq : Nat, node : Nodes, key : Keys, replayed : BOOLEAN]

OpenCalls == [receipt : Receipts, stage : {"revalidating", "queued", "running", "answered"}, call : Nat,
              attempt : Nat, outcome : {None, "answer", "failed", "timeout", "thrown"}, text : Values]

RecordRows == [kind : {"agent", "clock"}, seq : Nat, node : Nodes, key : Keys \cup {None}, ok : BOOLEAN, value : Values]

JournalLines == [kind : {"group", "queued", "start", "end", "error"}, call : Nat, logical : Nat \cup {None},
                 node : Nodes, ok : BOOLEAN]

\* Nothing is told from a call, a node name, a line and a record.
ASSUME NothingAssumption ==
    None \notin OpenCalls /\ None \notin Labels \X Nat /\ None \notin JournalLines /\ None \notin Seq(RecordRows)

(* The shape of the state: in particular every receipt that is open belongs *)
(* to exactly one branch that is doing that call, and the counts of the     *)
(* result are those of the admissions (workflow-replay.ts:354, :368, :380). *)
ResumeTypeOK ==
    /\ phase \in {"running", "ended", "crashed"} /\ run \in 1..script.runs /\ losses \in Nat
    /\ replayer.admissions \subseteq Receipts
    /\ \A b \in Branches : doing[b] # None =>
          /\ doing[b].stage \in {"revalidating", "queued", "running", "answered"}
          /\ doing[b].receipt \in replayer.admissions
    /\ Cardinality(replayer.admissions) = Cardinality({b \in Branches : doing[b] # None})
    /\ Len(replayer.verdicts) = replayer.readCursor
    /\ \A i \in DOMAIN replayer.verdicts : replayer.verdicts[i] \in Verdicts
    /\ LET got(set) == Cardinality({i \in DOMAIN replayer.verdicts : replayer.verdicts[i] \in set})
       IN  replayer.replayed = got({"replayed"}) /\ replayer.fresh = got({"fresh", "retried"})

(* An answer, kept for the next resume or read by the script's next prompt, *)
(* is one that a child of this chain of runs gave to that very request:     *)
(* neither a reordered branch, a repaired script nor a lost row hands a     *)
(* call the answer of another one.                                          *)
AnswersEarned ==
    /\ \A row \in AgentRows(record) : row.ok => <<row.key, row.value>> \in executed
    /\ \A b \in Branches : doing[b] # None /\ doing[b].outcome = "answer" =>
          <<doing[b].receipt.key, doing[b].text>> \in executed

(* Replay is a strict prefix (docs/workflows/replay.md:73-78): a call is    *)
(* answered from the record only if every call admitted before it was, or   *)
(* was a failure that a typed replay may run again, whatever order the      *)
(* branches of a group reach their calls in and whatever was refused since. *)
StrictPrefix ==
    [][\A o \in DOMAIN replayer'.verdicts \ DOMAIN replayer.verdicts :
          run' = run /\ replayer'.verdicts[o] = "replayed" =>
             \A p \in DOMAIN replayer.verdicts : replayer.verdicts[p] \in {"replayed", "retried"}]_vars

(* What the source run confirms is neither executed again nor skipped by an *)
(* interrupted recovery or a typed resume: a call whose start reached the   *)
(* journal of a recovered run, or whose answer a typed run recorded, never  *)
(* has a child again, and a success has been served the whole record        *)
(* (workflow-interrupted-recovery.ts:169, workflow-replay.ts:427-435).      *)
Confirmed(receipt) ==
    IF replayer.options.prefix
    THEN \E i \in DOMAIN past : past[i].kind = "start" /\ past[i].node = receipt.node
    ELSE \E row \in AgentRows(replayer.options.source) : row.ok /\ row.seq = receipt.seq

ConfirmedWorkStands ==
    replayer.options.prefix \/ Typed(replayer) =>
       /\ \A b \in Branches : doing[b] # None /\ doing[b].stage \in {"queued", "running"} =>
             ~Confirmed(doing[b].receipt)
       /\ phase = "ended" /\ ok => \A row \in AgentRows(replayer.options.source) :
             replayer.verdicts[row.seq + 1] = (IF row.ok THEN "replayed" ELSE "retried")

(* A typed run that ended with nothing lost on disk can be resumed, however *)
(* its calls overlapped, failed and were retried: its rows, counts and      *)
(* journal agree (workflow-interrupted-recovery.ts:204-231). Not promised   *)
(* once the run was stopped or an answer from the record was refused: those *)
(* calls leave a row but no line.                                           *)
EndedRunsResume ==
    phase = "ended" /\ script.typed /\ losses = script.losses /\ ~stopped /\ run = 1 =>
       replayer.admissions = {} /\ TypedEvidence
=============================================================================
