--------------------------- MODULE WorkflowReplay ---------------------------
(* The recorded-call store of one run (workflow-replay.ts): an ordinal is   *)
(* claimed once per admitted call, the call is answered from the record of  *)
(* the run that is resumed as long as every earlier call was, and the run   *)
(* writes a complete record of its own, one row per admission, at           *)
(* settlement. A row is lost when its append fails: the code swallows it.   *)
EXTENDS Naturals, Sequences, FiniteSets

CONSTANT None  \* the absent row, node name, value and ordinal

VARIABLES
    replayer,  \* the controller of the run: its options, cursors and counters
    record,    \* replay.ndjson of the run: its rows in the order of the appends
    losses     \* bound: the writes that may still fail, over all the runs

replayVars == <<replayer, record, losses>>

(* The options of createWorkflowReplayController: the rows of the source    *)
(* run (None records without replaying), whether its script has other bytes,*)
(* the interrupted recovery's strict prefix, the typed replay's ordinals.   *)
Options(source, changed, prefix, retry) ==
    [source |-> source, changed |-> changed, prefix |-> prefix, retry |-> retry]

NewController(options) ==
    [options    |-> options,
     readCursor |-> 0,             \* agent admissions so far
     clock      |-> 0,             \* cursor of the recorded clock values
     diverged   |-> FALSE,
     divergedAt |-> None,          \* reported, not read by the controller
     refusal    |-> FALSE,         \* strictRefusal: every later lookup throws
     replayed   |-> 0,             \* counts() of result.json
     fresh      |-> 0,
     admissions |-> {},            \* receipts not settled: [seq, node, key, replayed]
     verdicts   |-> <<>>]          \* what each admission got, in admission order

-----------------------------------------------------------------------------
Rows(source, kind) == {i \in DOMAIN source : source[i].kind = kind}

(* A duplicated ordinal names no row: no winner is chosen.                  *)
Recorded(source, kind, seq) ==
    LET at == {i \in Rows(source, kind) : source[i].seq = seq}
    IN  IF Cardinality(at) = 1 THEN source[CHOOSE i \in at : TRUE] ELSE None

Extent(source) ==
    LET seqs == {source[i].seq : i \in Rows(source, "agent")}
    IN  IF seqs = {} THEN 0 ELSE 1 + CHOOSE s \in seqs : \A t \in seqs : t <= s

ValueExtent(source) == Cardinality({source[i].seq : i \in Rows(source, "clock")})

Enabled(c) == c.options.source # None

Typed(c) == c.options.retry # None

(* Only a typed replay that already retried a failure goes past its record. *)
CanExtend(c, ordinal, extent) == Typed(c) /\ c.fresh > 0 /\ ordinal >= extent

(* Mutant: a place in the sequence is taken for the identity of a call.     *)
SameCallByPlace(c, call, row) ==
    /\ row # None
    /\ c.options.changed => row.node # None /\ row.node = call.node

(* Changed source has to match by node name before it matches by request.   *)
SameCall(c, call, row) ==
    /\ row # None
    /\ c.options.changed => row.node # None /\ row.node = call.node
    /\ row.key = call.key

(* Mutant: a refused call runs fresh and reuse goes on behind it.           *)
RefuseCallOnly(c, ordinal) ==
    [c EXCEPT !.divergedAt = IF @ # None /\ @ <= ordinal THEN @ ELSE ordinal,
              !.refusal = @ \/ Typed(c) \/ (c.options.prefix /\ ordinal < Extent(c.options.source))]

(* Every known refusal closes reuse; a typed replay, and a recovery inside  *)
(* its confirmed prefix, refuse all that follows.                           *)
Refuse(c, ordinal) ==
    [c EXCEPT !.diverged = TRUE,
              !.divergedAt = IF @ # None /\ @ <= ordinal THEN @ ELSE ordinal,
              !.refusal = @ \/ Typed(c) \/ (c.options.prefix /\ ordinal < Extent(c.options.source))]

-----------------------------------------------------------------------------
(* Lookup of the call at the ordinal of the cursor: "throws", "replayed",   *)
(* "fresh" (the suffix, or a permitted retry) or "miss" (this call breaks   *)
(* the prefix).                                                             *)
Lookup(c, call) ==
    LET o     == c.readCursor
        row   == IF Enabled(c) THEN Recorded(c.options.source, "agent", o) ELSE None
        beyond == row = None /\ CanExtend(c, o, Extent(c.options.source))
    IN  IF c.refusal THEN "throws"
        ELSE IF ~Enabled(c) THEN "fresh"
        ELSE IF c.diverged THEN (IF call.structured THEN "throws" ELSE "fresh")
        ELSE IF beyond THEN "fresh"
        ELSE IF ~SameCall(c, call, row) THEN "miss"
        ELSE IF row.ok THEN (IF call.replayable THEN "replayed" ELSE "miss")
        ELSE IF Typed(c) /\ ~call.structured /\ o \in c.options.retry THEN "retried"
        ELSE "miss"

(* A miss refuses the prefix, then throws for a structured call and under a *)
(* strict refusal, and otherwise lets the call run fresh.                   *)
Verdict(c, call) ==
    LET found == Lookup(c, call)
    IN  IF found # "miss" THEN found
        ELSE IF call.structured \/ Refuse(c, c.readCursor).refusal THEN "throws"
        ELSE "fresh"

RecordedText(c) == Recorded(c.options.source, "agent", c.readCursor).value

(* beginAgentAttempt: the ordinal is spent whatever the lookup says.        *)
Admitted(c, call) ==
    LET found   == Lookup(c, call)
        verdict == Verdict(c, call)
        base    == IF found = "miss" THEN Refuse(c, c.readCursor) ELSE c
    IN  [base EXCEPT !.readCursor = @ + 1,
                     !.replayed = @ + (IF verdict = "replayed" THEN 1 ELSE 0),
                     !.fresh = @ + (IF verdict \in {"fresh", "retried"} THEN 1 ELSE 0),
                     !.verdicts = Append(@, verdict),
                     !.admissions = IF verdict = "throws" THEN @
                         ELSE @ \cup {[seq |-> c.readCursor, node |-> call.node, key |-> call.key,
                                       replayed |-> verdict = "replayed"]}]

(* Best effort: a row that cannot be written costs a later resume, never    *)
(* this run.                                                                *)
AppendRow(row) ==
    \/ record' = Append(record, row) /\ UNCHANGED losses
    \/ losses > 0 /\ losses' = losses - 1 /\ UNCHANGED record

(* Mutant: a replayed answer that could not be used stays counted.          *)
SettledOnly(c, receipt, ok) ==
    LET base == IF receipt.replayed /\ ~ok THEN Refuse(c, receipt.seq) ELSE c
    IN  [base EXCEPT !.admissions = @ \ {receipt},
                     !.verdicts[receipt.seq + 1] = IF receipt.replayed /\ ~ok THEN "refused" ELSE @]

(* recordAgentAttempt: the receipt is settled once, and a replayed answer   *)
(* that could not be used takes its count back and closes reuse.            *)
Settled(c, receipt, ok) ==
    LET base == IF receipt.replayed /\ ~ok THEN Refuse(c, receipt.seq) ELSE c
    IN  [base EXCEPT !.admissions = @ \ {receipt},
                     !.replayed = IF receipt.replayed /\ ~ok THEN @ - 1 ELSE @,
                     !.verdicts[receipt.seq + 1] = IF receipt.replayed /\ ~ok THEN "refused" ELSE @]

RecordAgentAttempt(receipt, ok, text) ==
    /\ receipt \in replayer.admissions
    /\ replayer' = Settled(replayer, receipt, ok)
    /\ AppendRow([kind |-> "agent", seq |-> receipt.seq, node |-> receipt.node, key |-> receipt.key,
                  ok |-> ok, value |-> IF ok THEN text ELSE None])

(* resolveValue: the recorded value on an unbroken prefix, else a new one;  *)
(* a hole in the recorded values breaks the prefix like a missed call.      *)
ValueOf(c) ==
    IF Enabled(c) /\ ~c.diverged THEN Recorded(c.options.source, "clock", c.clock) ELSE None

AfterValue(c) ==
    LET hole == /\ Enabled(c) /\ ~c.diverged /\ ValueOf(c) = None
                /\ ~CanExtend(c, c.clock, ValueExtent(c.options.source))
        base == IF hole THEN Refuse(c, c.readCursor) ELSE c
    IN  [base EXCEPT !.clock = @ + 1]

(* assertComplete, asked of a typed replay before its run may succeed.      *)
Complete(c) ==
    Typed(c) => /\ ~c.refusal
                /\ c.readCursor >= Extent(c.options.source)
                /\ c.clock >= ValueExtent(c.options.source)
=============================================================================
