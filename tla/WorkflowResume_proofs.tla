------------------------ MODULE WorkflowResume_proofs ------------------------
(***************************************************************************)
(* Proofs about replay, for every set of scripts, answers and times, every  *)
(* length of a chain of runs and every number of lost writes.              *)
(*                                                                         *)
(* Two facts carry over from run to run through the record: its rows hold   *)
(* what was answered, and there is a last one.  Within a run the verdicts   *)
(* of the admissions are a prefix of reuse, behind it at most what lies     *)
(* past the record, until the run diverges.                                *)
(*                                                                         *)
(* In every run the open receipts are the calls of the branches, and a      *)
(* typed replay serves a recorded call as what it was (ChainInv).  The      *)
(* first run, undisturbed, tells of each call in a row and in the lines of  *)
(* its journal, and both say the same (FirstRunInv).  With one lost write   *)
(* at most, every run knows what it started or leaves a journal that cannot *)
(* be recovered (WrittenInv), and what is recovered is served in its order  *)
(* before anything new is named (PrefixInv).                                *)
(***************************************************************************)
EXTENDS WorkflowResume, SequenceTheorems, FiniteSetTheorems, TLAPS

ControllerFields == {"options", "readCursor", "clock", "diverged", "divergedAt", "refusal", "replayed", "fresh",
                     "admissions", "verdicts"}
CallFields == {"receipt", "stage", "call", "attempt", "outcome", "text"}

AgentRow(source, i) == i \in DOMAIN source /\ source[i].kind = "agent"

\* The rows of a record are in a sequence, and one of its ordinals is the last.
IsRecord(source) ==
    /\ source \in Seq(Range(source))
    /\ \A i : AgentRow(source, i) => source[i].seq \in Nat
    /\ \/ \A i : ~AgentRow(source, i)
       \/ \E i : AgentRow(source, i) /\ \A j : AgentRow(source, j) => source[j].seq <= source[i].seq

\* Reuse is a prefix of the admissions; what follows it lies past the record.
Prefixed(c) ==
    /\ DOMAIN c = ControllerFields
    /\ c.readCursor \in Nat /\ c.verdicts \in Seq(Verdicts) /\ Len(c.verdicts) = c.readCursor
    /\ \A receipt \in c.admissions : receipt.seq \in 0..(c.readCursor - 1)
    /\ c.refusal => c.diverged
    /\ Enabled(c) => IsRecord(c.options.source)
    /\ Enabled(c) /\ ~c.diverged =>
          \A p \in 1..c.readCursor :
             \/ c.verdicts[p] \in {"replayed", "retried"}
             \/ \A i : AgentRow(c.options.source, i) => c.options.source[i].seq < p

RowsEarned(source) == \A i : AgentRow(source, i) /\ source[i].ok => <<source[i].key, source[i].value>> \in executed

\* A call is answered, or will be by its receipt, with what a child answered.
CallEarned(c) ==
    /\ DOMAIN c = CallFields
    /\ c.outcome = "answer" \/ c.stage = "revalidating" => <<c.receipt.key, c.text>> \in executed

ResumeInv ==
    /\ IsRecord(record) /\ Prefixed(replayer)
    /\ RowsEarned(record) /\ (Enabled(replayer) => RowsEarned(replayer.options.source))
    /\ DOMAIN doing = Branches
    /\ \A b \in Branches : doing[b] # None => CallEarned(doing[b])
-----------------------------------------------------------------------------
(* Records                                                                 *)

LEMMA Appended ==
  ASSUME NEW s, s \in Seq(Range(s)), NEW e
  PROVE  /\ Append(s, e) \in Seq(Range(Append(s, e)))
         /\ DOMAIN Append(s, e) = DOMAIN s \cup {Len(s) + 1} /\ Len(s) + 1 \notin DOMAIN s
         /\ Append(s, e)[Len(s) + 1] = e
         /\ \A i \in DOMAIN s : Append(s, e)[i] = s[i]
<1> DEFINE S == Range(s) \cup {e}
           t == Append(s, e)
<1>1. s \in Seq(S) /\ e \in S
  BY SeqMonotonic
<1> HIDE DEF S
<1>2. /\ t \in Seq(S) /\ Len(t) = Len(s) + 1 /\ t[Len(s) + 1] = e
      /\ \A i \in 1..Len(s) : t[i] = s[i]
      /\ Len(s) \in Nat /\ DOMAIN s = 1..Len(s)
  BY <1>1, AppendProperties, LenProperties
<1>3. DOMAIN t = 1..Len(t)
  BY <1>2, LenProperties
<1>4. t \in Seq(Range(t))
  <2>1. t \in [1..Len(t) -> S] /\ Len(t) \in Nat
    BY <1>2, LenProperties
  <2>2. t \in [1..Len(t) -> Range(t)]
    BY <1>3, <2>1 DEF Range
  <2> QED
    BY <2>1, <2>2, SeqDef
<1> QED
  BY <1>2, <1>3, <1>4

LEMMA RecordGrows ==
  ASSUME NEW s, IsRecord(s), NEW row, row.kind = "agent" => row.seq \in Nat
  PROVE  IsRecord(Append(s, row))
<1> DEFINE t == Append(s, row)
           n == Len(s) + 1
<1>1. /\ t \in Seq(Range(t)) /\ DOMAIN t = DOMAIN s \cup {n} /\ n \notin DOMAIN s /\ t[n] = row
      /\ \A i \in DOMAIN s : t[i] = s[i]
  BY Appended DEF IsRecord
<1> HIDE DEF t, n
<1>2. \A i : AgentRow(t, i) <=> AgentRow(s, i) \/ (i = n /\ row.kind = "agent")
  BY <1>1 DEF AgentRow
<1>3. \A i : AgentRow(s, i) => t[i] = s[i]
  BY <1>1 DEF AgentRow
<1>4. \A i : AgentRow(s, i) => s[i].seq \in Nat
  BY DEF IsRecord
<1>5. \A i : AgentRow(t, i) => t[i].seq \in Nat
  BY <1>1, <1>2, <1>3, <1>4
<1>6. \/ \A i : ~AgentRow(t, i)
      \/ \E i : AgentRow(t, i) /\ \A j : AgentRow(t, j) => t[j].seq <= t[i].seq
  <2>1. CASE row.kind # "agent"
    <3>1. \A i : AgentRow(t, i) <=> AgentRow(s, i)
      BY <1>2, <2>1
    <3>2. CASE \A i : ~AgentRow(s, i)
      BY <3>1, <3>2
    <3>3. ASSUME NEW i, AgentRow(s, i), \A j : AgentRow(s, j) => s[j].seq <= s[i].seq
          PROVE  \E k : AgentRow(t, k) /\ \A j : AgentRow(t, j) => t[j].seq <= t[k].seq
      BY <1>3, <3>1, <3>3
    <3> QED
      BY <3>2, <3>3 DEF IsRecord
  <2>2. CASE row.kind = "agent" /\ \A i : ~AgentRow(s, i)
    BY <1>1, <1>2, <2>2
  <2>3. ASSUME row.kind = "agent", NEW i, AgentRow(s, i), \A j : AgentRow(s, j) => s[j].seq <= s[i].seq
        PROVE  \E k : AgentRow(t, k) /\ \A j : AgentRow(t, j) => t[j].seq <= t[k].seq
    <3>1. s[i].seq \in Nat /\ row.seq \in Nat /\ t[i] = s[i] /\ AgentRow(t, i) /\ AgentRow(t, n)
      BY <1>2, <1>3, <1>4, <2>3
    <3>2. CASE row.seq <= s[i].seq
      BY <1>1, <1>2, <1>3, <2>3, <3>1, <3>2
    <3>3. CASE s[i].seq <= row.seq
      <4>1. \A j : AgentRow(t, j) => t[j].seq <= t[n].seq
        BY <1>1, <1>2, <1>3, <1>4, <2>3, <3>1, <3>3
      <4> QED
        BY <3>1, <4>1
    <3> QED
      BY <3>1, <3>2, <3>3
  <2> QED
    BY <2>1, <2>2, <2>3 DEF IsRecord
<1> QED
  BY <1>1, <1>5, <1>6 DEF IsRecord, t

\* What lies past the extent of a record is past every row.
LEMMA PastTheRecord ==
  ASSUME NEW s, IsRecord(s), NEW o \in Nat, o >= Extent(s)
  PROVE  \A i : AgentRow(s, i) => s[i].seq < o
<1> DEFINE seqs == {s[i].seq : i \in Rows(s, "agent")}
<1>1. \A i : AgentRow(s, i) <=> i \in Rows(s, "agent")
  BY DEF AgentRow, Rows
<1>2. seqs \subseteq Nat
  BY <1>1 DEF IsRecord
<1>3. CASE seqs = {}
  BY <1>1, <1>3
<1>4. CASE seqs # {}
  <2>1. \E m \in seqs : \A t \in seqs : t <= m
    BY <1>1, <1>4 DEF IsRecord
  <2>2. PICK m \in seqs : (\A t \in seqs : t <= m) /\ Extent(s) = 1 + m
    BY <1>4, <2>1 DEF Extent
  <2>3. ASSUME NEW i, AgentRow(s, i) PROVE s[i].seq < o
    <3>1. s[i].seq \in seqs
      BY <1>1, <2>3
    <3>2. s[i].seq \in Nat /\ m \in Nat /\ s[i].seq <= m
      BY <1>2, <2>2, <3>1
    <3> QED
      BY <2>2, <3>2
  <2> QED
    BY <2>3
<1> QED
  BY <1>3, <1>4

LEMMA RecordedRow ==
  ASSUME NEW s, NEW kind, NEW o, Recorded(s, kind, o) # None
  PROVE  \E i \in Rows(s, kind) : s[i].seq = o /\ Recorded(s, kind, o) = s[i]
<1> DEFINE here == {i \in Rows(s, kind) : s[i].seq = o}
<1>1. Cardinality(here) = 1 /\ Recorded(s, kind, o) = s[CHOOSE i \in here : TRUE]
  BY DEF Recorded
<1>2. here # {}
  BY <1>1, FS_EmptySet
<1> QED
  BY <1>1, <1>2

-----------------------------------------------------------------------------
(* The controller                                                          *)

LEMMA Refuses ==
  ASSUME NEW c, Prefixed(c), NEW o
  PROVE  /\ Prefixed(Refuse(c, o)) /\ Refuse(c, o).diverged
         /\ Refuse(c, o).options = c.options /\ Refuse(c, o).readCursor = c.readCursor
         /\ Refuse(c, o).admissions = c.admissions /\ Refuse(c, o).verdicts = c.verdicts
<1> DEFINE d == Refuse(c, o)
<1>1. DOMAIN c = ControllerFields
  BY DEF Prefixed
<1>2. /\ DOMAIN d = ControllerFields /\ d.diverged = TRUE
      /\ d.options = c.options /\ d.readCursor = c.readCursor
      /\ d.admissions = c.admissions /\ d.verdicts = c.verdicts
  BY <1>1 DEF Refuse, ControllerFields
<1> HIDE DEF d
<1>3. Prefixed(d)
  BY <1>2 DEF Prefixed, Enabled
<1> QED
  BY <1>2, <1>3 DEF d

\* A verdict of reuse is given on an unbroken prefix only.
LEMMA ReuseIsPrefixed ==
  ASSUME NEW c, Prefixed(c), NEW call, Verdict(c, call) = "replayed"
  PROVE  /\ Lookup(c, call) = "replayed" /\ Enabled(c) /\ ~c.diverged
         /\ \A p \in 1..c.readCursor : c.verdicts[p] \in {"replayed", "retried"}
         /\ \E i : /\ AgentRow(c.options.source, i) /\ c.options.source[i].ok /\ c.options.source[i].seq = c.readCursor
                 /\ c.options.source[i].key = call.key /\ RecordedText(c) = c.options.source[i].value
<1> DEFINE row == Recorded(c.options.source, "agent", c.readCursor)
<1>1. Lookup(c, call) = "replayed"
  BY DEF Verdict
<1>2. Enabled(c) /\ ~c.diverged /\ SameCall(c, call, row) /\ row.ok
  BY <1>1 DEF Lookup
<1>3. row # None /\ row.key = call.key
  BY <1>2 DEF SameCall
<1>4. PICK i \in Rows(c.options.source, "agent") : c.options.source[i].seq = c.readCursor /\ row = c.options.source[i]
  BY <1>3, RecordedRow
<1>5. AgentRow(c.options.source, i)
  BY <1>4 DEF Rows, AgentRow
<1>6. ASSUME NEW p \in 1..c.readCursor PROVE c.verdicts[p] \in {"replayed", "retried"}
  <2>1. ~(c.options.source[i].seq < p)
    BY <1>4 DEF Prefixed
  <2> QED
    BY <1>2, <1>5, <2>1 DEF Prefixed
<1> QED
  BY <1>1, <1>2, <1>3, <1>4, <1>5, <1>6 DEF RecordedText

LEMMA VerdictGiven ==
  ASSUME NEW c, Prefixed(c), NEW call
  PROVE  /\ Verdict(c, call) \in {"throws", "fresh", "replayed", "retried"}
         /\ Enabled(c) /\ ~c.diverged /\ Lookup(c, call) # "miss" =>
               \/ Verdict(c, call) \in {"replayed", "retried"}
               \/ \A i : AgentRow(c.options.source, i) => c.options.source[i].seq < c.readCursor
<1>1. Lookup(c, call) \in {"throws", "fresh", "replayed", "retried", "miss"}
  BY DEF Lookup
<1>2. Verdict(c, call) = IF Lookup(c, call) # "miss" THEN Lookup(c, call)
                         ELSE IF call.structured \/ Refuse(c, c.readCursor).refusal THEN "throws" ELSE "fresh"
  BY DEF Verdict
<1>3. ASSUME Enabled(c), ~c.diverged, Lookup(c, call) \in {"throws", "fresh"}
      PROVE  \A i : AgentRow(c.options.source, i) => c.options.source[i].seq < c.readCursor
  <2>1. ~c.refusal
    BY <1>3 DEF Prefixed
  <2>2. CanExtend(c, c.readCursor, Extent(c.options.source))
    BY <1>3, <2>1 DEF Lookup
  <2> QED
    BY <1>3, <2>2, PastTheRecord DEF CanExtend, Prefixed
<1> QED
  BY <1>1, <1>2, <1>3

LEMMA Admits ==
  ASSUME NEW c, Prefixed(c), NEW call
  PROVE  /\ Prefixed(Admitted(c, call)) /\ Admitted(c, call).options = c.options
         /\ Admitted(c, call).readCursor = c.readCursor + 1
         /\ Admitted(c, call).verdicts = Append(c.verdicts, Verdict(c, call))
<1> DEFINE base == IF Lookup(c, call) = "miss" THEN Refuse(c, c.readCursor) ELSE c
           d == Admitted(c, call)
           verdict == Verdict(c, call)
           receipt == [seq |-> c.readCursor, node |-> call.node, key |-> call.key, replayed |-> verdict = "replayed"]
<1>1. /\ Prefixed(base) /\ base.options = c.options /\ base.readCursor = c.readCursor
      /\ base.admissions = c.admissions /\ base.verdicts = c.verdicts
      /\ base.diverged \/ (base = c /\ Lookup(c, call) # "miss")
  BY Refuses
<1>2. DOMAIN base = ControllerFields
  BY <1>1 DEF Prefixed
<1>3. /\ DOMAIN d = ControllerFields /\ d.options = base.options /\ d.readCursor = base.readCursor + 1
      /\ d.diverged = base.diverged /\ d.refusal = base.refusal
      /\ d.verdicts = Append(base.verdicts, verdict)
      /\ d.admissions = IF verdict = "throws" THEN base.admissions ELSE base.admissions \cup {receipt}
  <2> HIDE DEF base, verdict
  <2>1. d = [base EXCEPT !.readCursor = @ + 1,
                         !.replayed = @ + (IF verdict = "replayed" THEN 1 ELSE 0),
                         !.fresh = @ + (IF verdict \in {"fresh", "retried"} THEN 1 ELSE 0),
                         !.verdicts = Append(@, verdict),
                         !.admissions = IF verdict = "throws" THEN @ ELSE @ \cup {receipt}]
    BY DEF Admitted, base, verdict
  <2> HIDE DEF d, receipt
  <2> QED
    BY <1>2, <2>1 DEF ControllerFields
<1>4. /\ verdict \in {"throws", "fresh", "replayed", "retried"}
      /\ Enabled(c) /\ ~base.diverged =>
            \/ verdict \in {"replayed", "retried"}
            \/ \A i : AgentRow(c.options.source, i) => c.options.source[i].seq < c.readCursor
  BY <1>1, VerdictGiven
<1>5. c.readCursor \in Nat /\ c.verdicts \in Seq(Verdicts) /\ Len(c.verdicts) = c.readCursor
  BY DEF Prefixed
<1> HIDE DEF base, d, verdict
<1>6. /\ d.verdicts \in Seq(Verdicts) /\ Len(d.verdicts) = c.readCursor + 1
      /\ d.verdicts[c.readCursor + 1] = verdict
      /\ \A p \in 1..c.readCursor : d.verdicts[p] = c.verdicts[p]
  <2>1. verdict \in Verdicts
    BY <1>4 DEF Verdicts
  <2> QED
    BY <1>1, <1>3, <1>5, <2>1, AppendProperties
<1>7. \A r \in d.admissions : r.seq \in 0..(d.readCursor - 1)
  <2>1. \A r \in base.admissions : r.seq \in 0..(c.readCursor - 1)
    BY <1>1 DEF Prefixed
  <2>2. receipt.seq = c.readCursor
    OBVIOUS
  <2> HIDE DEF receipt
  <2> QED
    BY <1>1, <1>3, <1>5, <2>1, <2>2
<1>8. d.refusal => d.diverged
  BY <1>1, <1>3 DEF Prefixed
<1>9. Enabled(d) => Enabled(base) /\ Enabled(c) /\ IsRecord(d.options.source)
  BY <1>1, <1>3 DEF Prefixed, Enabled
<1>10. ASSUME Enabled(d), ~d.diverged, NEW p \in 1..d.readCursor
       PROVE  d.verdicts[p] \in {"replayed", "retried"} \/ \A i : AgentRow(d.options.source, i) => d.options.source[i].seq < p
  <2>1. CASE p = c.readCursor + 1
    <3>1. \A i : AgentRow(c.options.source, i) => c.options.source[i].seq \in Nat
      BY <1>9, <1>10 DEF IsRecord, Prefixed
    <3> QED
      BY <1>1, <1>3, <1>4, <1>5, <1>6, <1>9, <1>10, <2>1, <3>1
  <2>2. CASE p # c.readCursor + 1
    <3>1. p \in 1..c.readCursor
      BY <1>1, <1>3, <1>5, <2>2
    <3> QED
      BY <1>1, <1>3, <1>6, <1>9, <1>10, <3>1 DEF Prefixed
  <2> QED
    BY <2>1, <2>2
<1>11. Prefixed(d)
  BY <1>1, <1>3, <1>5, <1>6, <1>7, <1>8, <1>9, <1>10 DEF Prefixed
<1> QED
  BY <1>1, <1>3, <1>11 DEF d, verdict

LEMMA Settles ==
  ASSUME NEW c, Prefixed(c), NEW receipt, receipt \in c.admissions \/ ~receipt.replayed, NEW good \in BOOLEAN
  PROVE  /\ Prefixed(Settled(c, receipt, good)) /\ Settled(c, receipt, good).options = c.options
         /\ DOMAIN Settled(c, receipt, good).verdicts = DOMAIN c.verdicts
         /\ ~receipt.replayed => Settled(c, receipt, good).verdicts = c.verdicts
<1> DEFINE back == receipt.replayed /\ ~good
           base == IF back THEN Refuse(c, receipt.seq) ELSE c
           d == Settled(c, receipt, good)
<1>1. /\ Prefixed(base) /\ base.options = c.options /\ base.readCursor = c.readCursor
      /\ base.admissions = c.admissions /\ base.verdicts = c.verdicts
      /\ back => base.diverged
  BY Refuses
<1>2. DOMAIN base = ControllerFields
  BY <1>1 DEF Prefixed
<1>3. /\ DOMAIN d = ControllerFields /\ d.options = base.options /\ d.readCursor = base.readCursor
      /\ d.diverged = base.diverged /\ d.refusal = base.refusal
      /\ d.verdicts = [base.verdicts EXCEPT ![receipt.seq + 1] = IF back THEN "refused" ELSE @]
      /\ d.admissions = base.admissions \ {receipt}
  <2> HIDE DEF base
  <2>1. d = [base EXCEPT !.admissions = @ \ {receipt},
                         !.replayed = IF back THEN @ - 1 ELSE @,
                         !.verdicts[receipt.seq + 1] = IF back THEN "refused" ELSE @]
    BY DEF Settled, base
  <2> HIDE DEF d, back
  <2> QED
    BY <1>2, <2>1 DEF ControllerFields
<1>4. /\ c.readCursor \in Nat /\ c.verdicts \in Seq(Verdicts)
      /\ Len(c.verdicts) = c.readCursor /\ DOMAIN c.verdicts = 1..c.readCursor
  BY LenProperties DEF Prefixed
<1> HIDE DEF base, d
<1>5. ~back => d.verdicts = c.verdicts
  <2>1. c.verdicts = [i \in 1..c.readCursor |-> c.verdicts[i]]
    BY <1>4, LenProperties
  <2> QED
    BY <1>1, <1>3, <1>4, <2>1
<1>6. back => d.verdicts \in Seq(Verdicts) /\ Len(d.verdicts) = c.readCursor /\ DOMAIN d.verdicts = DOMAIN c.verdicts
  <2> SUFFICES ASSUME back PROVE d.verdicts \in Seq(Verdicts) /\ Len(d.verdicts) = c.readCursor /\ DOMAIN d.verdicts = DOMAIN c.verdicts
    OBVIOUS
  <2>1. receipt.seq + 1 \in 1..Len(c.verdicts) /\ "refused" \in Verdicts
    BY <1>4 DEF Prefixed, Verdicts
  <2>2. d.verdicts = [c.verdicts EXCEPT ![receipt.seq + 1] = "refused"]
    BY <1>1, <1>3
  <2> QED
    BY <1>4, <2>1, <2>2, ExceptSeq, LenProperties
<1>7. \A r \in d.admissions : r.seq \in 0..(d.readCursor - 1)
  BY <1>1, <1>3 DEF Prefixed
<1>8. d.refusal => d.diverged
  BY <1>1, <1>3 DEF Prefixed
<1>9. Enabled(d) => Enabled(c) /\ Enabled(base) /\ IsRecord(d.options.source)
  BY <1>1, <1>3 DEF Prefixed, Enabled
<1>10. ASSUME Enabled(d), ~d.diverged, NEW p \in 1..d.readCursor
       PROVE  d.verdicts[p] \in {"replayed", "retried"} \/ \A i : AgentRow(d.options.source, i) => d.options.source[i].seq < p
  BY <1>1, <1>3, <1>5, <1>9, <1>10 DEF Prefixed
<1>11. Prefixed(d)
  BY <1>1, <1>3, <1>4, <1>5, <1>6, <1>7, <1>8, <1>9, <1>10 DEF Prefixed
<1> QED
  BY <1>1, <1>3, <1>5, <1>6, <1>11 DEF d

LEMMA ReadsValue ==
  ASSUME NEW c, Prefixed(c)
  PROVE  Prefixed(AfterValue(c)) /\ AfterValue(c).options = c.options /\ AfterValue(c).verdicts = c.verdicts
<1> DEFINE d == AfterValue(c)
<1>1. PICK base : /\ d = [base EXCEPT !.clock = @ + 1]
                  /\ Prefixed(base) /\ base.options = c.options /\ base.verdicts = c.verdicts
  BY Refuses DEF AfterValue
<1>2. DOMAIN base = ControllerFields
  BY <1>1 DEF Prefixed
<1> HIDE DEF d
<1>3. /\ DOMAIN d = ControllerFields /\ d.options = base.options /\ d.readCursor = base.readCursor
      /\ d.diverged = base.diverged /\ d.refusal = base.refusal
      /\ d.verdicts = base.verdicts /\ d.admissions = base.admissions
  BY <1>1, <1>2 DEF ControllerFields
<1>4. Prefixed(d)
  BY <1>1, <1>3 DEF Prefixed, Enabled
<1> QED
  BY <1>1, <1>3, <1>4 DEF d

-----------------------------------------------------------------------------
(* The steps of a run.                                                     *)

\* What a step leaves of the record: nothing else, or one row more.
RowStands(row) == row.kind = "agent" => row.seq \in Nat /\ (row.ok => <<row.key, row.value>> \in executed)

Recording == record' = record \/ \E row : record' = Append(record, row) /\ RowStands(row)

LEMMA RowAppended == ASSUME NEW row, RowStands(row), AppendRow(row) PROVE Recording
BY DEF AppendRow, Recording

LEMMA RecordSteps == ASSUME ResumeInv, Recording, UNCHANGED executed PROVE IsRecord(record') /\ RowsEarned(record)'
<1>1. CASE record' = record
  BY <1>1 DEF ResumeInv, RowsEarned
<1>2. ASSUME NEW row, record' = Append(record, row), RowStands(row) PROVE IsRecord(record') /\ RowsEarned(record)'
  <2>1. IsRecord(record')
    BY <1>2, RecordGrows DEF ResumeInv, RowStands
  <2>2. /\ DOMAIN record' = DOMAIN record \cup {Len(record) + 1} /\ record'[Len(record) + 1] = row
        /\ \A i \in DOMAIN record : record'[i] = record[i]
    BY <1>2, Appended DEF ResumeInv, IsRecord
  <2>3. \A i : AgentRow(record', i) => (AgentRow(record, i) /\ record'[i] = record[i]) \/ (record'[i] = row /\ row.kind = "agent")
    BY <2>2 DEF AgentRow
  <2>4. ASSUME NEW i, AgentRow(record', i), record'[i].ok PROVE <<record'[i].key, record'[i].value>> \in executed
    BY <1>2, <2>3, <2>4 DEF ResumeInv, RowsEarned, RowStands
  <2> QED
    BY <2>1, <2>4 DEF RowsEarned
<1> QED
  BY <1>1, <1>2 DEF Recording

\* One branch opens, moves or leaves a call.
LEMMA BranchMoves ==
  ASSUME ResumeInv, NEW b \in Branches, NEW c, doing' = [doing EXCEPT ![b] = c], c = None \/ CallEarned(c)',
         UNCHANGED script, executed \subseteq executed', IsRecord(record'), RowsEarned(record)',
         Prefixed(replayer'), replayer'.options = replayer.options
  PROVE  ResumeInv'
<1>1. IsRecord(record)' /\ RowsEarned(record)'
  OBVIOUS
<1>2. Enabled(replayer)' => RowsEarned(replayer.options.source)'
  BY DEF ResumeInv, Enabled, RowsEarned
<1>3. Branches' = Branches /\ DOMAIN doing' = Branches
  BY DEF ResumeInv, Branches
<1>4. ASSUME NEW d \in Branches, doing'[d] # None PROVE CallEarned(doing[d])'
  <2>1. doing'[d] = IF d = b THEN c ELSE doing[d]
    BY DEF ResumeInv
  <2> QED
    BY <1>4, <2>1 DEF ResumeInv, CallEarned
<1>5. Prefixed(replayer)'
  OBVIOUS
<1> QED
  BY <1>1, <1>2, <1>3, <1>4, <1>5 DEF ResumeInv

LEMMA BranchSteps ==
  ASSUME ResumeInv, NEW b \in Branches, NEW c, doing' = [doing EXCEPT ![b] = c], c = None \/ CallEarned(c),
         UNCHANGED <<script, executed>>, Recording, Prefixed(replayer'), replayer'.options = replayer.options
  PROVE  ResumeInv'
<1>1. c = None \/ CallEarned(c)'
  BY DEF CallEarned
<1>2. IsRecord(record') /\ RowsEarned(record)'
  BY RecordSteps
<1> QED
  BY <1>1, <1>2, BranchMoves

\* A physical attempt is refused, or queued as it is.
LEMMA Queued ==
  ASSUME NEW b, NEW c, DOMAIN c = CallFields, c.outcome # "answer", Queue(b, c)
  PROVE  \E d : doing' = [doing EXCEPT ![b] = d] /\ CallEarned(d)
<1> DEFINE refused == [c EXCEPT !.stage = "answered", !.outcome = "thrown"]
           queued == [c EXCEPT !.stage = "queued"]
<1>1. CallEarned(refused) /\ CallEarned(queued)
  BY DEF CallEarned, CallFields
<1> QED
  BY <1>1 DEF Queue

\* A replayed attempt is refused, or answered with what its receipt says.
LEMMA Replayed ==
  ASSUME NEW b, NEW c, DOMAIN c = CallFields, <<c.receipt.key, c.text>> \in executed, Replay(b, c)
  PROVE  \E d : doing' = [doing EXCEPT ![b] = d] /\ CallEarned(d)
<1> DEFINE thrown == [c EXCEPT !.stage = "answered", !.outcome = "thrown"]
           answered == [c EXCEPT !.stage = "answered", !.outcome = "answer"]
<1>1. CallEarned(thrown) /\ CallEarned(answered)
  BY DEF CallEarned, CallFields
<1> QED
  BY <1>1 DEF Replay

LEMMA AttemptRecorded ==
  ASSUME ResumeInv, NEW receipt, NEW good \in BOOLEAN, NEW text, good => <<receipt.key, text>> \in executed,
         RecordAgentAttempt(receipt, good, text)
  PROVE  Recording /\ Prefixed(replayer') /\ replayer'.options = replayer.options
                   /\ DOMAIN replayer'.verdicts = DOMAIN replayer.verdicts
<1>1. /\ receipt \in replayer.admissions /\ replayer' = Settled(replayer, receipt, good)
      /\ receipt.seq \in Nat
  BY DEF RecordAgentAttempt, ResumeInv, Prefixed
<1>2. Prefixed(replayer') /\ replayer'.options = replayer.options /\ DOMAIN replayer'.verdicts = DOMAIN replayer.verdicts
  BY <1>1, Settles DEF ResumeInv
<1>3. Recording
  <2> DEFINE row == [kind |-> "agent", seq |-> receipt.seq, node |-> receipt.node, key |-> receipt.key,
                     ok |-> good, value |-> IF good THEN text ELSE None]
  <2>1. RowStands(row)
    BY <1>1 DEF RowStands
  <2> HIDE DEF row
  <2>2. AppendRow(row)
    BY DEF RecordAgentAttempt, row
  <2> QED
    BY <2>1, <2>2, RowAppended
<1> QED
  BY <1>2, <1>3

LEMMA AdmitSteps == ASSUME ResumeInv, NEW b \in Branches, Admit(b) PROVE ResumeInv'
<1> DEFINE call == Call(b)
           verdict == Verdict(replayer, call)
           after == Admitted(replayer, call)
           receipt == [seq |-> replayer.readCursor, node |-> call.node, key |-> call.key, replayed |-> verdict = "replayed"]
<1>1. Prefixed(replayer) /\ UNCHANGED <<script, executed>>
  BY DEF ResumeInv, Admit
<1>2. Prefixed(after) /\ after.options = replayer.options
  BY <1>1, Admits
<1>3. CASE Throws(b) /\ UNCHANGED replayVars
  BY <1>1, <1>3, BranchSteps DEF Throws, replayVars, Recording
<1>4. CASE replayer' = after /\ Throws(b) /\ UNCHANGED record
  BY <1>1, <1>2, <1>4, BranchSteps DEF Throws, Recording
<1>5. CASE /\ verdict # "replayed" /\ replayer' = Settled(after, receipt, FALSE) /\ Throws(b)
           /\ AppendRow([kind |-> "agent", seq |-> receipt.seq, node |-> receipt.node,
                         key |-> receipt.key, ok |-> FALSE, value |-> None])
  <2>1. ~receipt.replayed /\ receipt.seq \in Nat
    BY <1>1, <1>5 DEF Prefixed
  <2>2. Recording
    <3> DEFINE row == [kind |-> "agent", seq |-> receipt.seq, node |-> receipt.node,
                       key |-> receipt.key, ok |-> FALSE, value |-> None]
    <3>1. RowStands(row)
      BY <2>1 DEF RowStands
    <3>2. AppendRow(row)
      BY <1>5
    <3> HIDE DEF row
    <3> QED
      BY <3>1, <3>2, RowAppended
  <2> HIDE DEF receipt, after
  <2>3. Prefixed(replayer') /\ replayer'.options = replayer.options
    BY <1>2, <1>5, <2>1, Settles
  <2> QED
    BY <1>1, <1>5, <2>2, <2>3, BranchSteps DEF Throws
<1>6. ASSUME NEW stage, NEW text
      PROVE  DOMAIN Open(receipt, stage, None, text) = CallFields /\ Open(receipt, stage, None, text).outcome = None
             /\ Open(receipt, stage, None, text).receipt.key = call.key /\ Open(receipt, stage, None, text).text = text
  BY DEF Open, CallFields
<1>7. verdict = "replayed" => <<call.key, RecordedText(replayer)>> \in executed
  <2> SUFFICES ASSUME verdict = "replayed" PROVE <<call.key, RecordedText(replayer)>> \in executed
    OBVIOUS
  <2>1. PICK i : /\ AgentRow(replayer.options.source, i) /\ replayer.options.source[i].ok
                 /\ replayer.options.source[i].key = call.key /\ RecordedText(replayer) = replayer.options.source[i].value
    BY <1>1, ReuseIsPrefixed
  <2>2. RowsEarned(replayer.options.source)
    BY <1>1, ReuseIsPrefixed DEF ResumeInv
  <2> QED
    BY <2>1, <2>2 DEF RowsEarned
<1> DEFINE waiting == Open(receipt, "revalidating", None, RecordedText(replayer))
           reused == Open(receipt, "", None, RecordedText(replayer))
           fresh == Open(receipt, "", None, None)
<1>8. CASE /\ replayer' = after /\ UNCHANGED record
           /\ \/ verdict = "replayed" /\ doing' = [doing EXCEPT ![b] = waiting]
              \/ verdict = "replayed" /\ Replay(b, reused)
              \/ Queue(b, fresh)
  <2>1. /\ DOMAIN waiting = CallFields /\ waiting.receipt.key = call.key /\ waiting.text = RecordedText(replayer)
        /\ DOMAIN reused = CallFields /\ reused.receipt.key = call.key /\ reused.text = RecordedText(replayer)
        /\ DOMAIN fresh = CallFields /\ fresh.outcome = None
    <3> HIDE DEF receipt, call
    <3> QED
      BY <1>6
  <2>2. fresh.outcome # "answer"
    BY <2>1, ResumeAssumption
  <2> HIDE DEF waiting, reused, fresh, receipt, verdict, after, call
  <2>3. \E d : doing' = [doing EXCEPT ![b] = d] /\ CallEarned(d)
    BY <1>7, <1>8, <2>1, <2>2, Queued, Replayed DEF CallEarned
  <2> QED
    BY <1>1, <1>2, <1>8, <2>3, BranchSteps DEF Recording
<1> HIDE DEF waiting, reused, fresh
<1> QED
  BY <1>3, <1>4, <1>5, <1>8 DEF Admit, waiting, reused, fresh

LEMMA RevalidateSteps == ASSUME ResumeInv, NEW b \in Branches, Revalidate(b) PROVE ResumeInv'
<1> DEFINE c == [doing[b] EXCEPT !.call = calls + 1]
<1>1. /\ doing[b] # None /\ doing[b].stage = "revalidating" /\ UNCHANGED <<script, executed>> /\ CallEarned(doing[b])
      /\ Prefixed(replayer)
  BY DEF Revalidate, Awaits, ResumeInv
<1>2. CASE Replay(b, c) /\ UNCHANGED <<replayer, record>>
  <2>1. DOMAIN c = CallFields /\ <<c.receipt.key, c.text>> \in executed
    BY <1>1 DEF CallEarned, CallFields
  <2> HIDE DEF c
  <2>2. \E d : doing' = [doing EXCEPT ![b] = d] /\ CallEarned(d)
    BY <1>2, <2>1, Replayed
  <2> QED
    BY <1>1, <1>2, <2>2, BranchSteps DEF Recording
<1>3. CASE RecordAgentAttempt(doing[b].receipt, FALSE, None) /\ Throws(b)
  BY <1>1, <1>3, AttemptRecorded, BranchSteps DEF Throws
<1> QED
  BY <1>2, <1>3 DEF Revalidate

LEMMA StartSteps == ASSUME ResumeInv, NEW b \in Branches, Start(b) PROVE ResumeInv'
<1> DEFINE thrown == [doing[b] EXCEPT !.stage = "answered", !.outcome = "thrown"]
           started == [doing[b] EXCEPT !.stage = "running"]
<1>1. /\ doing[b] # None /\ UNCHANGED <<script, executed, replayer, record>> /\ CallEarned(doing[b])
      /\ Prefixed(replayer) /\ b \in DOMAIN doing
  BY DEF Start, Awaits, ResumeInv
<1>2. CallEarned(thrown) /\ CallEarned(started)
  BY <1>1 DEF CallEarned, CallFields
<1>3. doing' = [doing EXCEPT ![b] = thrown] \/ doing' = [doing EXCEPT ![b] = started]
  BY <1>1 DEF Start
<1> QED
  BY <1>1, <1>2, <1>3, BranchSteps DEF Recording

LEMMA FinishSteps == ASSUME ResumeInv, NEW b \in Branches, Finish(b) PROVE ResumeInv'
<1>1. /\ doing[b] # None /\ UNCHANGED <<script, replayer, record>> /\ CallEarned(doing[b]) /\ Prefixed(replayer)
      /\ b \in DOMAIN doing /\ IsRecord(record') /\ RowsEarned(record)
  BY DEF Finish, Awaits, ResumeInv
<1>2. ASSUME NEW text, executed' = executed \cup {<<doing[b].receipt.key, text>>},
             doing' = [doing EXCEPT ![b].stage = "answered", ![b].outcome = "answer", ![b].text = text]
      PROVE  ResumeInv'
  <2>1. PICK c : c = [doing[b] EXCEPT !.stage = "answered", !.outcome = "answer", !.text = text]
    OBVIOUS
  <2>2. doing' = [doing EXCEPT ![b] = c] /\ DOMAIN c = CallFields /\ c.receipt = doing[b].receipt /\ c.text = text
    BY <1>1, <1>2, <2>1 DEF CallEarned, CallFields
  <2>3. CallEarned(c)'
    BY <1>2, <2>2 DEF CallEarned
  <2>4. RowsEarned(record)'
    BY <1>1, <1>2 DEF RowsEarned
  <2> QED
    BY <1>1, <1>2, <2>2, <2>3, <2>4, BranchMoves
<1>3. ASSUME NEW outcome, outcome # "answer", UNCHANGED executed,
             doing' = [doing EXCEPT ![b].stage = "answered", ![b].outcome = outcome]
      PROVE  ResumeInv'
  <2> DEFINE c == [doing[b] EXCEPT !.stage = "answered", !.outcome = outcome]
  <2>1. CallEarned(c)
    BY <1>1, <1>3 DEF CallEarned, CallFields
  <2>2. doing' = [doing EXCEPT ![b] = c]
    BY <1>1, <1>3
  <2> QED
    BY <1>1, <1>3, <2>1, <2>2, BranchSteps DEF Recording
<1> QED
  BY <1>2, <1>3 DEF Finish

LEMMA SettleSteps == ASSUME ResumeInv, NEW b \in Branches, Settle(b) PROVE ResumeInv'
<1> DEFINE c == [doing[b] EXCEPT !.call = calls + 1, !.attempt = @ + 1]
<1>1. /\ doing[b] # None /\ UNCHANGED <<script, executed>> /\ CallEarned(doing[b]) /\ Prefixed(replayer)
  BY DEF Settle, Awaits, ResumeInv
<1>2. CASE Retries(b)
  <2>1. Queue(b, c) /\ UNCHANGED <<replayer, record>>
    BY <1>2 DEF Settle
  <2>2. DOMAIN c = CallFields /\ c.outcome # "answer"
    BY <1>1, <1>2 DEF CallEarned, CallFields, Retries
  <2> HIDE DEF c
  <2>3. \E d : doing' = [doing EXCEPT ![b] = d] /\ CallEarned(d)
    BY <2>1, <2>2, Queued
  <2> QED
    BY <1>1, <2>1, <2>3, BranchSteps DEF Recording
<1>3. CASE ~Retries(b)
  <2>1. /\ RecordAgentAttempt(doing[b].receipt, doing[b].outcome = "answer", doing[b].text)
        /\ doing' = [doing EXCEPT ![b] = None]
    BY <1>3 DEF Settle, Returns, Throws
  <2>2. doing[b].outcome = "answer" => <<doing[b].receipt.key, doing[b].text>> \in executed
    BY <1>1 DEF CallEarned
  <2>3. Recording /\ Prefixed(replayer') /\ replayer'.options = replayer.options
    BY <2>1, <2>2, AttemptRecorded
  <2> QED
    BY <1>1, <2>1, <2>3, BranchSteps
<1> QED
  BY <1>2, <1>3

LEMMA ReadClockSteps == ASSUME ResumeInv, NEW b \in Branches, ReadClock(b) PROVE ResumeInv'
<1>1. /\ UNCHANGED <<script, executed>> /\ Prefixed(replayer) /\ doing' = [doing EXCEPT ![b] = None]
      /\ replayer' \in {replayer, AfterValue(replayer)}
  BY DEF ReadClock, ResumeInv, Returns, Throws, replayVars
<1>2. Prefixed(replayer') /\ replayer'.options = replayer.options
  BY <1>1, ReadsValue
<1>3. Recording
  <2>1. ASSUME NEW time, AppendRow([kind |-> "clock", seq |-> replayer.clock, node |-> None, key |-> None,
                                     ok |-> TRUE, value |-> time])
        PROVE  Recording
    <3> DEFINE row == [kind |-> "clock", seq |-> replayer.clock, node |-> None, key |-> None, ok |-> TRUE, value |-> time]
    <3>1. RowStands(row)
      BY DEF RowStands
    <3> HIDE DEF row
    <3> QED
      BY <2>1, <3>1, RowAppended DEF row
  <2>2. record' = record => Recording
    BY DEF Recording
  <2> QED
    BY <2>1, <2>2 DEF ReadClock, replayVars
<1> QED
  BY <1>1, <1>2, <1>3, BranchSteps

\* The deadline, the end of a run and a crash leave calls and rows alone.
LEMMA RunSteps == ASSUME ResumeInv, UNCHANGED <<replayVars, callVars, script>> PROVE ResumeInv'
BY DEF ResumeInv, RowsEarned, CallEarned, Branches, replayVars, callVars

LEMMA EmptyRecord == IsRecord(<<>>) /\ RowsEarned(<<>>)
<1>1. <<>> \in Seq(Range(<<>>)) /\ DOMAIN <<>> = {}
  BY EmptySeq, LenProperties
<1>2. \A i : ~AgentRow(<<>>, i)
  BY <1>1 DEF AgentRow
<1> QED
  BY <1>1, <1>2 DEF IsRecord, RowsEarned

LEMMA NewControllerPrefixed ==
  ASSUME NEW options, options.source # None => IsRecord(options.source)
  PROVE  Prefixed(NewController(options)) /\ NewController(options).options = options
<1> DEFINE c == NewController(options)
<1>1. /\ DOMAIN c = ControllerFields /\ c.options = options /\ c.readCursor = 0 /\ c.verdicts = <<>>
      /\ c.admissions = {} /\ c.refusal = FALSE
  BY DEF NewController, ControllerFields
<1>2. c.verdicts \in Seq(Verdicts) /\ Len(c.verdicts) = c.readCursor
  BY <1>1, EmptySeq
<1> HIDE DEF c
<1>3. Prefixed(c)
  BY <1>1, <1>2 DEF Prefixed, Enabled
<1> QED
  BY <1>1, <1>3 DEF c

LEMMA ResumeSteps == ASSUME ResumeInv, NEW s \in Scripts, Resume(s) PROVE ResumeInv'
<1>1. PICK options : /\ Begin(s, options) /\ UNCHANGED executed
                     /\ options.source = None \/ options.source = record
  BY DEF Resume, Options
<1>2. /\ script' = s /\ replayer' = NewController(options) /\ record' = <<>>
      /\ doing' = [b \in DOMAIN s.branches |-> None]
  BY <1>1 DEF Begin
<1>3. Prefixed(replayer') /\ replayer'.options = options
  BY <1>1, <1>2, NewControllerPrefixed DEF ResumeInv
<1>4. IsRecord(record') /\ RowsEarned(record)'
  BY <1>1, <1>2, EmptyRecord DEF RowsEarned
<1>5. Enabled(replayer)' => RowsEarned(replayer.options.source)'
  BY <1>1, <1>3 DEF ResumeInv, Enabled, RowsEarned
<1>6. DOMAIN doing' = Branches' /\ \A b \in Branches' : doing'[b] = None
  BY <1>2 DEF Branches
<1> QED
  BY <1>3, <1>4, <1>5, <1>6 DEF ResumeInv

LEMMA ResumeStarts == Init => ResumeInv
<1> SUFFICES ASSUME Init PROVE ResumeInv
  OBVIOUS
<1> DEFINE options == Options(None, FALSE, FALSE, None)
<1>1. /\ replayer = NewController(options) /\ record = <<>> /\ doing = [b \in Branches |-> None]
      /\ options.source = None
  BY DEF Init, Options
<1> HIDE DEF options
<1>2. Prefixed(replayer) /\ ~Enabled(replayer)
  BY <1>1, NewControllerPrefixed DEF Enabled
<1> QED
  BY <1>1, <1>2, EmptyRecord DEF ResumeInv

LEMMA ResumeNext == ResumeInv /\ [Next]_vars => ResumeInv'
<1> SUFFICES ASSUME ResumeInv, [Next]_vars PROVE ResumeInv'
  OBVIOUS
<1>1. ASSUME NEW b \in Branches, Admit(b) \/ Revalidate(b) \/ Start(b) \/ Finish(b) \/ Settle(b) \/ ReadClock(b)
      PROVE  ResumeInv'
  BY <1>1, AdmitSteps, RevalidateSteps, StartSteps, FinishSteps, SettleSteps, ReadClockSteps
<1>2. CASE StopRun \/ EndRun \/ Crash \/ UNCHANGED vars
  BY <1>2, RunSteps DEF StopRun, EndRun, Crash, vars
<1> QED
  BY <1>1, <1>2, ResumeSteps DEF Next

LEMMA ResumeInvariant == Spec => []ResumeInv
BY ResumeStarts, ResumeNext, PTL DEF Spec

\* An answer that is kept for the next resume, or handed to the script, is one
\* that a child of the chain gave to that very request (workflow-replay.ts).
THEOREM NoAnswerOfAnother == Spec => []AnswersEarned
<1>1. ResumeInv => AnswersEarned
  BY DEF ResumeInv, RowsEarned, AgentRow, CallEarned, AnswersEarned, AgentRows, Rows
<1> QED
  BY <1>1, ResumeInvariant, PTL

\* Only an admission adds a verdict.
LEMMA OnlyAdmissionJudges ==
  ASSUME ResumeInv, Next, run' = run, NEW o \in DOMAIN replayer'.verdicts \ DOMAIN replayer.verdicts,
         replayer'.verdicts[o] = "replayed"
  PROVE  \E call : o = replayer.readCursor + 1 /\ Verdict(replayer, call) = "replayed"
<1>1. Prefixed(replayer) /\ ~UNCHANGED replayer
  BY DEF ResumeInv
<1>2. /\ replayer.readCursor \in Nat /\ replayer.verdicts \in Seq(Verdicts)
      /\ Len(replayer.verdicts) = replayer.readCursor /\ DOMAIN replayer.verdicts = 1..replayer.readCursor
  BY <1>1, LenProperties DEF Prefixed
<1>3. ~(StopRun \/ EndRun \/ Crash)
  BY <1>1 DEF StopRun, EndRun, Crash, replayVars
<1>4. ASSUME NEW s \in Scripts PROVE ~Resume(s)
  <2>1. ASSUME NEW options, replayer' = NewController(options) PROVE FALSE
    <3>1. replayer'.verdicts = <<>>
      BY <2>1 DEF NewController
    <3> QED
      BY <3>1
  <2> QED
    BY <2>1 DEF Resume, Begin
<1>5. ASSUME NEW b \in Branches PROVE ~(Start(b) \/ Finish(b))
  BY <1>1 DEF Start, Finish
<1>6. ASSUME NEW b \in Branches PROVE ~ReadClock(b)
  BY <1>1, ReadsValue DEF ReadClock, replayVars
<1>7. ASSUME NEW b \in Branches PROVE ~(Revalidate(b) \/ Settle(b))
  <2>1. ASSUME NEW receipt, NEW good \in BOOLEAN, NEW text, RecordAgentAttempt(receipt, good, text) PROVE FALSE
    BY <1>1, <2>1, Settles DEF RecordAgentAttempt
  <2> QED
    BY <1>1, <2>1 DEF Revalidate, Settle
<1>8. PICK b \in Branches : Admit(b)
  BY <1>3, <1>4, <1>5, <1>6, <1>7 DEF Next
<1> DEFINE call == Call(b)
           verdict == Verdict(replayer, call)
           after == Admitted(replayer, call)
           receipt == [seq |-> replayer.readCursor, node |-> call.node, key |-> call.key, replayed |-> verdict = "replayed"]
<1>9. replayer' = after \/ (verdict # "replayed" /\ replayer' = Settled(after, receipt, FALSE))
  BY <1>1, <1>8 DEF Admit, replayVars
<1>10. Prefixed(after) /\ after.verdicts = Append(replayer.verdicts, verdict)
  BY <1>1, Admits
<1>11. replayer'.verdicts = after.verdicts
  <2>1. CASE verdict # "replayed" /\ replayer' = Settled(after, receipt, FALSE)
    <3>1. ~receipt.replayed
      BY <2>1
    <3> HIDE DEF after, receipt
    <3> QED
      BY <1>10, <2>1, <3>1, Settles
  <2> QED
    BY <1>9, <2>1
<1>12. verdict \in Verdicts
  BY <1>1, VerdictGiven DEF Verdicts
<1> HIDE DEF verdict, after
<1>13. o = replayer.readCursor + 1 /\ verdict = "replayed"
  <2>1. /\ replayer'.verdicts \in Seq(Verdicts) /\ Len(replayer'.verdicts) = replayer.readCursor + 1
        /\ replayer'.verdicts[replayer.readCursor + 1] = verdict
    BY <1>2, <1>10, <1>11, <1>12, AppendProperties
  <2>2. DOMAIN replayer'.verdicts = 1..(replayer.readCursor + 1)
    BY <2>1, LenProperties
  <2> QED
    BY <1>2, <2>1, <2>2
<1> QED
  BY <1>13 DEF verdict

\* A call is answered from the record only behind calls that all were, or that
\* a typed replay may run again (createWorkflowReplayController).
THEOREM ReplayIsAPrefix == Spec => StrictPrefix
<1> DEFINE strict == \A o \in DOMAIN replayer'.verdicts \ DOMAIN replayer.verdicts :
              run' = run /\ replayer'.verdicts[o] = "replayed" =>
                 \A p \in DOMAIN replayer.verdicts : replayer.verdicts[p] \in {"replayed", "retried"}
<1>1. ASSUME ResumeInv, Next, run' = run, NEW o \in DOMAIN replayer'.verdicts \ DOMAIN replayer.verdicts,
             replayer'.verdicts[o] = "replayed", NEW p \in DOMAIN replayer.verdicts
      PROVE  replayer.verdicts[p] \in {"replayed", "retried"}
  <2>1. Prefixed(replayer) /\ replayer.verdicts \in Seq(Verdicts) /\ Len(replayer.verdicts) = replayer.readCursor
    BY <1>1 DEF ResumeInv, Prefixed
  <2>2. PICK call : Verdict(replayer, call) = "replayed"
    BY <1>1, OnlyAdmissionJudges
  <2>3. p \in 1..replayer.readCursor
    BY <1>1, <2>1, LenProperties
  <2> QED
    BY <2>1, <2>2, <2>3, ReuseIsPrefixed
<1>2. ResumeInv /\ [Next]_vars => [strict]_vars
  BY <1>1
<1> QED
  BY <1>2, ResumeInvariant, PTL DEF Spec, StrictPrefix

-----------------------------------------------------------------------------
(***************************************************************************)
(* The state of a chain: every open call is an open receipt and the other   *)
(* way round, the counts are those of the verdicts, and a typed replay      *)
(* serves each recorded call as what it was.                               *)
(***************************************************************************)
ChainTypes ==
    /\ phase \in {"running", "ended", "crashed"} /\ script \in Scripts /\ run \in 1..script.runs
    /\ losses \in Nat /\ calls \in Nat
    /\ at \in [Branches -> Nat] /\ saw \in [Branches -> Values] /\ occurrences \in [Labels -> Nat]
    /\ doing \in [Branches -> {None} \cup OpenCalls]
    /\ record \in Seq(RecordRows)
    /\ Enabled(replayer) => replayer.options.source \in Seq(RecordRows)

Got(c, set) == {p \in DOMAIN c.verdicts : c.verdicts[p] \in set}

\* The counts are those of the verdicts; an ordinal has one receipt, which says what it got.
Counted(c) ==
    /\ c.clock \in Nat
    /\ c.replayed = Cardinality(Got(c, {"replayed"})) /\ c.fresh = Cardinality(Got(c, {"fresh", "retried"}))
    /\ \A a \in c.admissions :
          a \in Receipts /\ c.verdicts[a.seq + 1] \in (IF a.replayed THEN {"replayed"} ELSE {"fresh", "retried"})
    /\ \A a, d \in c.admissions : a.seq = d.seq => a = d

\* A typed replay serves what succeeded, repeats what failed, and adds only past the record.
TypedStands(c) ==
    Typed(c) =>
       /\ Enabled(c) /\ ~c.options.prefix
       /\ c.diverged => c.refusal
       /\ \A i \in Rows(c.options.source, "agent") : \A p \in 1..c.readCursor :
             c.options.source[i].seq = p - 1 =>
                /\ c.verdicts[p] = "replayed" => c.options.source[i].ok
                /\ c.verdicts[p] = "retried" => ~c.options.source[i].ok
                /\ c.verdicts[p] # "fresh"
       /\ ~c.refusal => \A p \in 1..c.readCursor : c.verdicts[p] \in {"replayed", "retried", "fresh"}

\* A replayed call has no child.
Childless(c) == c.receipt.replayed => c.stage \in {"revalidating", "answered"} /\ c.outcome # "timeout"

Linked ==
    /\ \A b \in Branches : doing[b] # None => doing[b].receipt \in replayer.admissions /\ Childless(doing[b])
    /\ \A a \in replayer.admissions : \E b \in Branches : doing[b] # None /\ doing[b].receipt = a
    /\ \A b, d \in Branches : doing[b] # None /\ doing[d] # None /\ doing[b].receipt = doing[d].receipt => b = d

\* A run that succeeded was served everything.
Served == ok \in BOOLEAN /\ (ok => phase = "ended" /\ Complete(replayer))

ChainInv == ChainTypes /\ Counted(replayer) /\ TypedStands(replayer) /\ Linked /\ Served

\* What is queued or replayed: its stage is not set yet.
Attempts == [receipt : Receipts, stage : {"", "revalidating", "queued", "running", "answered"}, call : Nat, attempt : Nat,
             outcome : {None, "answer", "failed", "timeout", "thrown"}, text : Values]

LEMMA Losses == ASSUME losses \in Nat, NEW lines, Emit(lines) PROVE losses' \in Nat
BY DEF Emit

LEMMA RowTyped ==
  ASSUME ChainTypes, NEW row \in RecordRows, AppendRow(row)
  PROVE  record' \in Seq(RecordRows) /\ losses' \in Nat
<1>1. Append(record, row) \in Seq(RecordRows)
  BY AppendProperties DEF ChainTypes
<1>2. losses \in Nat /\ record \in Seq(RecordRows)
  BY DEF ChainTypes
<1>3. \/ record' = Append(record, row) /\ losses' = losses
      \/ losses > 0 /\ losses' = losses - 1 /\ record' = record
  BY DEF AppendRow
<1> QED
  BY <1>1, <1>2, <1>3

\* The branches of a script are sequences, and its calls are calls.
LEMMA BranchesFinite ==
  ASSUME ChainTypes
  PROVE  /\ IsFiniteSet(Branches) /\ Branches \subseteq Nat
         /\ \A b \in Branches : /\ DOMAIN script.branches[b] = 1..Len(script.branches[b])
                                /\ Len(script.branches[b]) \in Nat
<1>1. PICK S : script.branches \in Seq(Seq(S))
  BY ResumeAssumption DEF ChainTypes
<1>2. Branches = 1..Len(script.branches) /\ Len(script.branches) \in Nat
  BY <1>1, LenProperties DEF Branches
<1>3. IsFiniteSet(Branches) /\ Branches \subseteq Nat
  BY <1>2, FS_Interval
<1>4. ASSUME NEW b \in Branches PROVE script.branches[b] \in Seq(S)
  BY <1>1, <1>2, ElementOfSeq
<1> QED
  BY <1>3, <1>4, LenProperties

LEMMA CallTyped ==
  ASSUME ChainTypes, NEW b \in Branches, ~Done(b), Step(b).kind = "call"
  PROVE  /\ Call(b).key \in Keys /\ Call(b).node \in Nodes
         /\ Call(b).node # None => Call(b).node[1] \in Labels
<1>1. at[b] \in DOMAIN script.branches[b]
  BY BranchesFinite DEF ChainTypes, Done
<1>2. Step(b) \in Calls
  <2>1. Step(b) \in Range(script.branches[b])
    BY <1>1 DEF Step, Range
  <2>2. script.branches[b] \in Range(script.branches)
    BY DEF Range, Branches
  <2>3. script.branches[b] \in UNION {Range(s.branches) : s \in Scripts}
    BY <2>2 DEF ChainTypes
  <2> QED
    BY <2>1, <2>3 DEF Calls
<1> DEFINE st == Step(b)
<1>3. saw[b] \in Values /\ None \in Values
  BY DEF ChainTypes, Values
<1>4. st.label # None => st.label \in Labels /\ occurrences[st.label] \in Nat
  BY <1>2 DEF Labels, ChainTypes
<1>5. /\ Call(b).key = <<st.prompt, st.label, IF st.quotes THEN saw[b] ELSE None>>
      /\ Call(b).node = IF st.label = None THEN None ELSE <<st.label, occurrences[st.label]>>
  BY DEF Call
<1> HIDE DEF st
<1>6. Call(b).key \in Keys
  <2>1. st.prompt \in {s.prompt : s \in Calls} /\ st.label \in {None} \cup Labels
    BY <1>2, <1>4 DEF st
  <2> QED
    BY <1>3, <1>5, <2>1 DEF Keys
<1>7. Call(b).node \in Nodes /\ (Call(b).node # None => Call(b).node[1] \in Labels)
  BY <1>4, <1>5 DEF Nodes
<1> QED
  BY <1>6, <1>7

\* One branch moves: what it is doing, where it is and what it saw.
LEMMA TypesMove ==
  ASSUME ChainTypes, NEW b \in Branches, NEW c \in {None} \cup OpenCalls, doing' = [doing EXCEPT ![b] = c],
         UNCHANGED <<script, run>>, phase' = phase, losses' \in Nat, calls' \in Nat,
         at' \in [Branches -> Nat], saw' \in [Branches -> Values], occurrences' \in [Labels -> Nat],
         record' \in Seq(RecordRows), replayer'.options = replayer.options
  PROVE  ChainTypes'
<1>1. Branches' = Branches
  BY DEF Branches
<1>2. doing' \in [Branches -> {None} \cup OpenCalls]
  BY DEF ChainTypes
<1> QED
  BY <1>1, <1>2 DEF ChainTypes, Enabled

LEMMA Leaves ==
  ASSUME ChainTypes, NEW b \in Branches, Throws(b) \/ \E value \in Values : Returns(b, value)
  PROVE  /\ at' \in [Branches -> Nat] /\ saw' \in [Branches -> Values]
         /\ doing' = [doing EXCEPT ![b] = None]
<1>1. at \in [Branches -> Nat] /\ saw \in [Branches -> Values] /\ None \in Values
  BY DEF ChainTypes, Values
<1>2. at' \in [Branches -> Nat]
  <2>1. \E n \in Nat : at' = [at EXCEPT ![b] = n]
    BY <1>1 DEF Throws, Returns
  <2> QED
    BY <1>1, <2>1
<1>3. saw' \in [Branches -> Values]
  <2>1. \E v \in Values : saw' = [saw EXCEPT ![b] = v]
    BY <1>1 DEF Throws, Returns
  <2> QED
    BY <1>1, <2>1
<1> QED
  BY <1>2, <1>3 DEF Throws, Returns

LEMMA RefuseFields ==
  ASSUME NEW c, DOMAIN c = ControllerFields, NEW o
  PROVE  LET d == Refuse(c, o)
         IN  /\ DOMAIN d = ControllerFields
             /\ d.options = c.options /\ d.readCursor = c.readCursor /\ d.clock = c.clock
             /\ d.replayed = c.replayed /\ d.fresh = c.fresh
             /\ d.verdicts = c.verdicts /\ d.admissions = c.admissions
             /\ d.diverged /\ (c.refusal \/ Typed(c) => d.refusal)
             /\ c.options.prefix /\ o < Extent(c.options.source) => d.refusal
BY DEF Refuse, ControllerFields

LEMMA AdmitFields ==
  ASSUME NEW c, DOMAIN c = ControllerFields, NEW call
  PROVE  LET d == Admitted(c, call)
             verdict == Verdict(c, call)
         IN  /\ DOMAIN d = ControllerFields
             /\ d.options = c.options /\ d.readCursor = c.readCursor + 1 /\ d.clock = c.clock
             /\ d.replayed = c.replayed + (IF verdict = "replayed" THEN 1 ELSE 0)
             /\ d.fresh = c.fresh + (IF verdict \in {"fresh", "retried"} THEN 1 ELSE 0)
             /\ d.verdicts = Append(c.verdicts, verdict)
             /\ d.admissions = (IF verdict = "throws" THEN c.admissions
                   ELSE c.admissions \cup {[seq |-> c.readCursor, node |-> call.node, key |-> call.key,
                                            replayed |-> verdict = "replayed"]})
             /\ \/ Lookup(c, call) # "miss" /\ d.diverged = c.diverged /\ d.refusal = c.refusal
                \/ /\ Lookup(c, call) = "miss" /\ d.diverged /\ (c.refusal \/ Typed(c) => d.refusal)
                   /\ c.options.prefix /\ c.readCursor < Extent(c.options.source) => d.refusal
<1> DEFINE base == IF Lookup(c, call) = "miss" THEN Refuse(c, c.readCursor) ELSE c
           d == Admitted(c, call)
           verdict == Verdict(c, call)
           receipt == [seq |-> c.readCursor, node |-> call.node, key |-> call.key, replayed |-> verdict = "replayed"]
<1>1. /\ DOMAIN base = ControllerFields
      /\ base.options = c.options /\ base.readCursor = c.readCursor /\ base.clock = c.clock
      /\ base.replayed = c.replayed /\ base.fresh = c.fresh
      /\ base.verdicts = c.verdicts /\ base.admissions = c.admissions
      /\ \/ Lookup(c, call) # "miss" /\ base = c
         \/ /\ Lookup(c, call) = "miss" /\ base.diverged /\ (c.refusal \/ Typed(c) => base.refusal)
            /\ c.options.prefix /\ c.readCursor < Extent(c.options.source) => base.refusal
  BY RefuseFields
<1>2. d = [base EXCEPT !.readCursor = @ + 1,
                       !.replayed = @ + (IF verdict = "replayed" THEN 1 ELSE 0),
                       !.fresh = @ + (IF verdict \in {"fresh", "retried"} THEN 1 ELSE 0),
                       !.verdicts = Append(@, verdict),
                       !.admissions = IF verdict = "throws" THEN @ ELSE @ \cup {receipt}]
  BY DEF Admitted
<1> HIDE DEF base, d, verdict, receipt
<1>3. /\ DOMAIN d = ControllerFields /\ d.options = base.options /\ d.readCursor = base.readCursor + 1
      /\ d.diverged = base.diverged /\ d.refusal = base.refusal /\ d.clock = base.clock
      /\ d.replayed = base.replayed + (IF verdict = "replayed" THEN 1 ELSE 0)
      /\ d.fresh = base.fresh + (IF verdict \in {"fresh", "retried"} THEN 1 ELSE 0)
      /\ d.verdicts = Append(base.verdicts, verdict)
      /\ d.admissions = IF verdict = "throws" THEN base.admissions ELSE base.admissions \cup {receipt}
  BY <1>1, <1>2 DEF ControllerFields
<1> QED
  BY <1>1, <1>3 DEF d, verdict, receipt

\* A replayed answer that could not be used.
TakesBack(receipt, good) == receipt.replayed /\ ~good

LEMMA SettleFields ==
  ASSUME NEW c, DOMAIN c = ControllerFields, NEW receipt, NEW good \in BOOLEAN
  PROVE  LET d == Settled(c, receipt, good)
             back == TakesBack(receipt, good)
         IN  /\ DOMAIN d = ControllerFields
             /\ d.options = c.options /\ d.readCursor = c.readCursor /\ d.clock = c.clock
             /\ d.replayed = (IF back THEN c.replayed - 1 ELSE c.replayed) /\ d.fresh = c.fresh
             /\ d.admissions = c.admissions \ {receipt}
             /\ DOMAIN d.verdicts = DOMAIN c.verdicts
             /\ \A p \in DOMAIN c.verdicts :
                   d.verdicts[p] = IF back /\ p = receipt.seq + 1 THEN "refused" ELSE c.verdicts[p]
             /\ \/ ~back /\ d.diverged = c.diverged /\ d.refusal = c.refusal
                \/ /\ back /\ d.diverged /\ (c.refusal \/ Typed(c) => d.refusal)
                   /\ c.options.prefix /\ receipt.seq < Extent(c.options.source) => d.refusal
<1> DEFINE back == TakesBack(receipt, good)
           base == IF back THEN Refuse(c, receipt.seq) ELSE c
           d == Settled(c, receipt, good)
<1>1. /\ DOMAIN base = ControllerFields
      /\ base.options = c.options /\ base.readCursor = c.readCursor /\ base.clock = c.clock
      /\ base.replayed = c.replayed /\ base.fresh = c.fresh
      /\ base.verdicts = c.verdicts /\ base.admissions = c.admissions
      /\ \/ ~back /\ base = c
         \/ /\ back /\ base.diverged /\ (c.refusal \/ Typed(c) => base.refusal)
            /\ c.options.prefix /\ receipt.seq < Extent(c.options.source) => base.refusal
  BY RefuseFields
<1>2. d = [base EXCEPT !.admissions = @ \ {receipt},
                       !.replayed = IF back THEN @ - 1 ELSE @,
                       !.verdicts[receipt.seq + 1] = IF back THEN "refused" ELSE @]
  BY DEF Settled, TakesBack
<1> HIDE DEF base, d, back
<1>3. /\ DOMAIN d = ControllerFields /\ d.options = base.options /\ d.readCursor = base.readCursor
      /\ d.diverged = base.diverged /\ d.refusal = base.refusal /\ d.clock = base.clock
      /\ d.replayed = (IF back THEN base.replayed - 1 ELSE base.replayed)
      /\ d.fresh = base.fresh
      /\ d.verdicts = [base.verdicts EXCEPT ![receipt.seq + 1] = IF back THEN "refused" ELSE @]
      /\ d.admissions = base.admissions \ {receipt}
  BY <1>1, <1>2 DEF ControllerFields
<1>4. DOMAIN d.verdicts = DOMAIN c.verdicts
  BY <1>1, <1>3
<1>5. ASSUME NEW p \in DOMAIN c.verdicts
      PROVE  d.verdicts[p] = IF back /\ p = receipt.seq + 1 THEN "refused" ELSE c.verdicts[p]
  BY <1>1, <1>3
<1> QED
  BY <1>1, <1>3, <1>4, <1>5 DEF d, back

LEMMA ValueFields ==
  ASSUME NEW c, DOMAIN c = ControllerFields
  PROVE  LET d == AfterValue(c)
         IN  /\ DOMAIN d = ControllerFields
             /\ d.options = c.options /\ d.readCursor = c.readCursor /\ d.clock = c.clock + 1
             /\ d.replayed = c.replayed /\ d.fresh = c.fresh
             /\ d.verdicts = c.verdicts /\ d.admissions = c.admissions
             /\ \/ d.diverged = c.diverged /\ d.refusal = c.refusal
                \/ /\ Enabled(c) /\ d.diverged /\ (c.refusal \/ Typed(c) => d.refusal)
                   /\ c.options.prefix /\ c.readCursor < Extent(c.options.source) => d.refusal
<1> DEFINE d == AfterValue(c)
<1>1. PICK base :
      /\ d = [base EXCEPT !.clock = @ + 1]
      /\ DOMAIN base = ControllerFields
      /\ base.options = c.options /\ base.readCursor = c.readCursor /\ base.clock = c.clock
      /\ base.replayed = c.replayed /\ base.fresh = c.fresh
      /\ base.verdicts = c.verdicts /\ base.admissions = c.admissions
      /\ \/ base = c
         \/ /\ Enabled(c) /\ base.diverged /\ (c.refusal \/ Typed(c) => base.refusal)
            /\ c.options.prefix /\ c.readCursor < Extent(c.options.source) => base.refusal
  BY RefuseFields DEF AfterValue
<1> HIDE DEF d
<1>2. /\ DOMAIN d = ControllerFields /\ d.options = base.options /\ d.readCursor = base.readCursor
      /\ d.diverged = base.diverged /\ d.refusal = base.refusal /\ d.clock = base.clock + 1
      /\ d.replayed = base.replayed /\ d.fresh = base.fresh
      /\ d.verdicts = base.verdicts /\ d.admissions = base.admissions
  BY <1>1 DEF ControllerFields
<1> QED
  BY <1>1, <1>2 DEF d

\* What is got is among finitely many ordinals.
LEMMA GotFinite ==
  ASSUME NEW c, Prefixed(c), NEW set
  PROVE  IsFiniteSet(Got(c, set)) /\ Cardinality(Got(c, set)) \in Nat
<1>1. Got(c, set) \subseteq 1..c.readCursor /\ c.readCursor \in Nat
  BY LenProperties DEF Got, Prefixed
<1>2. IsFiniteSet(1..c.readCursor)
  BY <1>1, FS_Interval
<1>3. IsFiniteSet(Got(c, set))
  BY <1>1, <1>2, FS_Subset
<1> QED
  BY <1>3, FS_CardinalityType

LEMMA GotAppended ==
  ASSUME NEW c, Prefixed(c), NEW d, NEW verdict \in Verdicts, d.verdicts = Append(c.verdicts, verdict), NEW set
  PROVE  Cardinality(Got(d, set)) = Cardinality(Got(c, set)) + (IF verdict \in set THEN 1 ELSE 0)
<1> DEFINE n == c.readCursor + 1
<1>1. c.verdicts \in Seq(Verdicts) /\ Len(c.verdicts) = c.readCursor /\ c.readCursor \in Nat
  BY DEF Prefixed
<1>2. /\ DOMAIN d.verdicts = 1..n /\ d.verdicts[n] = verdict /\ DOMAIN c.verdicts = 1..c.readCursor
      /\ \A p \in 1..c.readCursor : d.verdicts[p] = c.verdicts[p]
  BY <1>1, AppendProperties, LenProperties
<1>3. Got(d, set) = (IF verdict \in set THEN Got(c, set) \cup {n} ELSE Got(c, set)) /\ n \notin Got(c, set)
  BY <1>1, <1>2 DEF Got
<1>4. IsFiniteSet(Got(c, set)) /\ Cardinality(Got(c, set)) \in Nat
  BY GotFinite
<1>5. n \notin Got(c, set) => Cardinality(Got(c, set) \cup {n}) = Cardinality(Got(c, set)) + 1
  BY <1>4, FS_AddElement
<1> QED
  BY <1>3, <1>4, <1>5

LEMMA GotReplaced ==
  ASSUME NEW c, Prefixed(c), NEW d, NEW p \in DOMAIN c.verdicts, NEW verdict, DOMAIN d.verdicts = DOMAIN c.verdicts,
         \A q \in DOMAIN c.verdicts : d.verdicts[q] = IF q = p THEN verdict ELSE c.verdicts[q],
         NEW set, verdict \notin set
  PROVE  Cardinality(Got(d, set)) = Cardinality(Got(c, set)) - (IF c.verdicts[p] \in set THEN 1 ELSE 0)
<1>1. Got(d, set) = Got(c, set) \ {p} /\ (p \in Got(c, set) <=> c.verdicts[p] \in set)
  BY DEF Got
<1>2. Cardinality(Got(c, set) \ {p}) = IF p \in Got(c, set) THEN Cardinality(Got(c, set)) - 1 ELSE Cardinality(Got(c, set))
  BY GotFinite, FS_RemoveElement
<1> QED
  BY <1>1, <1>2, GotFinite

LEMMA AdmitsCounted ==
  ASSUME NEW c, Prefixed(c), Counted(c), NEW call, call.key \in Keys, call.node \in Nodes
  PROVE  Counted(Admitted(c, call))
<1> DEFINE d == Admitted(c, call)
           verdict == Verdict(c, call)
           receipt == [seq |-> c.readCursor, node |-> call.node, key |-> call.key, replayed |-> verdict = "replayed"]
<1>1. /\ c.readCursor \in Nat /\ c.verdicts \in Seq(Verdicts) /\ Len(c.verdicts) = c.readCursor
      /\ \A a \in c.admissions : a.seq \in 0..(c.readCursor - 1)
  BY DEF Prefixed
<1>2. verdict \in {"throws", "fresh", "replayed", "retried"}
  BY VerdictGiven
<1>3. /\ d.clock = c.clock /\ d.verdicts = Append(c.verdicts, verdict)
      /\ d.replayed = c.replayed + (IF verdict = "replayed" THEN 1 ELSE 0)
      /\ d.fresh = c.fresh + (IF verdict \in {"fresh", "retried"} THEN 1 ELSE 0)
      /\ d.admissions = (IF verdict = "throws" THEN c.admissions ELSE c.admissions \cup {receipt})
  <2>1. DOMAIN c = ControllerFields
    BY DEF Prefixed
  <2> QED
    BY <2>1, AdmitFields
<1>4. receipt \in Receipts /\ receipt.seq = c.readCursor /\ receipt.replayed = (verdict = "replayed")
  BY <1>1 DEF Receipts
<1> HIDE DEF d, verdict, receipt
<1>5. verdict \in Verdicts
  BY <1>2 DEF Verdicts
<1>6. d.replayed = Cardinality(Got(d, {"replayed"})) /\ d.fresh = Cardinality(Got(d, {"fresh", "retried"}))
  <2>1. c.replayed = Cardinality(Got(c, {"replayed"})) /\ c.fresh = Cardinality(Got(c, {"fresh", "retried"}))
    BY DEF Counted
  <2>2. /\ Cardinality(Got(d, {"replayed"})) = Cardinality(Got(c, {"replayed"})) + (IF verdict \in {"replayed"} THEN 1 ELSE 0)
        /\ Cardinality(Got(d, {"fresh", "retried"})) =
              Cardinality(Got(c, {"fresh", "retried"})) + (IF verdict \in {"fresh", "retried"} THEN 1 ELSE 0)
    <3>1. ASSUME NEW set
          PROVE  Cardinality(Got(d, set)) = Cardinality(Got(c, set)) + (IF verdict \in set THEN 1 ELSE 0)
      <4>1. d.verdicts = Append(c.verdicts, verdict)
        BY <1>3
      <4> QED
        BY <4>1, <1>5, GotAppended
    <3> QED
      BY <3>1
  <2> QED
    BY <1>3, <2>1, <2>2
<1>7. /\ d.verdicts[c.readCursor + 1] = verdict
      /\ \A p \in 1..c.readCursor : d.verdicts[p] = c.verdicts[p]
  BY <1>1, <1>3, <1>5, AppendProperties
<1>8. ASSUME NEW a \in d.admissions
      PROVE  a \in Receipts /\ d.verdicts[a.seq + 1] \in (IF a.replayed THEN {"replayed"} ELSE {"fresh", "retried"})
  <2>1. CASE a \in c.admissions
    <3>1. a.seq + 1 \in 1..c.readCursor
      BY <1>1, <2>1
    <3> QED
      BY <1>7, <2>1, <3>1 DEF Counted
  <2>2. CASE a = receipt /\ verdict # "throws"
    BY <1>2, <1>4, <1>7, <2>2
  <2> QED
    BY <1>3, <2>1, <2>2
<1>9. ASSUME NEW a \in d.admissions, NEW e \in d.admissions, a.seq = e.seq PROVE a = e
  <2>1. \A r \in c.admissions : r.seq # c.readCursor
    BY <1>1
  <2> QED
    BY <1>3, <1>4, <1>9, <2>1 DEF Counted
<1> QED
  BY <1>3, <1>6, <1>8, <1>9 DEF Counted, d

LEMMA SettlesCounted ==
  ASSUME NEW c, Prefixed(c), Counted(c), NEW receipt \in c.admissions, NEW good \in BOOLEAN
  PROVE  Counted(Settled(c, receipt, good))
<1> DEFINE d == Settled(c, receipt, good)
           back == TakesBack(receipt, good)
           n == receipt.seq + 1
<1>1. /\ c.readCursor \in Nat /\ DOMAIN c.verdicts = 1..c.readCursor
      /\ \A a \in c.admissions : a.seq \in Nat /\ a.seq + 1 \in 1..c.readCursor
  BY LenProperties DEF Prefixed
<1>2. /\ d.clock = c.clock /\ DOMAIN d.verdicts = DOMAIN c.verdicts
      /\ \A p \in DOMAIN c.verdicts : d.verdicts[p] = IF back /\ p = n THEN "refused" ELSE c.verdicts[p]
      /\ d.replayed = (IF back THEN c.replayed - 1 ELSE c.replayed)
      /\ d.fresh = c.fresh
      /\ d.admissions = c.admissions \ {receipt}
  <2>1. DOMAIN c = ControllerFields
    BY DEF Prefixed
  <2> QED
    BY <2>1, SettleFields
<1>3. /\ receipt \in Receipts /\ c.verdicts[n] \in (IF receipt.replayed THEN {"replayed"} ELSE {"fresh", "retried"})
      /\ n \in DOMAIN c.verdicts /\ receipt.replayed \in BOOLEAN
  BY <1>1 DEF Counted, Receipts
<1>4. c.replayed = Cardinality(Got(c, {"replayed"})) /\ c.fresh = Cardinality(Got(c, {"fresh", "retried"})) /\ c.clock \in Nat
  BY DEF Counted
<1>5. \A a \in d.admissions : a.seq + 1 # n
  <2>1. \A a \in c.admissions : a.seq = receipt.seq => a = receipt
    BY DEF Counted
  <2> QED
    BY <1>1, <1>2, <2>1
<1> HIDE DEF d, n
<1>6. \A a \in d.admissions : d.verdicts[a.seq + 1] = c.verdicts[a.seq + 1]
  BY <1>1, <1>2, <1>5
<1>7. d.replayed = Cardinality(Got(d, {"replayed"})) /\ d.fresh = Cardinality(Got(d, {"fresh", "retried"}))
  <2>1. CASE ~back
    <3>1. DOMAIN d.verdicts = DOMAIN c.verdicts /\ \A p \in DOMAIN c.verdicts : d.verdicts[p] = c.verdicts[p]
      BY <1>2, <2>1
    <3>2. Got(d, {"replayed"}) = Got(c, {"replayed"}) /\ Got(d, {"fresh", "retried"}) = Got(c, {"fresh", "retried"})
      BY <3>1 DEF Got
    <3> QED
      BY <1>2, <1>4, <2>1, <3>2
  <2>2. CASE back
    <3>1. /\ \A p \in DOMAIN c.verdicts : d.verdicts[p] = IF p = n THEN "refused" ELSE c.verdicts[p]
          /\ c.verdicts[n] = "replayed"
      BY <1>2, <1>3, <2>2 DEF TakesBack
    <3>2. /\ Cardinality(Got(d, {"replayed"})) =
                Cardinality(Got(c, {"replayed"})) - (IF c.verdicts[n] \in {"replayed"} THEN 1 ELSE 0)
          /\ Cardinality(Got(d, {"fresh", "retried"})) =
                Cardinality(Got(c, {"fresh", "retried"})) - (IF c.verdicts[n] \in {"fresh", "retried"} THEN 1 ELSE 0)
      <4>1. ASSUME NEW set, "refused" \notin set
            PROVE  Cardinality(Got(d, set)) = Cardinality(Got(c, set)) - (IF c.verdicts[n] \in set THEN 1 ELSE 0)
        <5>1. n \in DOMAIN c.verdicts /\ DOMAIN d.verdicts = DOMAIN c.verdicts
          BY <1>2, <1>3
        <5> QED
          BY <3>1, <4>1, <5>1, GotReplaced
      <4> QED
        BY <4>1
    <3>3. Cardinality(Got(c, {"fresh", "retried"})) \in Nat
      BY GotFinite
    <3> QED
      BY <1>2, <1>4, <2>2, <3>1, <3>2, <3>3
  <2> QED
    BY <2>1, <2>2
<1> QED
  BY <1>2, <1>4, <1>6, <1>7 DEF Counted, d

LEMMA ReadsCounted == ASSUME NEW c, Prefixed(c), Counted(c) PROVE Counted(AfterValue(c))
<1> DEFINE d == AfterValue(c)
<1>1. /\ d.clock = c.clock + 1 /\ d.replayed = c.replayed /\ d.fresh = c.fresh
      /\ d.verdicts = c.verdicts /\ d.admissions = c.admissions
  BY ValueFields DEF Prefixed
<1> HIDE DEF d
<1>2. Got(d, {"replayed"}) = Got(c, {"replayed"}) /\ Got(d, {"fresh", "retried"}) = Got(c, {"fresh", "retried"})
  BY <1>1 DEF Got
<1>3. d.clock \in Nat
  BY <1>1 DEF Counted
<1> QED
  BY <1>1, <1>2, <1>3 DEF Counted, d

\* The row that names a call is the only one with its ordinal.
LEMMA RecordedOnly ==
  ASSUME NEW s, IsRecord(s), NEW kind, NEW o, Recorded(s, kind, o) # None, NEW i \in Rows(s, kind), s[i].seq = o
  PROVE  Recorded(s, kind, o) = s[i]
<1> DEFINE here == {j \in Rows(s, kind) : s[j].seq = o}
<1>1. Cardinality(here) = 1 /\ Recorded(s, kind, o) = s[CHOOSE j \in here : TRUE]
  BY DEF Recorded
<1>2. IsFiniteSet(here)
  <2>1. here \subseteq 1..Len(s) /\ Len(s) \in Nat
    BY LenProperties DEF IsRecord, Rows
  <2>2. IsFiniteSet(1..Len(s))
    BY <2>1, FS_Interval
  <2> HIDE DEF here
  <2> QED
    BY <2>1, <2>2, FS_Subset
<1>3. i \in here
  OBVIOUS
<1> HIDE DEF here
<1>4. \E x : here = {x}
  BY <1>1, <1>2, FS_Singleton
<1> QED
  BY <1>1, <1>3, <1>4

\* What a typed replay says of a call: it refuses, serves, repeats or goes past its record.
LEMMA TypedVerdict ==
  ASSUME NEW c, Prefixed(c), TypedStands(c), Typed(c), NEW call
  PROVE  /\ Verdict(c, call) = "throws" <=> (c.refusal \/ Lookup(c, call) = "miss")
         /\ \A i \in Rows(c.options.source, "agent") : c.options.source[i].seq = c.readCursor =>
               /\ Verdict(c, call) = "replayed" => c.options.source[i].ok
               /\ Verdict(c, call) = "retried" => ~c.options.source[i].ok
               /\ Verdict(c, call) # "fresh"
<1> DEFINE row == Recorded(c.options.source, "agent", c.readCursor)
<1>1. Enabled(c) /\ (c.diverged => c.refusal)
  BY DEF TypedStands
<1>2. IsRecord(c.options.source) /\ c.readCursor \in Nat /\ DOMAIN c = ControllerFields
  BY <1>1 DEF Prefixed
<1>3. Refuse(c, c.readCursor).refusal
  BY <1>2, RefuseFields
<1>4. /\ Lookup(c, call) = "throws" <=> c.refusal
      /\ Lookup(c, call) = "miss" => Verdict(c, call) = "throws"
      /\ Lookup(c, call) # "miss" => Verdict(c, call) = Lookup(c, call)
  BY <1>1, <1>3 DEF Verdict, Lookup
<1>5. ASSUME NEW i \in Rows(c.options.source, "agent"), c.options.source[i].seq = c.readCursor, ~c.refusal
      PROVE  /\ Lookup(c, call) = "replayed" => c.options.source[i].ok
             /\ Lookup(c, call) = "retried" => ~c.options.source[i].ok
             /\ Lookup(c, call) # "fresh"
  <2>1. row # None => row = c.options.source[i]
    BY <1>2, <1>5, RecordedOnly
  <2>2. ~CanExtend(c, c.readCursor, Extent(c.options.source))
    <3>1. AgentRow(c.options.source, i)
      BY <1>5 DEF AgentRow, Rows
    <3>2. c.readCursor >= Extent(c.options.source) => c.options.source[i].seq < c.readCursor
      BY <1>2, <3>1, PastTheRecord
    <3> QED
      BY <1>2, <1>5, <3>2 DEF CanExtend
  <2>3. ~c.diverged
    BY <1>1, <1>5
  <2>4. SameCall(c, call, row) => row # None
    BY DEF SameCall
  <2> HIDE DEF row
  <2> QED
    BY <1>1, <1>5, <2>1, <2>2, <2>3, <2>4 DEF Lookup, row
<1> QED
  BY <1>4, <1>5

LEMMA AdmitsTyped ==
  ASSUME NEW c, Prefixed(c), TypedStands(c), NEW call
  PROVE  TypedStands(Admitted(c, call))
<1> DEFINE d == Admitted(c, call)
           verdict == Verdict(c, call)
<1>1. /\ c.readCursor \in Nat /\ c.verdicts \in Seq(Verdicts) /\ Len(c.verdicts) = c.readCursor
      /\ DOMAIN c = ControllerFields
  BY DEF Prefixed
<1>2. /\ d.options = c.options /\ d.readCursor = c.readCursor + 1 /\ d.verdicts = Append(c.verdicts, verdict)
      /\ \/ Lookup(c, call) # "miss" /\ d.diverged = c.diverged /\ d.refusal = c.refusal
         \/ Lookup(c, call) = "miss" /\ d.diverged /\ (c.refusal \/ Typed(c) => d.refusal)
  BY <1>1, AdmitFields
<1>3. verdict \in {"throws", "fresh", "replayed", "retried"}
  BY VerdictGiven
<1> HIDE DEF d, verdict
<1>4. /\ d.verdicts[c.readCursor + 1] = verdict
      /\ \A p \in 1..c.readCursor : d.verdicts[p] = c.verdicts[p]
  <2>1. verdict \in Verdicts
    BY <1>3 DEF Verdicts
  <2> QED
    BY <1>1, <1>2, <2>1, AppendProperties
<1>5. SUFFICES ASSUME Typed(c)
               PROVE  /\ Enabled(c) /\ ~c.options.prefix
                      /\ d.diverged => d.refusal
                      /\ \A i \in Rows(c.options.source, "agent") : \A p \in 1..d.readCursor :
                            c.options.source[i].seq = p - 1 =>
                               /\ d.verdicts[p] = "replayed" => c.options.source[i].ok
                               /\ d.verdicts[p] = "retried" => ~c.options.source[i].ok
                               /\ d.verdicts[p] # "fresh"
                      /\ ~d.refusal => \A p \in 1..d.readCursor : d.verdicts[p] \in {"replayed", "retried", "fresh"}
  BY <1>2 DEF TypedStands, Typed, Enabled, d
<1>6. /\ verdict = "throws" <=> (c.refusal \/ Lookup(c, call) = "miss")
      /\ \A i \in Rows(c.options.source, "agent") : c.options.source[i].seq = c.readCursor =>
            /\ verdict = "replayed" => c.options.source[i].ok
            /\ verdict = "retried" => ~c.options.source[i].ok
            /\ verdict # "fresh"
  BY <1>5, TypedVerdict DEF verdict
<1>7. Enabled(c) /\ ~c.options.prefix /\ (c.diverged => c.refusal)
  BY <1>5 DEF TypedStands
<1>8. \A p \in 1..d.readCursor : p \in 1..c.readCursor \/ (p = c.readCursor + 1 /\ p - 1 = c.readCursor)
  BY <1>1, <1>2
<1>9. ASSUME NEW i \in Rows(c.options.source, "agent"), NEW p \in 1..d.readCursor, c.options.source[i].seq = p - 1
      PROVE  /\ d.verdicts[p] = "replayed" => c.options.source[i].ok
             /\ d.verdicts[p] = "retried" => ~c.options.source[i].ok
             /\ d.verdicts[p] # "fresh"
  <2>1. CASE p \in 1..c.readCursor
    BY <1>4, <1>5, <1>9, <2>1 DEF TypedStands
  <2>2. CASE p = c.readCursor + 1 /\ p - 1 = c.readCursor
    BY <1>4, <1>6, <1>9, <2>2
  <2> QED
    BY <1>8, <2>1, <2>2
<1>10. ASSUME ~d.refusal, NEW p \in 1..d.readCursor PROVE d.verdicts[p] \in {"replayed", "retried", "fresh"}
  <2>1. ~c.refusal /\ Lookup(c, call) # "miss"
    BY <1>2, <1>5, <1>10
  <2>2. verdict \in {"replayed", "retried", "fresh"}
    BY <1>3, <1>6, <2>1
  <2> QED
    BY <1>4, <1>5, <1>8, <2>1, <2>2 DEF TypedStands
<1> QED
  BY <1>2, <1>5, <1>7, <1>9, <1>10

LEMMA SettlesTyped ==
  ASSUME NEW c, Prefixed(c), TypedStands(c), NEW receipt \in c.admissions, NEW good \in BOOLEAN
  PROVE  TypedStands(Settled(c, receipt, good))
<1> DEFINE d == Settled(c, receipt, good)
           back == TakesBack(receipt, good)
<1>1. DOMAIN c = ControllerFields /\ c.readCursor \in Nat /\ DOMAIN c.verdicts = 1..c.readCursor
  BY LenProperties DEF Prefixed
<1>2. /\ d.options = c.options /\ d.readCursor = c.readCursor
      /\ \A p \in 1..c.readCursor : d.verdicts[p] = IF back /\ p = receipt.seq + 1 THEN "refused" ELSE c.verdicts[p]
      /\ \/ ~back /\ d.diverged = c.diverged /\ d.refusal = c.refusal
         \/ back /\ d.diverged /\ (c.refusal \/ Typed(c) => d.refusal)
  BY <1>1, SettleFields
<1> HIDE DEF d
<1>3. \A p \in 1..c.readCursor : d.verdicts[p] = c.verdicts[p] \/ (back /\ d.verdicts[p] = "refused")
  BY <1>1, <1>2
<1>4. CASE ~Typed(c)
  BY <1>2, <1>4 DEF TypedStands, Typed, d
<1>5. CASE Typed(c)
  <2>1. /\ Enabled(c) /\ ~c.options.prefix /\ (c.diverged => c.refusal)
        /\ \A i \in Rows(c.options.source, "agent") : \A p \in 1..c.readCursor :
              c.options.source[i].seq = p - 1 =>
                 /\ c.verdicts[p] = "replayed" => c.options.source[i].ok
                 /\ c.verdicts[p] = "retried" => ~c.options.source[i].ok
                 /\ c.verdicts[p] # "fresh"
        /\ ~c.refusal => \A p \in 1..c.readCursor : c.verdicts[p] \in {"replayed", "retried", "fresh"}
    BY <1>5 DEF TypedStands
  <2>2. back => d.refusal
    BY <1>2, <1>5
  <2>3. /\ \A i \in Rows(c.options.source, "agent") : \A p \in 1..c.readCursor :
              c.options.source[i].seq = p - 1 =>
                 /\ d.verdicts[p] = "replayed" => c.options.source[i].ok
                 /\ d.verdicts[p] = "retried" => ~c.options.source[i].ok
                 /\ d.verdicts[p] # "fresh"
    BY <1>3, <2>1
  <2>4. ~d.refusal => \A p \in 1..c.readCursor : d.verdicts[p] \in {"replayed", "retried", "fresh"}
    BY <1>2, <1>3, <2>1, <2>2
  <2>5. d.diverged => d.refusal
    BY <1>2, <1>5, <2>1
  <2> QED
    BY <1>2, <2>1, <2>3, <2>4, <2>5 DEF TypedStands, Enabled, d
<1> QED
  BY <1>4, <1>5

LEMMA ReadsTyped == ASSUME NEW c, Prefixed(c), TypedStands(c) PROVE TypedStands(AfterValue(c))
<1> DEFINE d == AfterValue(c)
<1>1. DOMAIN c = ControllerFields
  BY DEF Prefixed
<1>2. /\ d.options = c.options /\ d.readCursor = c.readCursor /\ d.verdicts = c.verdicts
      /\ \/ d.diverged = c.diverged /\ d.refusal = c.refusal
         \/ d.diverged /\ (c.refusal \/ Typed(c) => d.refusal)
  BY <1>1, ValueFields
<1> HIDE DEF d
<1> QED
  BY <1>2 DEF TypedStands, Typed, Enabled, d

\* What every step inside a run leaves alone.
Inside == phase = "running" /\ UNCHANGED <<script, run, phase, ok>>

LEMMA OpenCall ==
  ASSUME ChainInv, NEW b \in Branches
  PROVE  /\ doing[b] # None => doing[b] \in OpenCalls /\ doing[b].receipt \in replayer.admissions /\ Childless(doing[b])
         /\ doing[b].receipt \in replayer.admissions =>
               doing[b].receipt \in Receipts /\ doing[b].receipt.seq \in Nat
         /\ DOMAIN doing = Branches
<1>1. doing \in [Branches -> {None} \cup OpenCalls]
  BY DEF ChainInv, ChainTypes
<1>2. \A a \in replayer.admissions : a \in Receipts
  BY DEF ChainInv, Counted
<1>3. \A a \in Receipts : a.seq \in Nat
  BY DEF Receipts
<1> QED
  BY <1>1, <1>2, <1>3 DEF ChainInv, Linked

LEMMA LinkKept ==
  ASSUME ChainInv, NEW b \in Branches, doing[b] # None, NEW c, c # None, c.receipt = doing[b].receipt, Childless(c),
         doing' = [doing EXCEPT ![b] = c], replayer'.admissions = replayer.admissions, UNCHANGED script
  PROVE  Linked'
<1>1. Linked /\ DOMAIN doing = Branches /\ Branches' = Branches
  BY OpenCall DEF ChainInv, Branches
<1>2. \A d \in Branches : doing'[d] = IF d = b THEN c ELSE doing[d]
  BY <1>1
<1>3. \A d \in Branches : /\ doing'[d] # None <=> doing[d] # None
                          /\ doing[d] # None => doing'[d].receipt = doing[d].receipt /\ Childless(doing[d])'
  BY <1>1, <1>2 DEF Linked, Childless
<1> QED
  BY <1>1, <1>3 DEF Linked

LEMMA LinkOpened ==
  ASSUME ChainInv, NEW b \in Branches, doing[b] = None, NEW c, c # None, Childless(c), c.receipt \notin replayer.admissions,
         doing' = [doing EXCEPT ![b] = c], replayer'.admissions = replayer.admissions \cup {c.receipt}, UNCHANGED script
  PROVE  Linked'
<1>1. Linked /\ DOMAIN doing = Branches /\ Branches' = Branches
  BY OpenCall DEF ChainInv, Branches
<1>2. \A d \in Branches : doing'[d] = IF d = b THEN c ELSE doing[d]
  BY <1>1
<1>3. /\ doing'[b] = c /\ Childless(doing[b])'
      /\ \A d \in Branches : d # b => doing'[d] = doing[d] /\ (Childless(doing[d]) => Childless(doing[d])')
  BY <1>2 DEF Childless
<1>4. ASSUME NEW d \in Branches, doing'[d] # None PROVE doing'[d].receipt \in replayer'.admissions /\ Childless(doing[d])'
  BY <1>1, <1>3, <1>4 DEF Linked
<1>5. ASSUME NEW a \in replayer'.admissions PROVE \E d \in Branches : doing'[d] # None /\ doing'[d].receipt = a
  <2>1. CASE a = c.receipt
    BY <1>3, <2>1
  <2>2. CASE a \in replayer.admissions
    <3>1. PICK d \in Branches : doing[d] # None /\ doing[d].receipt = a
      BY <1>1, <2>2 DEF Linked
    <3> QED
      BY <1>3, <3>1
  <2> QED
    BY <2>1, <2>2
<1>6. ASSUME NEW d \in Branches, NEW e \in Branches, doing'[d] # None, doing'[e] # None, doing'[d].receipt = doing'[e].receipt
      PROVE  d = e
  <2>1. \A h \in Branches : doing[h] # None => doing[h].receipt # c.receipt
    BY <1>1 DEF Linked
  <2> QED
    BY <1>1, <1>3, <1>6, <2>1 DEF Linked
<1> QED
  BY <1>1, <1>4, <1>5, <1>6 DEF Linked

LEMMA LinkClosed ==
  ASSUME ChainInv, NEW b \in Branches, doing[b] # None, doing' = [doing EXCEPT ![b] = None],
         replayer'.admissions = replayer.admissions \ {doing[b].receipt}, UNCHANGED script
  PROVE  Linked'
<1>1. Linked /\ DOMAIN doing = Branches /\ Branches' = Branches
  BY OpenCall DEF ChainInv, Branches
<1>2. \A d \in Branches : doing'[d] = IF d = b THEN None ELSE doing[d]
  BY <1>1
<1>3. \A d \in Branches : /\ doing'[d] # None <=> doing[d] # None /\ d # b
                          /\ d # b => doing'[d] = doing[d] /\ (Childless(doing[d]) => Childless(doing[d])')
  BY <1>2 DEF Childless
<1>4. ASSUME NEW d \in Branches, doing'[d] # None PROVE doing'[d].receipt \in replayer'.admissions /\ Childless(doing[d])'
  BY <1>1, <1>3, <1>4 DEF Linked
<1>5. ASSUME NEW a \in replayer'.admissions PROVE \E d \in Branches : doing'[d] # None /\ doing'[d].receipt = a
  <2>1. PICK d \in Branches : doing[d] # None /\ doing[d].receipt = a
    BY <1>1 DEF Linked
  <2> QED
    BY <1>3, <2>1
<1>6. ASSUME NEW d \in Branches, NEW e \in Branches, doing'[d] # None, doing'[e] # None, doing'[d].receipt = doing'[e].receipt
      PROVE  d = e
  BY <1>1, <1>3, <1>6 DEF Linked
<1> QED
  BY <1>1, <1>4, <1>5, <1>6 DEF Linked

LEMMA LinkSame ==
  ASSUME ChainInv, NEW b \in Branches, doing[b] = None, doing' = [doing EXCEPT ![b] = None],
         replayer'.admissions = replayer.admissions, UNCHANGED script
  PROVE  Linked' /\ doing' = doing
<1>1. Linked /\ DOMAIN doing = Branches /\ Branches' = Branches /\ doing \in [Branches -> {None} \cup OpenCalls]
  BY OpenCall DEF ChainInv, Branches, ChainTypes
<1>2. doing' = doing
  BY <1>1
<1> QED
  BY <1>1, <1>2 DEF Linked, Childless

\* The chain goes on inside its run, whatever its controller becomes.
LEMMA ChainMoves ==
  ASSUME ChainInv, Inside, ChainTypes', Counted(replayer'), TypedStands(replayer'), Linked'
  PROVE  ChainInv'
<1>1. ok = FALSE
  BY DEF ChainInv, Served, Inside
<1>2. Served'
  BY <1>1 DEF Served, Inside
<1>3. Counted(replayer)' /\ TypedStands(replayer)'
  OBVIOUS
<1> QED
  BY <1>2, <1>3 DEF ChainInv

\* A call goes on: its receipt stays open.
LEMMA CallGoesOn ==
  ASSUME ChainInv, Inside, NEW b \in Branches, doing[b] # None, NEW c \in OpenCalls, c.receipt = doing[b].receipt,
         Childless(c), doing' = [doing EXCEPT ![b] = c], UNCHANGED <<replayer, record, at, saw, occurrences>>,
         losses' \in Nat, calls' \in Nat
  PROVE  ChainInv'
<1>1. ChainTypes /\ Counted(replayer) /\ TypedStands(replayer)
  BY DEF ChainInv
<1>2. Linked'
  BY LinkKept, NothingAssumption DEF Inside
<1>3. ChainTypes'
  <2>1. /\ at' \in [Branches -> Nat] /\ saw' \in [Branches -> Values] /\ occurrences' \in [Labels -> Nat]
        /\ record' \in Seq(RecordRows)
    BY <1>1 DEF ChainTypes
  <2> QED
    BY <1>1, <2>1, TypesMove DEF Inside
<1>4. Counted(replayer') /\ TypedStands(replayer')
  BY <1>1
<1> QED
  BY <1>2, <1>3, <1>4, ChainMoves

\* A call is settled and its branch goes on or is over.
LEMMA CallLeaves ==
  ASSUME ResumeInv, ChainInv, Inside, NEW b \in Branches, doing[b] # None, NEW good \in BOOLEAN, NEW text \in Values,
         RecordAgentAttempt(doing[b].receipt, good, text), Throws(b) \/ Returns(b, text), UNCHANGED <<occurrences, calls>>
  PROVE  ChainInv'
<1>1. ChainTypes /\ Counted(replayer) /\ TypedStands(replayer) /\ Prefixed(replayer)
  BY DEF ChainInv, ResumeInv
<1>2. /\ doing[b].receipt \in replayer.admissions /\ replayer' = Settled(replayer, doing[b].receipt, good)
      /\ doing[b].receipt \in Receipts
  BY OpenCall DEF RecordAgentAttempt
<1>3. Counted(replayer') /\ TypedStands(replayer')
  BY <1>1, <1>2, SettlesCounted, SettlesTyped
<1>4. /\ replayer'.options = replayer.options /\ replayer'.admissions = replayer.admissions \ {doing[b].receipt}
  <2>1. DOMAIN replayer = ControllerFields
    BY <1>1 DEF Prefixed
  <2>2. ASSUME NEW r
        PROVE  /\ Settled(replayer, r, good).options = replayer.options
               /\ Settled(replayer, r, good).admissions = replayer.admissions \ {r}
    BY <2>1, SettleFields
  <2> QED
    BY <1>2, <2>2
<1>5. at' \in [Branches -> Nat] /\ saw' \in [Branches -> Values] /\ doing' = [doing EXCEPT ![b] = None]
  BY <1>1, Leaves
<1>6. Linked'
  BY <1>4, <1>5, LinkClosed DEF Inside
<1>7. record' \in Seq(RecordRows) /\ losses' \in Nat
  <2> DEFINE row == [kind |-> "agent", seq |-> doing[b].receipt.seq, node |-> doing[b].receipt.node,
                     key |-> doing[b].receipt.key, ok |-> good, value |-> IF good THEN text ELSE None]
  <2>1. row \in RecordRows
    BY <1>2 DEF Receipts, RecordRows, Values
  <2>2. AppendRow(row)
    BY DEF RecordAgentAttempt
  <2> HIDE DEF row
  <2> QED
    BY <1>1, <2>1, <2>2, RowTyped
<1>8. ChainTypes'
  <2>1. occurrences' \in [Labels -> Nat] /\ calls' \in Nat
    BY <1>1 DEF ChainTypes
  <2> QED
    BY <1>1, <1>4, <1>5, <1>7, <2>1, TypesMove DEF Inside
<1> QED
  BY <1>3, <1>6, <1>8, ChainMoves

LEMMA BranchActs ==
  ASSUME NEW b, Admit(b) \/ Revalidate(b) \/ Start(b) \/ Finish(b) \/ Settle(b) \/ ReadClock(b)
  PROVE  Inside
BY DEF Admit, Revalidate, Start, Finish, Settle, ReadClock, Ready, Awaits, Inside

LEMMA QueuedOpen ==
  ASSUME losses \in Nat, NEW b, NEW c \in Attempts, ~c.receipt.replayed, Queue(b, c)
  PROVE  /\ losses' \in Nat
         /\ \E d \in OpenCalls : doing' = [doing EXCEPT ![b] = d] /\ d.receipt = c.receipt /\ Childless(d)
<1> DEFINE refused == [c EXCEPT !.stage = "answered", !.outcome = "thrown"]
           queued == [c EXCEPT !.stage = "queued"]
<1>1. /\ refused \in OpenCalls /\ refused.receipt = c.receipt /\ Childless(refused)
      /\ queued \in OpenCalls /\ queued.receipt = c.receipt /\ Childless(queued)
  BY DEF Attempts, OpenCalls, Childless
<1>2. (doing' = [doing EXCEPT ![b] = refused] /\ losses' = losses) \/ (doing' = [doing EXCEPT ![b] = queued] /\ losses' \in Nat)
  BY Losses DEF Queue
<1> QED
  BY <1>1, <1>2

LEMMA ReplayedOpen ==
  ASSUME losses \in Nat, NEW b, NEW c \in Attempts, Replay(b, c)
  PROVE  /\ losses' \in Nat
         /\ \E d \in OpenCalls : doing' = [doing EXCEPT ![b] = d] /\ d.receipt = c.receipt /\ Childless(d)
<1> DEFINE thrown == [c EXCEPT !.stage = "answered", !.outcome = "thrown"]
           answered == [c EXCEPT !.stage = "answered", !.outcome = "answer"]
<1>1. /\ thrown \in OpenCalls /\ thrown.receipt = c.receipt /\ Childless(thrown)
      /\ answered \in OpenCalls /\ answered.receipt = c.receipt /\ Childless(answered)
  BY DEF Attempts, OpenCalls, Childless
<1>2. /\ doing' = [doing EXCEPT ![b] = thrown] \/ doing' = [doing EXCEPT ![b] = answered]
      /\ losses' \in Nat
  BY Losses DEF Replay
<1> QED
  BY <1>1, <1>2

\* A further attempt of the same call.
LEMMA AgainTyped ==
  ASSUME NEW c \in OpenCalls, NEW n \in Nat
  PROVE  /\ [c EXCEPT !.call = n] \in Attempts /\ [c EXCEPT !.call = n].receipt = c.receipt
         /\ [c EXCEPT !.call = n].call = n
         /\ [c EXCEPT !.call = n, !.attempt = @ + 1] \in Attempts
         /\ [c EXCEPT !.call = n, !.attempt = @ + 1].receipt = c.receipt
         /\ [c EXCEPT !.call = n, !.attempt = @ + 1].call = n
<1>1. c.attempt + 1 \in Nat
  BY DEF OpenCalls
<1> DEFINE m == c.attempt + 1
<1> HIDE DEF m
<1>2. /\ [c EXCEPT !.call = n, !.attempt = m] \in Attempts /\ [c EXCEPT !.call = n, !.attempt = m].receipt = c.receipt
      /\ [c EXCEPT !.call = n, !.attempt = m].call = n
  BY <1>1 DEF OpenCalls, Attempts, m
<1>3. [c EXCEPT !.call = n] \in Attempts /\ [c EXCEPT !.call = n].receipt = c.receipt /\ [c EXCEPT !.call = n].call = n
  BY DEF OpenCalls, Attempts
<1> QED
  BY <1>2, <1>3 DEF m

LEMMA RevalidateChain == ASSUME ResumeInv, ChainInv, NEW b \in Branches, Revalidate(b) PROVE ChainInv'
<1> DEFINE c == [doing[b] EXCEPT !.call = calls + 1]
<1>1. /\ Inside /\ doing[b] # None /\ doing[b] \in OpenCalls /\ UNCHANGED occurrences
      /\ losses \in Nat /\ calls \in Nat
  BY BranchActs, OpenCall DEF Revalidate, Awaits, ChainInv, ChainTypes
<1>2. CASE Replay(b, c) /\ calls' = calls + 1 /\ UNCHANGED <<replayer, record, at, saw>>
  <2>1. c \in Attempts /\ c.receipt = doing[b].receipt
    <3>1. calls + 1 \in Nat
      BY <1>1
    <3> QED
      BY <1>1, <3>1, AgainTyped
  <2> HIDE DEF c
  <2>2. losses' \in Nat /\ \E d \in OpenCalls : doing' = [doing EXCEPT ![b] = d] /\ d.receipt = c.receipt /\ Childless(d)
    BY <1>1, <1>2, <2>1, ReplayedOpen
  <2>3. PICK d \in OpenCalls : doing' = [doing EXCEPT ![b] = d] /\ d.receipt = doing[b].receipt /\ Childless(d)
    BY <2>1, <2>2
  <2>4. losses' \in Nat /\ calls' \in Nat
    BY <1>1, <1>2, <2>2
  <2> QED
    BY <1>1, <1>2, <2>3, <2>4, CallGoesOn
<1>3. CASE RecordAgentAttempt(doing[b].receipt, FALSE, None) /\ Throws(b) /\ UNCHANGED calls
  <2>1. None \in Values
    BY DEF Values
  <2> QED
    BY <1>1, <1>3, <2>1, CallLeaves
<1> QED
  BY <1>2, <1>3 DEF Revalidate

LEMMA StartChain == ASSUME ChainInv, NEW b \in Branches, Start(b) PROVE ChainInv'
<1>1. /\ Inside /\ doing[b] # None /\ doing[b] \in OpenCalls /\ doing[b].stage = "queued" /\ Childless(doing[b])
      /\ UNCHANGED <<replayer, record, at, saw, occurrences, calls>>
      /\ losses \in Nat /\ calls \in Nat /\ b \in DOMAIN doing
  BY BranchActs, OpenCall DEF Start, Awaits, ChainInv, ChainTypes
<1> DEFINE thrown == [doing[b] EXCEPT !.stage = "answered", !.outcome = "thrown"]
           started == [doing[b] EXCEPT !.stage = "running"]
<1>2. /\ thrown \in OpenCalls /\ thrown.receipt = doing[b].receipt /\ Childless(thrown)
      /\ started \in OpenCalls /\ started.receipt = doing[b].receipt /\ Childless(started)
  BY <1>1 DEF OpenCalls, Childless
<1>3. doing' = [doing EXCEPT ![b] = thrown] \/ doing' = [doing EXCEPT ![b] = started]
  BY <1>1 DEF Start
<1>4. losses' \in Nat
  BY <1>1, Losses DEF Start
<1> QED
  BY <1>1, <1>2, <1>3, <1>4, CallGoesOn

LEMMA FinishChain == ASSUME ChainInv, NEW b \in Branches, Finish(b) PROVE ChainInv'
<1>1. /\ Inside /\ doing[b] # None /\ doing[b] \in OpenCalls /\ doing[b].stage = "running" /\ Childless(doing[b])
      /\ UNCHANGED <<replayer, record, at, saw, occurrences, calls>>
      /\ losses \in Nat /\ calls \in Nat /\ b \in DOMAIN doing
  BY BranchActs, OpenCall DEF Finish, Awaits, ChainInv, ChainTypes
<1>2. losses' \in Nat
  BY <1>1, Losses DEF Finish
<1>3. ASSUME NEW text \in Answers,
             doing' = [doing EXCEPT ![b].stage = "answered", ![b].outcome = "answer", ![b].text = text]
      PROVE  ChainInv'
  <2>1. PICK c : c = [doing[b] EXCEPT !.stage = "answered", !.outcome = "answer", !.text = text]
    OBVIOUS
  <2>2. c \in OpenCalls /\ c.receipt = doing[b].receipt /\ Childless(c)
    BY <1>1, <2>1 DEF OpenCalls, Childless, Values
  <2>3. doing' = [doing EXCEPT ![b] = c]
    BY <1>1, <1>3, <2>1
  <2> QED
    BY <1>1, <1>2, <2>2, <2>3, CallGoesOn
<1>4. ASSUME NEW outcome \in {"failed", "timeout", "thrown"},
             doing' = [doing EXCEPT ![b].stage = "answered", ![b].outcome = outcome]
      PROVE  ChainInv'
  <2>1. PICK c : c = [doing[b] EXCEPT !.stage = "answered", !.outcome = outcome]
    OBVIOUS
  <2>2. c \in OpenCalls /\ c.receipt = doing[b].receipt /\ Childless(c)
    BY <1>1, <2>1 DEF OpenCalls, Childless, Values
  <2>3. doing' = [doing EXCEPT ![b] = c]
    BY <1>1, <1>4, <2>1
  <2> QED
    BY <1>1, <1>2, <2>2, <2>3, CallGoesOn
<1> QED
  BY <1>3, <1>4 DEF Finish

LEMMA SettleChain == ASSUME ResumeInv, ChainInv, NEW b \in Branches, Settle(b) PROVE ChainInv'
<1> DEFINE c == [doing[b] EXCEPT !.call = calls + 1, !.attempt = @ + 1]
<1>1. /\ Inside /\ doing[b] # None /\ doing[b] \in OpenCalls /\ Childless(doing[b]) /\ UNCHANGED occurrences
      /\ losses \in Nat /\ calls \in Nat
  BY BranchActs, OpenCall DEF Settle, Awaits, ChainInv, ChainTypes
<1>2. CASE Retries(b)
  <2>1. Queue(b, c) /\ calls' = calls + 1 /\ UNCHANGED <<replayer, record, at, saw>>
    BY <1>2 DEF Settle
  <2>2. c \in Attempts /\ c.receipt = doing[b].receipt
    <3>1. calls + 1 \in Nat
      BY <1>1
    <3> QED
      BY <1>1, <3>1, AgainTyped
  <2>3. ~doing[b].receipt.replayed
    BY <1>1, <1>2 DEF Childless, Retries
  <2> HIDE DEF c
  <2>4. losses' \in Nat /\ \E d \in OpenCalls : doing' = [doing EXCEPT ![b] = d] /\ d.receipt = c.receipt /\ Childless(d)
    BY <1>1, <2>1, <2>2, <2>3, QueuedOpen
  <2>5. PICK d \in OpenCalls : doing' = [doing EXCEPT ![b] = d] /\ d.receipt = doing[b].receipt /\ Childless(d)
    BY <2>2, <2>4
  <2>6. losses' \in Nat /\ calls' \in Nat
    BY <1>1, <2>1, <2>4
  <2> QED
    BY <1>1, <2>1, <2>5, <2>6, CallGoesOn
<1>3. CASE ~Retries(b)
  <2> DEFINE good == doing[b].outcome = "answer"
  <2>1. /\ RecordAgentAttempt(doing[b].receipt, good, doing[b].text)
        /\ Throws(b) \/ Returns(b, doing[b].text)
        /\ UNCHANGED calls
    BY <1>3 DEF Settle
  <2>2. good \in BOOLEAN /\ doing[b].text \in Values
    BY <1>1 DEF OpenCalls
  <2> HIDE DEF good
  <2> QED
    BY <1>1, <2>1, <2>2, CallLeaves
<1> QED
  BY <1>2, <1>3

LEMMA ReadClockChain == ASSUME ResumeInv, ChainInv, NEW b \in Branches, ReadClock(b) PROVE ChainInv'
<1>1. /\ Inside /\ doing[b] = None /\ UNCHANGED <<occurrences, calls>> /\ Prefixed(replayer)
      /\ ChainTypes /\ Counted(replayer) /\ TypedStands(replayer)
  BY BranchActs DEF ReadClock, Ready, ResumeInv, ChainInv
<1>2. replayer' \in {replayer, AfterValue(replayer)}
  BY DEF ReadClock, replayVars
<1>3. replayer'.options = replayer.options /\ replayer'.admissions = replayer.admissions
  <2>1. DOMAIN replayer = ControllerFields
    BY <1>1 DEF Prefixed
  <2> QED
    BY <1>2, <2>1, ValueFields
<1>4. Counted(replayer') /\ TypedStands(replayer')
  BY <1>1, <1>2, ReadsCounted, ReadsTyped
<1>5. record' \in Seq(RecordRows) /\ losses' \in Nat /\ (Throws(b) \/ \E value \in Values : Returns(b, value))
  <2>1. CASE Throws(b) /\ UNCHANGED <<record, losses>>
    BY <1>1, <2>1 DEF ChainTypes
  <2>2. ASSUME NEW time \in (IF ValueOf(replayer) = None THEN Times ELSE {ValueOf(replayer).value}), Returns(b, time),
               AppendRow([kind |-> "clock", seq |-> replayer.clock, node |-> None, key |-> None, ok |-> TRUE, value |-> time])
        PROVE  record' \in Seq(RecordRows) /\ losses' \in Nat /\ \E value \in Values : Returns(b, value)
    <3> DEFINE row == [kind |-> "clock", seq |-> replayer.clock, node |-> None, key |-> None, ok |-> TRUE, value |-> time]
    <3>1. time \in Values
      <4>1. CASE ValueOf(replayer) = None
        BY <2>2, <4>1 DEF Values
      <4>2. CASE ValueOf(replayer) # None
        <5>1. Enabled(replayer) /\ Recorded(replayer.options.source, "clock", replayer.clock) # None
              /\ ValueOf(replayer) = Recorded(replayer.options.source, "clock", replayer.clock)
          BY <4>2 DEF ValueOf
        <5>2. PICK i \in Rows(replayer.options.source, "clock") : ValueOf(replayer) = replayer.options.source[i]
          BY <5>1, RecordedRow
        <5>3. replayer.options.source \in Seq(RecordRows)
          BY <1>1, <5>1 DEF ChainTypes
        <5>4. ValueOf(replayer) \in RecordRows
          BY <5>2, <5>3, ElementOfSeq, LenProperties DEF Rows
        <5> QED
          BY <2>2, <4>2, <5>4 DEF RecordRows
      <4> QED
        BY <4>1, <4>2
    <3>2. row \in RecordRows
      BY <1>1, <3>1 DEF Counted, RecordRows, Nodes
    <3> HIDE DEF row
    <3>3. AppendRow(row)
      BY <2>2 DEF row
    <3> QED
      BY <1>1, <2>2, <3>1, <3>2, <3>3, RowTyped
  <2> QED
    BY <2>1, <2>2 DEF ReadClock, replayVars
<1>6. at' \in [Branches -> Nat] /\ saw' \in [Branches -> Values] /\ doing' = [doing EXCEPT ![b] = None]
  BY <1>1, <1>5, Leaves
<1>7. Linked'
  BY <1>1, <1>3, <1>6, LinkSame DEF Inside
<1>8. ChainTypes'
  <2>1. occurrences' \in [Labels -> Nat] /\ calls' \in Nat
    BY <1>1 DEF ChainTypes
  <2> QED
    BY <1>1, <1>3, <1>5, <1>6, <2>1, TypesMove DEF Inside
<1> QED
  BY <1>1, <1>4, <1>7, <1>8, ChainMoves

LEMMA AdmitChain == ASSUME ResumeInv, ChainInv, NEW b \in Branches, Admit(b) PROVE ChainInv'
<1> DEFINE call == Call(b)
           verdict == Verdict(replayer, call)
           after == Admitted(replayer, call)
           receipt == [seq |-> replayer.readCursor, node |-> call.node, key |-> call.key, replayed |-> verdict = "replayed"]
           opened == IF call.node = None THEN occurrences ELSE [occurrences EXCEPT ![call.node[1]] = @ + 1]
<1>1. /\ Inside /\ doing[b] = None /\ Prefixed(replayer) /\ ChainTypes /\ Counted(replayer) /\ TypedStands(replayer)
      /\ losses \in Nat /\ calls \in Nat /\ occurrences \in [Labels -> Nat] /\ record \in Seq(RecordRows)
      /\ at \in [Branches -> Nat] /\ saw \in [Branches -> Values]
      /\ ~Done(b) /\ Step(b).kind = "call"
  BY BranchActs DEF Admit, Ready, ResumeInv, ChainInv, ChainTypes
<1>2. call.key \in Keys /\ call.node \in Nodes /\ opened \in [Labels -> Nat]
  <2>1. call.node # None => call.node[1] \in Labels
    BY <1>1, CallTyped
  <2>2. call.key \in Keys /\ call.node \in Nodes
    BY <1>1, CallTyped
  <2> HIDE DEF call
  <2>3. call.node # None => occurrences[call.node[1]] + 1 \in Nat
    BY <1>1, <2>1
  <2> QED
    BY <1>1, <2>1, <2>2, <2>3
<1>3. /\ Prefixed(after) /\ Counted(after) /\ TypedStands(after) /\ after.options = replayer.options
      /\ after.admissions = (IF verdict = "throws" THEN replayer.admissions ELSE replayer.admissions \cup {receipt})
  <2>1. Prefixed(after) /\ Counted(after) /\ TypedStands(after)
    BY <1>1, <1>2, Admits, AdmitsCounted, AdmitsTyped
  <2>2. DOMAIN replayer = ControllerFields
    BY <1>1 DEF Prefixed
  <2> QED
    BY <2>1, <2>2, AdmitFields
<1>4. receipt \in Receipts /\ receipt \notin replayer.admissions /\ receipt.replayed = (verdict = "replayed")
  <2>1. replayer.readCursor \in Nat /\ \A a \in replayer.admissions : a.seq \in 0..(replayer.readCursor - 1)
    BY <1>1 DEF Prefixed
  <2>2. receipt.seq = replayer.readCursor /\ receipt.replayed = (verdict = "replayed")
    OBVIOUS
  <2>3. receipt \in Receipts
    BY <1>2, <2>1 DEF Receipts
  <2> HIDE DEF receipt
  <2> QED
    BY <2>1, <2>2, <2>3
<1> HIDE DEF call, verdict, after, receipt, opened
\* The branch is where it was, with a call or without.
<1>5. ASSUME Throws(b), occurrences' \in [Labels -> Nat], UNCHANGED calls,
             record' \in Seq(RecordRows), losses' \in Nat, replayer'.options = replayer.options,
             replayer'.admissions = replayer.admissions, Counted(replayer'), TypedStands(replayer')
      PROVE  ChainInv'
  <2>1. at' \in [Branches -> Nat] /\ saw' \in [Branches -> Values] /\ doing' = [doing EXCEPT ![b] = None]
    BY <1>1, <1>5, Leaves
  <2>2. Linked'
    BY <1>1, <1>5, <2>1, LinkSame DEF Inside
  <2>3. calls' \in Nat
    BY <1>1, <1>5
  <2>4. ChainTypes'
    BY <1>1, <1>5, <2>1, <2>3, TypesMove DEF Inside
  <2> QED
    BY <1>1, <1>5, <2>2, <2>4, ChainMoves
<1>6. CASE Throws(b) /\ UNCHANGED <<replayVars, occurrences, calls>>
  BY <1>1, <1>5, <1>6 DEF replayVars
<1>7. CASE verdict = "throws" /\ replayer' = after /\ Throws(b) /\ UNCHANGED <<record, losses, calls>> /\ occurrences' = opened
  BY <1>1, <1>2, <1>3, <1>5, <1>7
<1>8. CASE /\ verdict \notin {"throws", "replayed"} /\ replayer' = Settled(after, receipt, FALSE) /\ Throws(b)
           /\ AppendRow([kind |-> "agent", seq |-> receipt.seq, node |-> receipt.node,
                         key |-> receipt.key, ok |-> FALSE, value |-> None])
           /\ UNCHANGED calls /\ occurrences' = opened
  <2>1. receipt \in after.admissions
    BY <1>3, <1>8
  <2>2. Counted(replayer') /\ TypedStands(replayer')
    BY <1>3, <1>8, <2>1, SettlesCounted, SettlesTyped
  <2>3. replayer'.options = replayer.options /\ replayer'.admissions = after.admissions \ {receipt}
    <3>1. DOMAIN after = ControllerFields
      BY <1>3 DEF Prefixed
    <3>2. ASSUME NEW good \in BOOLEAN
          PROVE  /\ Settled(after, receipt, good).options = after.options
                 /\ Settled(after, receipt, good).admissions = after.admissions \ {receipt}
      BY <3>1, SettleFields
    <3> QED
      BY <1>3, <1>8, <3>2
  <2>4. replayer'.admissions = replayer.admissions
    BY <1>3, <1>4, <1>8, <2>3
  <2>5. record' \in Seq(RecordRows) /\ losses' \in Nat
    <3> DEFINE row == [kind |-> "agent", seq |-> receipt.seq, node |-> receipt.node,
                       key |-> receipt.key, ok |-> FALSE, value |-> None]
    <3>1. row \in RecordRows
      BY <1>4 DEF Receipts, RecordRows, Values
    <3>2. AppendRow(row)
      BY <1>8
    <3> HIDE DEF row
    <3> QED
      BY <1>1, <3>1, <3>2, RowTyped
  <2> QED
    BY <1>2, <1>5, <1>8, <2>2, <2>3, <2>4, <2>5
<1>9. ASSUME NEW c \in OpenCalls, doing' = [doing EXCEPT ![b] = c], c.receipt = receipt, Childless(c),
             verdict # "throws", replayer' = after, occurrences' = opened, losses' \in Nat, calls' \in Nat,
             UNCHANGED <<record, at, saw>>
      PROVE  ChainInv'
  <2>1. replayer'.admissions = replayer.admissions \cup {c.receipt} /\ c # None
    BY <1>3, <1>9, NothingAssumption
  <2>2. Linked'
    BY <1>1, <1>4, <1>9, <2>1, LinkOpened DEF Inside
  <2>3. ChainTypes'
    <3>1. replayer'.options = replayer.options
      BY <1>3, <1>9
    <3> QED
      BY <1>1, <1>2, <1>9, <3>1, TypesMove DEF Inside
  <2> QED
    BY <1>1, <1>3, <1>9, <2>2, <2>3, ChainMoves
<1>10. verdict = "replayed" => RecordedText(replayer) \in Values
  <2> SUFFICES ASSUME verdict = "replayed" PROVE RecordedText(replayer) \in Values
    OBVIOUS
  <2>1. /\ Enabled(replayer)
        /\ \E i : /\ AgentRow(replayer.options.source, i)
                  /\ RecordedText(replayer) = replayer.options.source[i].value
    BY <1>1, ReuseIsPrefixed DEF verdict
  <2>2. PICK i : AgentRow(replayer.options.source, i) /\ RecordedText(replayer) = replayer.options.source[i].value
    BY <2>1
  <2>3. replayer.options.source \in Seq(RecordRows)
    BY <1>1, <2>1 DEF ChainTypes
  <2>4. replayer.options.source[i] \in RecordRows
    BY <2>2, <2>3, ElementOfSeq, LenProperties DEF AgentRow
  <2> QED
    BY <2>2, <2>4 DEF RecordRows
<1>11. ASSUME NEW text \in Values
       PROVE  LET c == Open(receipt, "revalidating", None, text)
                  d == Open(receipt, "", None, text)
              IN  /\ c \in OpenCalls /\ c.receipt = receipt /\ Childless(c)
                  /\ d \in Attempts /\ d.receipt = receipt
  <2>1. calls + 1 \in Nat
    BY <1>1
  <2> DEFINE n == calls + 1
             c == [receipt |-> receipt, stage |-> "revalidating", call |-> n, attempt |-> 1, outcome |-> None, text |-> text]
             d == [receipt |-> receipt, stage |-> "", call |-> n, attempt |-> 1, outcome |-> None, text |-> text]
  <2>2. Open(receipt, "revalidating", None, text) = c /\ Open(receipt, "", None, text) = d
    BY DEF Open
  <2> HIDE DEF n
  <2>3. n \in Nat
    BY <2>1 DEF n
  <2>4. d \in Attempts /\ d.receipt = receipt
    BY <1>4, <2>3 DEF Attempts
  <2>5. c \in OpenCalls /\ c.receipt = receipt /\ c.stage = "revalidating" /\ c.outcome = None
    BY <1>4, <2>3 DEF OpenCalls
  <2> HIDE DEF c, d
  <2>6. Childless(c)
    BY <2>5, ResumeAssumption DEF Childless
  <2> QED
    BY <2>2, <2>4, <2>5, <2>6
<1> DEFINE waiting == Open(receipt, "revalidating", None, RecordedText(replayer))
           reused == Open(receipt, "", None, RecordedText(replayer))
           fresh == Open(receipt, "", None, None)
<1>12. CASE /\ verdict = "replayed" /\ doing' = [doing EXCEPT ![b] = waiting]
            /\ replayer' = after /\ occurrences' = opened /\ UNCHANGED <<record, losses, at, saw, calls>>
  <2>1. waiting \in OpenCalls /\ waiting.receipt = receipt /\ Childless(waiting)
    BY <1>10, <1>11, <1>12
  <2> HIDE DEF waiting
  <2> QED
    BY <1>1, <1>9, <1>12, <2>1
<1>13. CASE /\ verdict = "replayed" /\ Replay(b, reused) /\ calls' = calls + 1
            /\ replayer' = after /\ occurrences' = opened /\ UNCHANGED <<record, at, saw>>
  <2>1. reused \in Attempts /\ reused.receipt = receipt
    BY <1>10, <1>11, <1>13
  <2> HIDE DEF reused
  <2>2. losses' \in Nat /\ \E d \in OpenCalls : doing' = [doing EXCEPT ![b] = d] /\ d.receipt = reused.receipt /\ Childless(d)
    BY <1>1, <1>13, <2>1, ReplayedOpen
  <2>3. PICK d \in OpenCalls : doing' = [doing EXCEPT ![b] = d] /\ d.receipt = receipt /\ Childless(d)
    BY <2>1, <2>2
  <2>4. calls' \in Nat /\ verdict # "throws"
    BY <1>1, <1>13
  <2> QED
    BY <1>9, <1>13, <2>2, <2>3, <2>4
<1>14. CASE /\ verdict \notin {"throws", "replayed"} /\ Queue(b, fresh) /\ calls' = calls + 1
            /\ replayer' = after /\ occurrences' = opened /\ UNCHANGED <<record, at, saw>>
  <2>1. fresh \in Attempts /\ fresh.receipt = receipt
    BY <1>11 DEF Values
  <2> HIDE DEF fresh
  <2>2. ~fresh.receipt.replayed
    BY <1>4, <1>14, <2>1
  <2>3. losses' \in Nat /\ \E d \in OpenCalls : doing' = [doing EXCEPT ![b] = d] /\ d.receipt = fresh.receipt /\ Childless(d)
    BY <1>1, <1>14, <2>1, <2>2, QueuedOpen
  <2>4. PICK d \in OpenCalls : doing' = [doing EXCEPT ![b] = d] /\ d.receipt = receipt /\ Childless(d)
    BY <2>1, <2>3
  <2>5. calls' \in Nat /\ verdict # "throws"
    BY <1>1, <1>14
  <2> QED
    BY <1>9, <1>14, <2>3, <2>4, <2>5
<1> HIDE DEF waiting, reused, fresh
<1> QED
  BY <1>6, <1>7, <1>8, <1>12, <1>13, <1>14 DEF Admit, call, verdict, after, receipt, opened, waiting, reused, fresh

\* The deadline and a crash leave the chain alone; its end asks whether everything was served.
LEMMA RunChain == ASSUME ChainInv, StopRun \/ EndRun \/ Crash \/ UNCHANGED vars PROVE ChainInv'
<1>1. /\ UNCHANGED <<replayVars, callVars, script, run>>
      /\ phase' \in {"running", "ended", "crashed"}
  BY DEF StopRun, EndRun, Crash, vars, ChainInv, ChainTypes
<1>2. ChainTypes' /\ Counted(replayer)' /\ TypedStands(replayer)' /\ Linked'
  <2>1. ChainTypes'
    BY <1>1 DEF ChainInv, ChainTypes, Branches, Enabled, replayVars, callVars
  <2>2. Counted(replayer)' /\ TypedStands(replayer)'
    BY <1>1 DEF ChainInv, replayVars
  <2>3. Linked'
    BY <1>1 DEF ChainInv, Linked, Branches, Childless, replayVars, callVars
  <2> QED
    BY <2>1, <2>2, <2>3
<1>3. Served'
  <2>1. CASE EndRun
    <3> DEFINE good == /\ \A b \in Branches : at[b] # 0
                       /\ replayer.options.prefix =>
                             replayer.replayed >= Cardinality(Rows(replayer.options.source, "agent"))
                       /\ Complete(replayer)
    <3>1. ok' = good /\ phase' = "ended" /\ UNCHANGED replayer
      BY <2>1 DEF EndRun, replayVars
    <3>2. good \in BOOLEAN /\ (good => Complete(replayer))
      OBVIOUS
    <3> HIDE DEF good
    <3> QED
      BY <3>1, <3>2 DEF Served
  <2>2. CASE StopRun \/ Crash \/ UNCHANGED vars
    BY <2>2 DEF ChainInv, Served, StopRun, Crash, vars, replayVars
  <2> QED
    BY <2>1, <2>2
<1> QED
  BY <1>2, <1>3 DEF ChainInv

LEMMA NewControllerCounted ==
  ASSUME NEW options, options.retry # None => options.source # None /\ ~options.prefix
  PROVE  /\ Counted(NewController(options)) /\ TypedStands(NewController(options))
         /\ NewController(options).options = options /\ NewController(options).admissions = {}
<1> DEFINE c == NewController(options)
<1>1. /\ c.options = options /\ c.readCursor = 0 /\ c.verdicts = <<>> /\ c.clock = 0
      /\ c.admissions = {} /\ c.refusal = FALSE /\ c.diverged = FALSE /\ c.replayed = 0 /\ c.fresh = 0
  BY DEF NewController
<1> HIDE DEF c
<1>2. \A set : Got(c, set) = {}
  BY <1>1, EmptySeq, LenProperties DEF Got
<1>3. Counted(c)
  <2>1. Got(c, {"replayed"}) = {} /\ Got(c, {"fresh", "retried"}) = {}
    BY <1>2
  <2>2. Cardinality({}) = 0
    BY FS_EmptySet
  <2>3. \A a : a \notin c.admissions
    BY <1>1
  <2>4. c.replayed = Cardinality(Got(c, {"replayed"})) /\ c.fresh = Cardinality(Got(c, {"fresh", "retried"}))
    BY <1>1, <2>1, <2>2
  <2>5. c.clock \in Nat
    BY <1>1
  <2> QED
    BY <2>3, <2>4, <2>5 DEF Counted
<1>4. TypedStands(c)
  BY <1>1 DEF TypedStands, Typed, Enabled
<1> QED
  BY <1>1, <1>3, <1>4 DEF c

\* A new run: nothing is open, and it may replay what the one before it recorded.
LEMMA BeginChain ==
  ASSUME script' \in Scripts, run' \in 1..script'.runs, losses' \in Nat, calls' = 0, phase' = "running", ok' = FALSE,
         NEW options, replayer' = NewController(options), record' = <<>>,
         options.source = None \/ options.source \in Seq(RecordRows),
         options.retry # None => options.source # None /\ ~options.prefix,
         at' = [b \in DOMAIN script'.branches |-> 1], saw' = [b \in DOMAIN script'.branches |-> None],
         doing' = [b \in DOMAIN script'.branches |-> None], occurrences' = [l \in Labels |-> 0]
  PROVE  ChainInv'
<1>1. /\ Counted(replayer)' /\ TypedStands(replayer)'
      /\ replayer'.options = options /\ replayer'.admissions = {}
  BY NewControllerCounted
<1>2. \A b \in Branches' : doing'[b] = None
  BY DEF Branches
<1>3. Linked'
  BY <1>1, <1>2 DEF Linked
<1>4. ChainTypes'
  <2>1. at' \in [Branches' -> Nat] /\ occurrences' \in [Labels -> Nat]
    BY DEF Branches
  <2>2. saw' \in [Branches' -> Values] /\ doing' \in [Branches' -> {None} \cup OpenCalls]
    BY DEF Branches, Values
  <2>3. record' \in Seq(RecordRows)
    BY EmptySeq
  <2>4. (Enabled(replayer) => replayer.options.source \in Seq(RecordRows))'
    BY <1>1 DEF Enabled
  <2>5. calls' \in Nat
    OBVIOUS
  <2> QED
    BY <2>1, <2>2, <2>3, <2>4, <2>5 DEF ChainTypes
<1> QED
  BY <1>1, <1>3, <1>4 DEF ChainInv, Served

LEMMA ResumeChain == ASSUME ChainInv, NEW s \in Scripts, Resume(s) PROVE ChainInv'
<1>1. /\ run \in Nat /\ run < s.runs /\ run' = run + 1 /\ losses \in Nat /\ losses' = losses /\ record \in Seq(RecordRows)
      /\ s.runs \in Nat
  <2>1. \A x \in Scripts : x.runs \in Nat
    BY ResumeAssumption
  <2>2. script \in Scripts /\ run \in 1..script.runs /\ losses \in Nat /\ record \in Seq(RecordRows)
    BY DEF ChainInv, ChainTypes
  <2>3. run < s.runs /\ run' = run + 1 /\ losses' = losses
    BY DEF Resume
  <2> QED
    BY <2>1, <2>2, <2>3
<1>2. PICK options : /\ Begin(s, options)
                     /\ options.source = None \/ options.source = record
                     /\ options.retry # None => options.source = record /\ ~options.prefix
  <2>1. CASE \E changed \in BOOLEAN :
           Begin(s, Options(None, changed, FALSE, None)) \/ Begin(s, Options(record, changed, FALSE, None))
    BY <2>1 DEF Options
  <2>2. ASSUME NEW retry, Begin(s, Options(record, FALSE, FALSE, retry))
        PROVE  \E options : /\ Begin(s, options)
                            /\ options.source = None \/ options.source = record
                            /\ options.retry # None => options.source = record /\ ~options.prefix
    BY <2>2 DEF Options
  <2>3. CASE Begin(s, Options(record, FALSE, TRUE, None))
    BY <2>3 DEF Options
  <2> QED
    BY <2>1, <2>2, <2>3 DEF Resume
<1>3. options.source = None \/ options.source \in Seq(RecordRows)
  BY <1>1, <1>2
<1>4. options.retry # None => options.source # None /\ ~options.prefix
  BY <1>1, <1>2, NothingAssumption
<1>5. /\ script' = s /\ calls' = 0 /\ phase' = "running" /\ ok' = FALSE /\ replayer' = NewController(options) /\ record' = <<>>
      /\ at' = [b \in DOMAIN s.branches |-> 1] /\ saw' = [b \in DOMAIN s.branches |-> None]
      /\ doing' = [b \in DOMAIN s.branches |-> None] /\ occurrences' = [l \in Labels |-> 0]
  BY <1>2 DEF Begin
<1>6. run' \in 1..script'.runs /\ losses' \in Nat
  BY <1>1, <1>5
<1> QED
  BY <1>3, <1>4, <1>5, <1>6, BeginChain

LEMMA ChainStarts == Init => ChainInv
<1> SUFFICES ASSUME Init PROVE ChainInv
  OBVIOUS
<1> DEFINE options == Options(None, FALSE, FALSE, None)
<1>1. /\ script \in Scripts /\ run = 1 /\ phase = "running" /\ ok = FALSE /\ losses = script.losses
      /\ replayer = NewController(options) /\ record = <<>> /\ calls = 0
      /\ at = [b \in Branches |-> 1] /\ saw = [b \in Branches |-> None]
      /\ doing = [b \in Branches |-> None] /\ occurrences = [l \in Labels |-> 0]
  BY DEF Init
<1>2. options.source = None /\ options.retry = None
  BY DEF Options
<1> HIDE DEF options
<1>3. /\ Counted(replayer) /\ TypedStands(replayer)
      /\ replayer.options = options /\ replayer.admissions = {}
  BY <1>1, <1>2, NewControllerCounted
<1>4. Linked
  BY <1>1, <1>3 DEF Linked
<1>5. ChainTypes
  <2>1. run \in 1..script.runs /\ losses \in Nat /\ calls \in Nat
    <3>1. \A x \in Scripts : x.runs \in Nat \ {0} /\ x.losses \in Nat
      BY ResumeAssumption
    <3>2. script.runs \in Nat \ {0} /\ script.losses \in Nat
      BY <1>1, <3>1
    <3> QED
      BY <1>1, <3>2
  <2>2. at \in [Branches -> Nat] /\ occurrences \in [Labels -> Nat]
    BY <1>1
  <2>3. saw \in [Branches -> Values] /\ doing \in [Branches -> {None} \cup OpenCalls]
    BY <1>1 DEF Values
  <2>4. record \in Seq(RecordRows)
    BY <1>1, EmptySeq
  <2>5. ~Enabled(replayer)
    BY <1>2, <1>3 DEF Enabled
  <2> QED
    BY <1>1, <2>1, <2>2, <2>3, <2>4, <2>5 DEF ChainTypes
<1> QED
  BY <1>1, <1>3, <1>4, <1>5 DEF ChainInv, Served

LEMMA ChainNext == ResumeInv /\ ChainInv /\ [Next]_vars => ChainInv'
<1> SUFFICES ASSUME ResumeInv, ChainInv, [Next]_vars PROVE ChainInv'
  OBVIOUS
<1>1. ASSUME NEW b \in Branches, Admit(b) \/ Revalidate(b) \/ Start(b) \/ Finish(b) \/ Settle(b) \/ ReadClock(b)
      PROVE  ChainInv'
  BY <1>1, AdmitChain, RevalidateChain, StartChain, FinishChain, SettleChain, ReadClockChain
<1> QED
  BY <1>1, RunChain, ResumeChain DEF Next

LEMMA ChainInvariant == Spec => [](ResumeInv /\ ChainInv)
<1>1. Init => ResumeInv /\ ChainInv
  BY ResumeStarts, ChainStarts
<1>2. ResumeInv /\ ChainInv /\ [Next]_vars => (ResumeInv /\ ChainInv)'
  BY ResumeNext, ChainNext
<1> QED
  BY <1>1, <1>2, PTL DEF Spec

\* Every open receipt is a call some branch is doing, and the counts of the
\* result are those of the verdicts (beginAgentAttempt, recordAgentAttempt).
THEOREM ReceiptsMatchCalls == Spec => []ResumeTypeOK
<1>1. ASSUME ResumeInv, ChainInv PROVE ResumeTypeOK
  <2> DEFINE busy == {b \in Branches : doing[b] # None}
             open == [b \in busy |-> doing[b].receipt]
  <2>1. ChainTypes /\ Counted(replayer) /\ Linked /\ Prefixed(replayer)
    BY <1>1 DEF ChainInv, ResumeInv
  <2>2. Cardinality(replayer.admissions) = Cardinality(busy)
    <3>1. IsFiniteSet(busy)
      BY <2>1, BranchesFinite, FS_Subset
    <3>2. open \in Bijection(busy, replayer.admissions)
      <4>1. open \in [busy -> replayer.admissions]
        BY <2>1 DEF Linked
      <4>2. \A b, d \in busy : open[b] = open[d] => b = d
        BY <2>1 DEF Linked
      <4>3. \A a \in replayer.admissions : \E b \in busy : open[b] = a
        BY <2>1 DEF Linked
      <4> HIDE DEF busy, open
      <4> QED
        BY <4>1, <4>2, <4>3 DEF Bijection, Injection, Surjection, IsInjective
    <3> HIDE DEF busy, open
    <3> QED
      BY <3>1, <3>2, FS_Bijection DEF ExistsBijection
  <2>3. \A b \in Branches : doing[b] # None =>
           /\ doing[b].stage \in {"revalidating", "queued", "running", "answered"}
           /\ doing[b].receipt \in replayer.admissions
    <3>1. \A c \in OpenCalls : c.stage \in {"revalidating", "queued", "running", "answered"}
      BY DEF OpenCalls
    <3> QED
      BY <1>1, <3>1, OpenCall
  <2>4. Len(replayer.verdicts) = replayer.readCursor /\ \A i \in DOMAIN replayer.verdicts : replayer.verdicts[i] \in Verdicts
    BY <2>1, ElementOfSeq, LenProperties DEF Prefixed
  <2>5. /\ replayer.replayed = Cardinality(Got(replayer, {"replayed"}))
        /\ replayer.fresh = Cardinality(Got(replayer, {"fresh", "retried"}))
    BY <2>1 DEF Counted
  <2>6. replayer.admissions \subseteq Receipts
    BY <2>1 DEF Counted
  <2> QED
    BY <2>1, <2>2, <2>3, <2>4, <2>5, <2>6 DEF ResumeTypeOK, ChainTypes, Got
<1> QED
  BY <1>1, ChainInvariant, PTL

\* A typed resume never gives a call that was confirmed another child, and one
\* that succeeds was served the whole record, its failures repeated
\* (createWorkflowReplayController, assertComplete).
THEOREM TypedResumeLosesNothing == Spec => [](Typed(replayer) => ConfirmedWorkStands)
<1>1. ASSUME ResumeInv, ChainInv, Typed(replayer) PROVE ConfirmedWorkStands
  <2> DEFINE source == replayer.options.source
  <2>1. /\ Enabled(replayer) /\ ~replayer.options.prefix /\ TypedStands(replayer) /\ Prefixed(replayer)
        /\ IsRecord(source) /\ replayer.readCursor \in Nat
    BY <1>1 DEF ChainInv, ResumeInv, TypedStands, Prefixed
  <2>2. \A i \in Rows(source, "agent") : AgentRow(source, i) /\ source[i].seq \in Nat
    BY <2>1 DEF Rows, AgentRow, IsRecord
  <2>3. \A i \in Rows(source, "agent") : source[i].seq < replayer.readCursor =>
           LET p == source[i].seq + 1
           IN  /\ replayer.verdicts[p] = "replayed" => source[i].ok
               /\ replayer.verdicts[p] = "retried" => ~source[i].ok
               /\ replayer.verdicts[p] # "fresh"
    <3> SUFFICES ASSUME NEW i \in Rows(source, "agent"), source[i].seq < replayer.readCursor, NEW p, p = source[i].seq + 1
                 PROVE  /\ replayer.verdicts[p] = "replayed" => source[i].ok
                        /\ replayer.verdicts[p] = "retried" => ~source[i].ok
                        /\ replayer.verdicts[p] # "fresh"
      OBVIOUS
    <3>1. p \in 1..replayer.readCursor /\ source[i].seq = p - 1
      BY <2>1, <2>2
    <3> QED
      BY <1>1, <2>1, <3>1 DEF TypedStands
  <2>4. ASSUME NEW b \in Branches, doing[b] # None, doing[b].stage \in {"queued", "running"},
               Confirmed(doing[b].receipt)
        PROVE  FALSE
    <3> DEFINE r == doing[b].receipt
    <3>1. /\ r \in replayer.admissions /\ Childless(doing[b])
      BY <1>1, <2>4, OpenCall
    <3>2. ~r.replayed
      BY <2>4, <3>1 DEF Childless
    <3>3. replayer.verdicts[r.seq + 1] \in {"fresh", "retried"} /\ r.seq < replayer.readCursor
      BY <1>1, <2>1, <3>1, <3>2 DEF ChainInv, Counted, Prefixed
    <3>4. PICK i \in Rows(source, "agent") : source[i].ok /\ source[i].seq = r.seq
      BY <2>1, <2>4 DEF Confirmed, AgentRows
    <3> QED
      BY <2>3, <3>3, <3>4
  <2>5. ASSUME phase = "ended", ok, NEW i \in Rows(source, "agent")
        PROVE  replayer.verdicts[source[i].seq + 1] = (IF source[i].ok THEN "replayed" ELSE "retried")
    <3>1. ~replayer.refusal /\ replayer.readCursor >= Extent(source)
      BY <1>1, <2>5 DEF ChainInv, Served, Complete
    <3>2. source[i].seq < replayer.readCursor
      BY <2>1, <2>2, <3>1, PastTheRecord
    <3>3. source[i].seq + 1 \in 1..replayer.readCursor
      BY <2>1, <2>2, <3>2
    <3>4. replayer.verdicts[source[i].seq + 1] \in {"replayed", "retried", "fresh"}
      BY <1>1, <2>1, <3>1, <3>3 DEF TypedStands
    <3> QED
      BY <2>3, <3>2, <3>4
  <2> QED
    BY <2>4, <2>5 DEF ConfirmedWorkStands, AgentRows
<1> QED
  BY <1>1, ChainInvariant, PTL

-----------------------------------------------------------------------------
(***************************************************************************)
(* The first run of a chain, as long as nothing was lost and it was not     *)
(* stopped: its record and its journal tell of every call, and agree.       *)
(***************************************************************************)
Undisturbed == run = 1 /\ losses = script.losses /\ ~stopped

\* The last line of those that say how the call o ended.
Terminal(line, o) == line.kind \in {"end", "error"} /\ line.logical = o

LastLine(lines, o, i) ==
    /\ i \in DOMAIN lines /\ Terminal(lines[i], o)
    /\ \A j \in DOMAIN lines : Terminal(lines[j], o) => j <= i

ClockRow(source, i) == i \in DOMAIN source /\ source[i].kind = "clock"

\* One row for every call that was settled and for every clock value.
RecordTells(rows, c) ==
    /\ \A i : AgentRow(rows, i) => rows[i].seq \in 0..(c.readCursor - 1)
    /\ \A i : ClockRow(rows, i) => rows[i].seq \in 0..(c.clock - 1)
    /\ \A i, j : AgentRow(rows, i) /\ AgentRow(rows, j) /\ rows[i].seq = rows[j].seq => i = j
    /\ \A i, j : ClockRow(rows, i) /\ ClockRow(rows, j) /\ rows[i].seq = rows[j].seq => i = j
    /\ \A o \in 0..(c.readCursor - 1) :
          (\E i : AgentRow(rows, i) /\ rows[i].seq = o) <=> (\A a \in c.admissions : a.seq # o)
    /\ \A o \in 0..(c.clock - 1) : \E i : ClockRow(rows, i) /\ rows[i].seq = o

\* Every admitted call was queued or started, and nothing else was.
CallsTold(lines, cursor) ==
    /\ \A i \in DOMAIN lines : lines[i].kind \in {"queued", "start"} => lines[i].logical \in 0..(cursor - 1)
    /\ \A o \in 0..(cursor - 1) : \E i \in DOMAIN lines : lines[i].kind \in {"queued", "start"} /\ lines[i].logical = o

\* The last line about a call says what its row says, or will say.
RowsTold(lines, rows) ==
    \A i : AgentRow(rows, i) => \E k : LastLine(lines, rows[i].seq, k) /\ lines[k].ok = rows[i].ok

CallTold(lines, c) ==
    c.stage = "answered" /\ c.outcome # "timeout" =>
       \E k : LastLine(lines, c.receipt.seq, k) /\ (lines[k].ok <=> c.outcome = "answer")

\* What was started has ended, or is running.
StartsTold(lines, work) ==
    \A i \in DOMAIN lines : lines[i].kind = "start" =>
       \/ \E j \in DOMAIN lines : lines[j].kind \in {"end", "error"} /\ lines[j].call = lines[i].call
       \/ \E b \in DOMAIN work : work[b] # None /\ work[b].stage = "running" /\ work[b].call = lines[i].call

Told ==
    /\ journal \in Seq(JournalLines) /\ ~Enabled(replayer) /\ ~replayer.refusal
    /\ \A p \in 1..replayer.readCursor : replayer.verdicts[p] = "fresh"
    /\ RecordTells(record, replayer) /\ CallsTold(journal, replayer.readCursor)
    /\ RowsTold(journal, record) /\ StartsTold(journal, doing)
    /\ \A b \in Branches : doing[b] # None => doing[b].stage # "revalidating" /\ CallTold(journal, doing[b])
    /\ replayer.readCursor = 0 /\ replayer.clock = 0 => \A b \in Branches : at[b] = 1

FirstRunInv ==
    /\ run = 1 => losses <= script.losses
    /\ phase = "ended" => \A b \in Branches : doing[b] = None /\ Done(b)
    /\ Undisturbed => Told

LEMMA LineAdded ==
  ASSUME NEW lines \in Seq(JournalLines), NEW line \in JournalLines
  PROVE  LET m == Append(lines, line)
             n == Len(lines) + 1
         IN  /\ m \in Seq(JournalLines) /\ n \in Nat /\ DOMAIN m = DOMAIN lines \cup {n} /\ m[n] = line
             /\ \A i \in DOMAIN lines : i \in Nat /\ i < n /\ m[i] = lines[i]
<1>1. /\ Append(lines, line) \in Seq(JournalLines) /\ Len(Append(lines, line)) = Len(lines) + 1
      /\ \A i \in 1..Len(lines) : Append(lines, line)[i] = lines[i]
      /\ Append(lines, line)[Len(lines) + 1] = line
      /\ DOMAIN lines = 1..Len(lines) /\ Len(lines) \in Nat
  BY AppendProperties, LenProperties
<1>2. DOMAIN Append(lines, line) = 1..(Len(lines) + 1)
  BY <1>1, LenProperties
<1> QED
  BY <1>1, <1>2

\* One line reaches the journal when no write is lost.
LEMMA LineKept ==
  ASSUME journal \in Seq(JournalLines), NEW line \in JournalLines, losses \in Nat, Emit(<<line>>), losses' = losses
  PROVE  journal' = Append(journal, line)
<1>1. journal' = journal \o <<line>>
  BY DEF Emit
<1> QED
  BY <1>1, AppendIsConcat

LEMMA LastKept ==
  ASSUME NEW lines \in Seq(JournalLines), NEW line \in JournalLines, NEW o, ~Terminal(line, o),
         NEW k, LastLine(lines, o, k)
  PROVE  LastLine(Append(lines, line), o, k) /\ Append(lines, line)[k] = lines[k]
<1> DEFINE m == Append(lines, line)
           n == Len(lines) + 1
<1>1. /\ DOMAIN m = DOMAIN lines \cup {n} /\ m[n] = line
      /\ \A i \in DOMAIN lines : m[i] = lines[i]
  BY LineAdded
<1> HIDE DEF m, n
<1> QED
  BY <1>1 DEF LastLine, m

LEMMA LastNew ==
  ASSUME NEW lines \in Seq(JournalLines), NEW line \in JournalLines, NEW o, Terminal(line, o)
  PROVE  \E k : LastLine(Append(lines, line), o, k) /\ Append(lines, line)[k] = line
<1> DEFINE m == Append(lines, line)
           n == Len(lines) + 1
<1>1. /\ n \in Nat /\ DOMAIN m = DOMAIN lines \cup {n} /\ m[n] = line
      /\ \A i \in DOMAIN lines : i \in Nat /\ i < n /\ m[i] = lines[i]
  BY LineAdded
<1> HIDE DEF m, n
<1>2. \A j \in DOMAIN m : j <= n
  BY <1>1
<1>3. LastLine(m, o, n)
  BY <1>1, <1>2 DEF LastLine
<1> QED
  BY <1>1, <1>3 DEF m

\* A line about a call that has no row leaves the rows told.
LEMMA RowsStayTold ==
  ASSUME NEW lines \in Seq(JournalLines), NEW line \in JournalLines, NEW rows, RowsTold(lines, rows),
         \A i : AgentRow(rows, i) => ~Terminal(line, rows[i].seq)
  PROVE  RowsTold(Append(lines, line), rows)
<1> DEFINE m == Append(lines, line)
<1>1. ASSUME NEW i, AgentRow(rows, i) PROVE \E k : LastLine(m, rows[i].seq, k) /\ m[k].ok = rows[i].ok
  <2>1. PICK k : LastLine(lines, rows[i].seq, k) /\ lines[k].ok = rows[i].ok
    BY <1>1 DEF RowsTold
  <2>2. LastLine(m, rows[i].seq, k) /\ m[k] = lines[k]
    BY <1>1, <2>1, LastKept
  <2> QED
    BY <2>1, <2>2
<1> QED
  BY <1>1 DEF RowsTold

LEMMA CallStaysTold ==
  ASSUME NEW lines \in Seq(JournalLines), NEW line \in JournalLines, NEW c, CallTold(lines, c),
         ~Terminal(line, c.receipt.seq)
  PROVE  CallTold(Append(lines, line), c)
<1> DEFINE m == Append(lines, line)
<1>1. ASSUME NEW k, LastLine(lines, c.receipt.seq, k)
      PROVE  LastLine(m, c.receipt.seq, k) /\ m[k] = lines[k]
  BY <1>1, LastKept
<1> HIDE DEF m
<1> QED
  BY <1>1 DEF CallTold, m

LEMMA CallsStayTold ==
  ASSUME NEW lines \in Seq(JournalLines), NEW line \in JournalLines, NEW cursor, CallsTold(lines, cursor),
         line.kind \in {"queued", "start"} => line.logical \in 0..(cursor - 1)
  PROVE  CallsTold(Append(lines, line), cursor)
<1> DEFINE m == Append(lines, line)
           n == Len(lines) + 1
<1>1. /\ DOMAIN m = DOMAIN lines \cup {n} /\ m[n] = line
      /\ \A i \in DOMAIN lines : m[i] = lines[i]
  BY LineAdded
<1> HIDE DEF m, n
<1> QED
  BY <1>1 DEF CallsTold, m

LEMMA NewCallTold ==
  ASSUME NEW lines \in Seq(JournalLines), NEW line \in JournalLines, NEW cursor \in Nat, CallsTold(lines, cursor),
         line.kind = "queued", line.logical = cursor
  PROVE  CallsTold(Append(lines, line), cursor + 1)
<1> DEFINE m == Append(lines, line)
           n == Len(lines) + 1
<1>1. /\ DOMAIN m = DOMAIN lines \cup {n} /\ m[n] = line
      /\ \A i \in DOMAIN lines : m[i] = lines[i]
  BY LineAdded
<1> HIDE DEF m, n
<1>2. \A o \in 0..cursor : o = cursor \/ o \in 0..(cursor - 1)
  OBVIOUS
<1>3. 0..(cursor + 1 - 1) = 0..cursor /\ cursor \in 0..cursor /\ \A o \in 0..(cursor - 1) : o \in 0..cursor
  OBVIOUS
<1>4. ASSUME NEW i \in DOMAIN m, m[i].kind \in {"queued", "start"} PROVE m[i].logical \in 0..cursor
  BY <1>1, <1>3, <1>4 DEF CallsTold
<1>5. ASSUME NEW o \in 0..cursor PROVE \E i \in DOMAIN m : m[i].kind \in {"queued", "start"} /\ m[i].logical = o
  <2>1. CASE o = cursor
    BY <1>1, <2>1
  <2>2. CASE o \in 0..(cursor - 1)
    BY <1>1, <2>2 DEF CallsTold
  <2> QED
    BY <1>2, <2>1, <2>2
<1> QED
  BY <1>3, <1>4, <1>5 DEF CallsTold, m

\* One branch moves on: what it had started has ended, or goes on under its number.
LEMMA StartsStayTold ==
  ASSUME NEW lines \in Seq(JournalLines), NEW line \in JournalLines, NEW work, NEW b \in DOMAIN work, NEW c,
         StartsTold(lines, work), line.kind = "start" => c # None /\ c.stage = "running" /\ c.call = line.call,
         work[b] # None /\ work[b].stage = "running" => line.kind \in {"end", "error"} /\ line.call = work[b].call
  PROVE  StartsTold(Append(lines, line), [work EXCEPT ![b] = c])
<1> DEFINE m == Append(lines, line)
           n == Len(lines) + 1
<1>1. /\ DOMAIN m = DOMAIN lines \cup {n} /\ m[n] = line
      /\ \A i \in DOMAIN lines : m[i] = lines[i]
  BY LineAdded
<1> DEFINE w == [work EXCEPT ![b] = c]
<1>2. DOMAIN w = DOMAIN work /\ w[b] = c /\ \A d \in DOMAIN work : d # b => w[d] = work[d]
  OBVIOUS
<1> HIDE DEF m, n, w
<1>3. ASSUME NEW i \in DOMAIN m, m[i].kind = "start"
      PROVE  \/ \E j \in DOMAIN m : m[j].kind \in {"end", "error"} /\ m[j].call = m[i].call
             \/ \E d \in DOMAIN w : w[d] # None /\ w[d].stage = "running" /\ w[d].call = m[i].call
  <2>1. CASE i = n
    BY <1>1, <1>2, <1>3, <2>1
  <2>2. ASSUME i \in DOMAIN lines, NEW j \in DOMAIN lines, lines[j].kind \in {"end", "error"}, lines[j].call = lines[i].call
        PROVE  \E k \in DOMAIN m : m[k].kind \in {"end", "error"} /\ m[k].call = m[i].call
    BY <1>1, <2>2
  <2>3. ASSUME i \in DOMAIN lines, NEW d \in DOMAIN work, work[d] # None, work[d].stage = "running", work[d].call = lines[i].call
        PROVE  \/ \E j \in DOMAIN m : m[j].kind \in {"end", "error"} /\ m[j].call = m[i].call
               \/ \E e \in DOMAIN w : w[e] # None /\ w[e].stage = "running" /\ w[e].call = m[i].call
    <3>1. CASE d = b
      BY <1>1, <2>3, <3>1
    <3>2. CASE d # b
      BY <1>1, <1>2, <2>3, <3>2
    <3> QED
      BY <3>1, <3>2
  <2>4. i = n \/ i \in DOMAIN lines
    BY <1>1
  <2>5. i \in DOMAIN lines => lines[i].kind = "start"
    BY <1>1, <1>3
  <2> QED
    BY <2>1, <2>2, <2>3, <2>4, <2>5 DEF StartsTold
<1> QED
  BY <1>3 DEF StartsTold, m, w

\* A branch that had started nothing moves without a line.
LEMMA StartsKept ==
  ASSUME NEW lines, NEW work, NEW b \in DOMAIN work, NEW c,
         StartsTold(lines, work), work[b] = None \/ work[b].stage # "running"
  PROVE  StartsTold(lines, [work EXCEPT ![b] = c])
<1> DEFINE w == [work EXCEPT ![b] = c]
<1>1. DOMAIN w = DOMAIN work /\ \A d \in DOMAIN work : d # b => w[d] = work[d]
  OBVIOUS
<1> HIDE DEF w
<1> QED
  BY <1>1 DEF StartsTold, w

LEMMA RecordAdmits ==
  ASSUME NEW rows, NEW c, NEW d, NEW receipt, RecordTells(rows, c), c.readCursor \in Nat,
         \A a \in c.admissions : a.seq \in 0..(c.readCursor - 1), receipt.seq = c.readCursor,
         d.readCursor = c.readCursor + 1, d.clock = c.clock, d.admissions = c.admissions \cup {receipt}
  PROVE  RecordTells(rows, d)
<1>1. /\ 0..(d.readCursor - 1) = 0..c.readCursor /\ c.readCursor \notin 0..(c.readCursor - 1)
      /\ \A o : o \in 0..(c.readCursor - 1) => o \in 0..c.readCursor
      /\ \A o \in 0..c.readCursor : o = c.readCursor \/ o \in 0..(c.readCursor - 1)
  OBVIOUS
<1>2. ASSUME NEW o \in 0..c.readCursor
      PROVE  (\E i : AgentRow(rows, i) /\ rows[i].seq = o) <=> (\A a \in d.admissions : a.seq # o)
  <2>1. CASE o = c.readCursor
    BY <1>1, <2>1 DEF RecordTells
  <2>2. CASE o \in 0..(c.readCursor - 1)
    <3>1. o # c.readCursor
      BY <1>1, <2>2
    <3>2. (\A a \in d.admissions : a.seq # o) <=> (\A a \in c.admissions : a.seq # o)
      BY <3>1
    <3> QED
      BY <2>2, <3>2 DEF RecordTells
  <2> QED
    BY <1>1, <2>1, <2>2
<1> QED
  BY <1>1, <1>2 DEF RecordTells

LEMMA RecordSettles ==
  ASSUME NEW rows, rows \in Seq(Range(rows)), NEW row, NEW c, NEW d, NEW receipt \in c.admissions, RecordTells(rows, c),
         receipt.seq \in 0..(c.readCursor - 1), row.kind = "agent", row.seq = receipt.seq,
         \A a, e \in c.admissions : a.seq = e.seq => a = e,
         d.readCursor = c.readCursor, d.clock = c.clock, d.admissions = c.admissions \ {receipt}
  PROVE  RecordTells(Append(rows, row), d)
<1> DEFINE t == Append(rows, row)
           n == Len(rows) + 1
<1>1. /\ DOMAIN t = DOMAIN rows \cup {n} /\ n \notin DOMAIN rows /\ t[n] = row
      /\ \A i \in DOMAIN rows : t[i] = rows[i]
  BY Appended
<1> HIDE DEF t, n
<1>2. /\ \A i : AgentRow(t, i) <=> AgentRow(rows, i) \/ i = n
      /\ \A i : AgentRow(rows, i) => i # n /\ t[i] = rows[i]
      /\ \A i : ClockRow(t, i) <=> ClockRow(rows, i)
      /\ \A i : ClockRow(rows, i) => t[i] = rows[i]
  BY <1>1 DEF AgentRow, ClockRow
<1>3. \A i : AgentRow(rows, i) => rows[i].seq # row.seq
  BY DEF RecordTells
<1>4. ASSUME NEW o \in 0..(c.readCursor - 1)
      PROVE  (\E i : AgentRow(t, i) /\ t[i].seq = o) <=> (\A a \in d.admissions : a.seq # o)
  <2>1. CASE o = row.seq
    BY <1>1, <1>2, <2>1
  <2>2. CASE o # row.seq
    <3>1. (\E i : AgentRow(t, i) /\ t[i].seq = o) <=> (\E i : AgentRow(rows, i) /\ rows[i].seq = o)
      BY <1>1, <1>2, <2>2
    <3>2. (\A a \in d.admissions : a.seq # o) <=> (\A a \in c.admissions : a.seq # o)
      BY <2>2
    <3> QED
      BY <3>1, <3>2 DEF RecordTells
  <2> QED
    BY <2>1, <2>2
<1>5. \A i : AgentRow(t, i) => t[i].seq \in 0..(c.readCursor - 1)
  BY <1>1, <1>2 DEF RecordTells
<1>6. \A i, j : AgentRow(t, i) /\ AgentRow(t, j) /\ t[i].seq = t[j].seq => i = j
  BY <1>1, <1>2, <1>3 DEF RecordTells
<1>7. /\ \A i : ClockRow(t, i) => t[i].seq \in 0..(c.clock - 1)
      /\ \A i, j : ClockRow(t, i) /\ ClockRow(t, j) /\ t[i].seq = t[j].seq => i = j
      /\ \A o \in 0..(c.clock - 1) : \E i : ClockRow(t, i) /\ t[i].seq = o
  BY <1>2 DEF RecordTells
<1> QED
  BY <1>4, <1>5, <1>6, <1>7 DEF RecordTells, t

LEMMA RecordReads ==
  ASSUME NEW rows, rows \in Seq(Range(rows)), NEW row, NEW c, NEW d, RecordTells(rows, c), c.clock \in Nat,
         row.kind = "clock", row.seq = c.clock,
         d.readCursor = c.readCursor, d.clock = c.clock + 1, d.admissions = c.admissions
  PROVE  RecordTells(Append(rows, row), d)
<1> DEFINE t == Append(rows, row)
           n == Len(rows) + 1
<1>1. /\ DOMAIN t = DOMAIN rows \cup {n} /\ n \notin DOMAIN rows /\ t[n] = row
      /\ \A i \in DOMAIN rows : t[i] = rows[i]
  BY Appended
<1> HIDE DEF t, n
<1>2. /\ \A i : ClockRow(t, i) <=> ClockRow(rows, i) \/ i = n
      /\ \A i : ClockRow(rows, i) => i # n /\ t[i] = rows[i]
      /\ \A i : AgentRow(t, i) <=> AgentRow(rows, i)
      /\ \A i : AgentRow(rows, i) => t[i] = rows[i]
  BY <1>1 DEF AgentRow, ClockRow
<1>3. /\ 0..(d.clock - 1) = 0..c.clock /\ c.clock \notin 0..(c.clock - 1) /\ c.clock \in 0..c.clock
      /\ \A o : o \in 0..(c.clock - 1) => o \in 0..c.clock
      /\ \A o \in 0..c.clock : o = c.clock \/ o \in 0..(c.clock - 1)
  OBVIOUS
<1>4. ASSUME NEW o \in 0..c.clock PROVE \E i : ClockRow(t, i) /\ t[i].seq = o
  <2>1. CASE o = c.clock
    BY <1>1, <1>2, <2>1
  <2>2. CASE o \in 0..(c.clock - 1)
    BY <1>2, <2>2 DEF RecordTells
  <2> QED
    BY <1>3, <2>1, <2>2
<1>5. \A i : ClockRow(t, i) => t[i].seq \in 0..c.clock
  BY <1>1, <1>2, <1>3 DEF RecordTells
<1>6. \A i, j : ClockRow(t, i) /\ ClockRow(t, j) /\ t[i].seq = t[j].seq => i = j
  <2>1. \A i : ClockRow(rows, i) => rows[i].seq # row.seq
    BY <1>3 DEF RecordTells
  <2> QED
    BY <1>1, <1>2, <2>1 DEF RecordTells
<1>7. /\ \A i : AgentRow(t, i) => t[i].seq \in 0..(d.readCursor - 1)
      /\ \A i, j : AgentRow(t, i) /\ AgentRow(t, j) /\ t[i].seq = t[j].seq => i = j
  BY <1>2 DEF RecordTells
<1>8. ASSUME NEW o \in 0..(d.readCursor - 1)
      PROVE  (\E i : AgentRow(t, i) /\ t[i].seq = o) <=> (\A a \in d.admissions : a.seq # o)
  <2>1. (\E i : AgentRow(t, i) /\ t[i].seq = o) <=> (\E i : AgentRow(rows, i) /\ rows[i].seq = o)
    BY <1>2
  <2>2. o \in 0..(c.readCursor - 1)
    OBVIOUS
  <2> QED
    BY <2>1, <2>2 DEF RecordTells
<1> QED
  BY <1>3, <1>4, <1>5, <1>6, <1>7, <1>8 DEF RecordTells, t

\* A row says what the last line about its call does.
LEMMA RowTold ==
  ASSUME NEW lines, NEW rows, rows \in Seq(Range(rows)), NEW row, RowsTold(lines, rows),
         row.kind = "agent" => \E k : LastLine(lines, row.seq, k) /\ lines[k].ok = row.ok
  PROVE  RowsTold(lines, Append(rows, row))
<1> DEFINE t == Append(rows, row)
           n == Len(rows) + 1
<1>1. /\ DOMAIN t = DOMAIN rows \cup {n} /\ n \notin DOMAIN rows /\ t[n] = row
      /\ \A i \in DOMAIN rows : t[i] = rows[i]
  BY Appended
<1> HIDE DEF t, n
<1>2. \A i : AgentRow(t, i) => (AgentRow(rows, i) /\ t[i] = rows[i]) \/ (t[i] = row /\ row.kind = "agent")
  BY <1>1 DEF AgentRow
<1> QED
  BY <1>2 DEF RowsTold, t

LEMMA LineTyped ==
  ASSUME NEW c \in OpenCalls, NEW kind \in {"queued", "start", "end", "error"}, NEW good \in BOOLEAN
  PROVE  /\ Line(kind, c, good) \in JournalLines /\ Line(kind, c, good).kind = kind /\ Line(kind, c, good).call = c.call
         /\ Line(kind, c, good).logical = c.receipt.seq /\ Line(kind, c, good).ok = good
<1>1. c.call \in Nat /\ c.receipt.seq \in Nat /\ c.receipt.node \in Nodes
  BY DEF OpenCalls, Receipts
<1> QED
  BY <1>1 DEF Line, JournalLines

\* Nothing that happens in a run gives a write back.
LEMMA BranchLosses ==
  ASSUME losses \in Nat, NEW b, Admit(b) \/ Revalidate(b) \/ Start(b) \/ Finish(b) \/ Settle(b) \/ ReadClock(b)
  PROVE  losses' <= losses /\ stopped' = stopped
<1>1. losses' = losses => losses' <= losses
  OBVIOUS
<1>2. ASSUME NEW lines, Emit(lines) PROVE losses' <= losses
  BY <1>2 DEF Emit
<1>3. ASSUME NEW row, AppendRow(row) PROVE losses' <= losses
  BY <1>3 DEF AppendRow
<1>4. ASSUME NEW c, Queue(b, c) \/ Replay(b, c) PROVE losses' <= losses
  BY <1>1, <1>2, <1>4 DEF Queue, Replay
<1>5. Admit(b) => losses' <= losses
  BY <1>1, <1>3, <1>4 DEF Admit, replayVars
<1>6. Revalidate(b) \/ Settle(b) => losses' <= losses
  BY <1>1, <1>3, <1>4 DEF Revalidate, Settle, RecordAgentAttempt
<1>7. Start(b) \/ Finish(b) => losses' <= losses
  BY <1>2 DEF Start, Finish
<1>8. ReadClock(b) => losses' <= losses
  BY <1>1, <1>3 DEF ReadClock, replayVars
<1>9. stopped' = stopped
  BY DEF Admit, Revalidate, Start, Finish, Settle, ReadClock
<1> QED
  BY <1>5, <1>6, <1>7, <1>8, <1>9

\* What an undisturbed first run knows of its calls.
UndisturbedInv == ResumeInv /\ ChainInv /\ Told /\ run = 1 /\ ~stopped

LEMMA ToldFacts ==
  ASSUME UndisturbedInv
  PROVE  /\ DOMAIN replayer = ControllerFields /\ replayer.readCursor \in Nat /\ replayer.clock \in Nat /\ losses \in Nat
         /\ \A a \in replayer.admissions : a \in Receipts /\ ~a.replayed /\ a.seq \in 0..(replayer.readCursor - 1)
         /\ \A a, d \in replayer.admissions : a.seq = d.seq => a = d
         /\ record \in Seq(Range(record)) /\ DOMAIN doing = Branches
         /\ \A b \in Branches : doing[b] # None => doing[b] \in OpenCalls /\ doing[b].receipt \in replayer.admissions
<1>1. ResumeInv /\ ChainInv /\ Told
  BY DEF UndisturbedInv
<1>2. Prefixed(replayer) /\ IsRecord(record) /\ DOMAIN doing = Branches
  BY <1>1 DEF ResumeInv
<1>3. Counted(replayer) /\ losses \in Nat
  BY <1>1 DEF ChainInv, ChainTypes
<1>4. DOMAIN replayer = ControllerFields /\ replayer.readCursor \in Nat /\ record \in Seq(Range(record)) /\ replayer.clock \in Nat
  BY <1>2, <1>3 DEF Prefixed, IsRecord, Counted
<1>5. ASSUME NEW a \in replayer.admissions PROVE a \in Receipts /\ ~a.replayed /\ a.seq \in 0..(replayer.readCursor - 1)
  <2>1. a.seq \in 0..(replayer.readCursor - 1) /\ a \in Receipts
    BY <1>2, <1>3 DEF Prefixed, Counted
  <2>2. replayer.verdicts[a.seq + 1] = "fresh"
    <3>1. a.seq + 1 \in 1..replayer.readCursor
      BY <1>4, <2>1
    <3> QED
      BY <1>1, <3>1 DEF Told
  <2>3. replayer.verdicts[a.seq + 1] \in (IF a.replayed THEN {"replayed"} ELSE {"fresh", "retried"})
    BY <1>3 DEF Counted
  <2> QED
    BY <2>1, <2>2, <2>3
<1>6. \A a, d \in replayer.admissions : a.seq = d.seq => a = d
  BY <1>3 DEF Counted
<1>7. \A b \in Branches : doing[b] # None => doing[b] \in OpenCalls /\ doing[b].receipt \in replayer.admissions
  BY <1>1, OpenCall
<1> QED
  BY <1>2, <1>3, <1>4, <1>5, <1>6, <1>7

\* Two calls that are open have different ordinals.
LEMMA OtherCalls ==
  ASSUME UndisturbedInv, NEW b \in Branches, NEW d \in Branches, doing[b] # None, doing[d] # None, b # d
  PROVE  doing[b].receipt.seq # doing[d].receipt.seq
<1>1. ChainInv
  BY DEF UndisturbedInv
<1>2. doing[b].receipt # doing[d].receipt
  BY <1>1 DEF ChainInv, Linked
<1> QED
  BY <1>2, ToldFacts

\* A call that is open has no row.
LEMMA OpenHasNoRow ==
  ASSUME UndisturbedInv, NEW a \in replayer.admissions
  PROVE  \A i : AgentRow(record, i) => record[i].seq # a.seq
<1>1. a.seq \in 0..(replayer.readCursor - 1)
  BY ToldFacts
<1>2. RecordTells(record, replayer)
  BY DEF UndisturbedInv, Told
<1>3. \A o \in 0..(replayer.readCursor - 1) :
         (\E i : AgentRow(record, i) /\ record[i].seq = o) <=> (\A e \in replayer.admissions : e.seq # o)
  BY <1>2 DEF RecordTells
<1> QED
  BY <1>1, <1>3

\* An open call moves on, with a line.
LEMMA LineStep ==
  ASSUME UndisturbedInv, NEW b \in Branches, doing[b] # None, NEW c, c # None, c.receipt = doing[b].receipt,
         c.stage # "revalidating",
         NEW line \in JournalLines, line.logical = doing[b].receipt.seq, Emit(<<line>>), losses' = losses,
         doing' = [doing EXCEPT ![b] = c], UNCHANGED <<replayer, record, at, script>>,
         CallTold(Append(journal, line), c),
         line.kind = "start" => c.stage = "running" /\ c.call = line.call,
         doing[b].stage = "running" => line.kind \in {"end", "error"} /\ line.call = doing[b].call
  PROVE  Told'
<1>1. Told /\ journal \in Seq(JournalLines) /\ DOMAIN doing = Branches /\ losses \in Nat
  BY ToldFacts DEF UndisturbedInv, Told
<1>2. journal' = Append(journal, line)
  BY <1>1, LineKept
<1>3. journal' \in Seq(JournalLines)
  BY <1>1, <1>2, LineAdded
<1>4. CallsTold(journal', replayer.readCursor)
  <2>1. line.logical \in 0..(replayer.readCursor - 1)
    BY ToldFacts
  <2> QED
    BY <1>1, <1>2, <2>1, CallsStayTold DEF Told
<1>5. RowsTold(journal', record)
  <2>1. \A i : AgentRow(record, i) => ~Terminal(line, record[i].seq)
    BY ToldFacts, OpenHasNoRow DEF Terminal
  <2> QED
    BY <1>1, <1>2, <2>1, RowsStayTold DEF Told
<1>6. StartsTold(journal', doing')
  BY <1>1, <1>2, StartsStayTold DEF Told
<1>7. \A d \in Branches : doing'[d] = IF d = b THEN c ELSE doing[d]
  BY <1>1
<1>8. ASSUME NEW d \in Branches, doing'[d] # None PROVE doing'[d].stage # "revalidating" /\ CallTold(journal', doing'[d])
  <2>1. CASE d = b
    BY <1>2, <1>7, <2>1
  <2>2. CASE d # b
    <3>1. doing[d] # None /\ doing'[d] = doing[d] /\ doing[d].stage # "revalidating" /\ CallTold(journal, doing[d])
      BY <1>1, <1>7, <1>8, <2>2 DEF Told
    <3>2. ~Terminal(line, doing[d].receipt.seq)
      BY <2>2, <3>1, OtherCalls DEF Terminal
    <3> QED
      BY <1>1, <1>2, <3>1, <3>2, CallStaysTold
  <2> QED
    BY <2>1, <2>2
<1>9. Branches' = Branches
  BY DEF Branches
<1> QED
  BY <1>1, <1>3, <1>4, <1>5, <1>6, <1>8, <1>9 DEF Told, Enabled

LEMMA RevalidateTold == ASSUME UndisturbedInv, NEW b \in Branches, Revalidate(b) PROVE FALSE
BY DEF UndisturbedInv, Told, Revalidate, Awaits

LEMMA StartTold == ASSUME UndisturbedInv, NEW b \in Branches, Start(b), losses' = losses PROVE Told'
<1> DEFINE c == [doing[b] EXCEPT !.stage = "running"]
           line == Line("start", doing[b], TRUE)
<1>1. /\ doing[b] # None /\ doing[b].stage = "queued" /\ ~stopped /\ UNCHANGED <<replayer, record, at, script>>
      /\ doing' = [doing EXCEPT ![b].stage = "running"] /\ Emit(<<line>>)
  BY DEF Start, Awaits, UndisturbedInv
<1>2. doing[b] \in OpenCalls /\ b \in DOMAIN doing
  BY <1>1, ToldFacts
<1>3. c \in OpenCalls /\ c.receipt = doing[b].receipt /\ c.stage = "running" /\ c.call = doing[b].call
  BY <1>2 DEF OpenCalls
<1>4. doing' = [doing EXCEPT ![b] = c]
  BY <1>1, <1>2
<1>5. line \in JournalLines /\ line.kind = "start" /\ line.logical = doing[b].receipt.seq /\ line.call = doing[b].call
  BY <1>2, LineTyped
<1> HIDE DEF c, line
<1>6. CallTold(Append(journal, line), c)
  BY <1>3 DEF CallTold
<1> QED
  BY <1>1, <1>3, <1>4, <1>5, <1>6, LineStep, NothingAssumption

LEMMA FinishTold == ASSUME UndisturbedInv, NEW b \in Branches, Finish(b), losses' = losses PROVE Told'
<1>1. /\ doing[b] # None /\ doing[b].stage = "running" /\ UNCHANGED <<replayer, record, at, script>>
  BY DEF Finish, Awaits
<1>2. doing[b] \in OpenCalls /\ b \in DOMAIN doing /\ journal \in Seq(JournalLines)
  BY <1>1, ToldFacts DEF UndisturbedInv, Told
<1>3. ASSUME NEW c \in OpenCalls, c.receipt = doing[b].receipt, c.stage = "answered", doing' = [doing EXCEPT ![b] = c],
             NEW kind \in {"end", "error"}, NEW good \in BOOLEAN, Emit(<<Line(kind, doing[b], good)>>),
             c.outcome # "timeout" => (good <=> c.outcome = "answer")
      PROVE  Told'
  <2> DEFINE line == Line(kind, doing[b], good)
  <2>1. /\ line \in JournalLines /\ line.kind = kind /\ line.logical = doing[b].receipt.seq /\ line.call = doing[b].call
        /\ line.ok = good
    BY <1>2, LineTyped
  <2>2. Emit(<<line>>)
    BY <1>3
  <2> HIDE DEF line
  <2>3. CallTold(Append(journal, line), c)
    <3>1. Terminal(line, doing[b].receipt.seq)
      BY <2>1 DEF Terminal
    <3>2. PICK k : LastLine(Append(journal, line), doing[b].receipt.seq, k) /\ Append(journal, line)[k] = line
      BY <1>2, <2>1, <3>1, LastNew
    <3> QED
      BY <1>3, <2>1, <3>2 DEF CallTold
  <2> QED
    BY <1>1, <1>3, <2>1, <2>2, <2>3, LineStep, NothingAssumption
<1>4. ASSUME NEW text \in Answers,
             doing' = [doing EXCEPT ![b].stage = "answered", ![b].outcome = "answer", ![b].text = text],
             Emit(<<Line("end", doing[b], TRUE)>>)
      PROVE  Told'
  <2>1. PICK c : c = [doing[b] EXCEPT !.stage = "answered", !.outcome = "answer", !.text = text]
    OBVIOUS
  <2>2. c \in OpenCalls /\ c.receipt = doing[b].receipt /\ c.stage = "answered" /\ c.outcome = "answer"
    BY <1>2, <2>1 DEF OpenCalls, Values
  <2>3. doing' = [doing EXCEPT ![b] = c]
    BY <1>2, <1>4, <2>1
  <2> QED
    BY <1>3, <1>4, <2>2, <2>3
<1>5. ASSUME NEW outcome \in {"failed", "timeout", "thrown"}, NEW kind \in {"end", "error"},
             doing' = [doing EXCEPT ![b].stage = "answered", ![b].outcome = outcome],
             Emit(<<Line(kind, doing[b], FALSE)>>)
      PROVE  Told'
  <2>1. PICK c : c = [doing[b] EXCEPT !.stage = "answered", !.outcome = outcome]
    OBVIOUS
  <2>2. c \in OpenCalls /\ c.receipt = doing[b].receipt /\ c.stage = "answered" /\ c.outcome = outcome
    BY <1>2, <2>1 DEF OpenCalls
  <2>3. doing' = [doing EXCEPT ![b] = c]
    BY <1>2, <1>5, <2>1
  <2>4. outcome # "answer"
    OBVIOUS
  <2> QED
    BY <1>3, <1>5, <2>2, <2>3, <2>4
<1> QED
  BY <1>4, <1>5 DEF Finish

LEMMA SettleTold == ASSUME UndisturbedInv, NEW b \in Branches, Settle(b), losses' = losses PROVE Told'
<1>1. /\ doing[b] # None /\ doing[b].stage = "answered" /\ UNCHANGED script /\ ~stopped /\ Told
  BY DEF Settle, Awaits, UndisturbedInv
<1>2. doing[b] \in OpenCalls /\ DOMAIN doing = Branches /\ journal \in Seq(JournalLines)
  BY <1>1, ToldFacts DEF Told
<1>3. CASE Retries(b)
  <2> DEFINE again == [doing[b] EXCEPT !.call = calls + 1, !.attempt = @ + 1]
             c == [again EXCEPT !.stage = "queued"]
             line == Line("queued", again, TRUE)
  <2>1. doing' = [doing EXCEPT ![b] = c] /\ Emit(<<line>>) /\ UNCHANGED <<replayer, record, at>>
    BY <1>1, <1>3 DEF Settle, Queue
  <2>2. calls + 1 \in Nat
    BY DEF UndisturbedInv, ChainInv, ChainTypes
  <2>3. again \in Attempts /\ again.receipt = doing[b].receipt
    BY <1>2, <2>2, AgainTyped
  <2> HIDE DEF again
  <2>4. c \in OpenCalls /\ c.receipt = doing[b].receipt /\ c.stage = "queued"
    BY <2>3 DEF Attempts, OpenCalls
  <2>5. line = Line("queued", c, TRUE)
    BY <2>3 DEF Line, Attempts
  <2> HIDE DEF c, line
  <2>6. line \in JournalLines /\ line.kind = "queued" /\ line.logical = doing[b].receipt.seq
    <3>1. ASSUME NEW d \in OpenCalls
          PROVE  /\ Line("queued", d, TRUE) \in JournalLines /\ Line("queued", d, TRUE).kind = "queued"
                 /\ Line("queued", d, TRUE).logical = d.receipt.seq
      BY LineTyped
    <3> QED
      BY <2>4, <2>5, <3>1
  <2>7. CallTold(Append(journal, line), c)
    BY <2>4 DEF CallTold
  <2> QED
    BY <1>1, <2>1, <2>4, <2>6, <2>7, LineStep, NothingAssumption
<1>4. CASE ~Retries(b)
  <2> DEFINE r == doing[b].receipt
             good == doing[b].outcome = "answer"
             row == [kind |-> "agent", seq |-> r.seq, node |-> r.node, key |-> r.key,
                     ok |-> good, value |-> IF good THEN doing[b].text ELSE None]
  <2>1. /\ r \in replayer.admissions /\ replayer' = Settled(replayer, r, good) /\ AppendRow(row)
        /\ doing' = [doing EXCEPT ![b] = None] /\ UNCHANGED journal
        /\ \A d \in Branches : d # b => at'[d] = at[d]
    <3>1. at \in [Branches -> Nat]
      BY DEF UndisturbedInv, ChainInv, ChainTypes
    <3> QED
      BY <1>1, <1>4, <3>1 DEF Settle, Returns, Throws, RecordAgentAttempt
  <2>2. record' = Append(record, row)
    BY <2>1, ToldFacts DEF AppendRow
  <2>3. /\ ~r.replayed /\ r.seq \in 0..(replayer.readCursor - 1) /\ replayer.readCursor \in Nat
        /\ DOMAIN replayer = ControllerFields /\ record \in Seq(Range(record))
        /\ \A a, e \in replayer.admissions : a.seq = e.seq => a = e
    BY <2>1, ToldFacts
  <2>4. /\ replayer'.options = replayer.options /\ replayer'.readCursor = replayer.readCursor
        /\ replayer'.clock = replayer.clock /\ replayer'.admissions = replayer.admissions \ {r}
        /\ \A p \in DOMAIN replayer.verdicts : replayer'.verdicts[p] = replayer.verdicts[p]
        /\ replayer'.refusal = replayer.refusal
    <3>1. good \in BOOLEAN
      OBVIOUS
    <3> HIDE DEF r, good
    <3>2. ~TakesBack(r, good)
      BY <2>3 DEF TakesBack
    <3> QED
      BY <2>1, <2>3, <3>1, <3>2, SettleFields
  <2>5. row.kind = "agent" /\ row.seq = r.seq /\ row.ok = good
    OBVIOUS
  <2> HIDE DEF row
  <2>6. RecordTells(record', replayer')
    <3>1. \A c, d : /\ RecordTells(record, c) /\ r \in c.admissions /\ r.seq \in 0..(c.readCursor - 1)
                    /\ (\A a, e \in c.admissions : a.seq = e.seq => a = e)
                    /\ d.readCursor = c.readCursor /\ d.clock = c.clock /\ d.admissions = c.admissions \ {r}
                    => RecordTells(Append(record, row), d)
      <4> HIDE DEF r
      <4> QED
        BY <2>3, <2>5, RecordSettles
    <3> HIDE DEF r
    <3> QED
      BY <1>1, <2>1, <2>2, <2>3, <2>4, <3>1 DEF Told
  <2>7. RowsTold(journal, record')
    <3>1. \E k : LastLine(journal, r.seq, k) /\ journal[k].ok = good
      <4>1. PICK k : LastLine(journal, r.seq, k) /\ (journal[k].ok <=> good)
        BY <1>1, <1>4 DEF Told, CallTold, Retries
      <4>2. journal[k].ok \in BOOLEAN
        <5>1. journal[k] \in JournalLines
          BY <1>2, <4>1, ElementOfSeq, LenProperties DEF LastLine
        <5> QED
          BY <5>1 DEF JournalLines
      <4> QED
        BY <4>1, <4>2
    <3> QED
      BY <1>1, <2>2, <2>3, <2>5, <3>1, RowTold DEF Told
  <2>8. StartsTold(journal, doing')
    BY <1>1, <1>2, <2>1, StartsKept DEF Told
  <2>9. \A p \in 1..replayer.readCursor : replayer'.verdicts[p] = "fresh"
    <3>1. DOMAIN replayer.verdicts = 1..replayer.readCursor
      BY LenProperties DEF UndisturbedInv, ResumeInv, Prefixed
    <3> QED
      BY <1>1, <2>4, <3>1 DEF Told
  <2>10. \A d \in Branches : doing'[d] # None => doing'[d].stage # "revalidating" /\ CallTold(journal, doing'[d])
    <3>1. \A d \in Branches : doing'[d] = IF d = b THEN None ELSE doing[d]
      BY <1>2, <2>1
    <3> QED
      BY <1>1, <3>1 DEF Told
  <2>11. Branches' = Branches /\ replayer.readCursor # 0
    BY <1>1, <2>3 DEF Branches
  <2> QED
    BY <1>1, <1>2, <2>1, <2>4, <2>6, <2>7, <2>8, <2>9, <2>10, <2>11 DEF Told, Enabled
<1> QED
  BY <1>3, <1>4

\* Without a record a call is fresh, and nothing is refused.
LEMMA AdmittedFresh ==
  ASSUME NEW c, DOMAIN c = ControllerFields, ~Enabled(c), ~c.refusal, NEW call
  PROVE  LET d == Admitted(c, call)
             receipt == [seq |-> c.readCursor, node |-> call.node, key |-> call.key, replayed |-> FALSE]
         IN  /\ Verdict(c, call) = "fresh" /\ ~Enabled(d) /\ ~d.refusal
             /\ d.readCursor = c.readCursor + 1 /\ d.clock = c.clock
             /\ d.verdicts = Append(c.verdicts, "fresh") /\ d.admissions = c.admissions \cup {receipt}
<1>1. Lookup(c, call) = "fresh"
  BY DEF Lookup
<1>2. Verdict(c, call) = "fresh"
  BY <1>1 DEF Verdict
<1> QED
  BY <1>1, <1>2, AdmitFields DEF Enabled

\* The slot of the call is taken: another branch is in a call already.
LEMMA TakenTold ==
  ASSUME UndisturbedInv, NEW b \in Branches, Ready(b), SlotTaken(b), Throws(b), UNCHANGED <<replayVars, journal, script>>
  PROVE  Told'
<1>1. Told /\ ChainInv /\ doing[b] = None /\ Branches' = Branches
  BY DEF UndisturbedInv, Ready, Branches
<1>2. doing' = doing
  BY <1>1, LinkSame DEF Throws, replayVars
<1>3. replayer.readCursor # 0
  <2>1. PICK d \in Branches : doing[d] # None
    BY DEF SlotTaken
  <2>2. doing[d].receipt.seq \in 0..(replayer.readCursor - 1)
    BY <2>1, ToldFacts
  <2> QED
    BY <2>2
<1> QED
  BY <1>1, <1>2, <1>3 DEF Told, Enabled, replayVars

\* A fresh call is queued under the next ordinal.
LEMMA QueuedTold ==
  ASSUME UndisturbedInv, NEW b \in Branches, doing[b] = None, NEW c \in OpenCalls, c.stage = "queued",
         c.receipt.seq = replayer.readCursor, doing' = [doing EXCEPT ![b] = c],
         Emit(<<Line("queued", c, TRUE)>>), losses' = losses, UNCHANGED <<record, at, script>>,
         ~Enabled(replayer'), ~replayer'.refusal, replayer'.readCursor = replayer.readCursor + 1,
         replayer'.clock = replayer.clock, replayer'.verdicts = Append(replayer.verdicts, "fresh"),
         replayer'.admissions = replayer.admissions \cup {c.receipt}
  PROVE  Told'
<1> DEFINE line == Line("queued", c, TRUE)
<1>1. /\ Told /\ journal \in Seq(JournalLines) /\ DOMAIN doing = Branches /\ losses \in Nat /\ replayer.readCursor \in Nat
      /\ Branches' = Branches
  BY ToldFacts DEF UndisturbedInv, Told, Branches
<1>2. line \in JournalLines /\ line.kind = "queued" /\ line.logical = replayer.readCursor
  <2>1. ASSUME NEW d \in OpenCalls
        PROVE  /\ Line("queued", d, TRUE) \in JournalLines /\ Line("queued", d, TRUE).kind = "queued"
               /\ Line("queued", d, TRUE).logical = d.receipt.seq
    BY LineTyped
  <2> QED
    BY <2>1
<1>3. Emit(<<line>>)
  OBVIOUS
<1> HIDE DEF line
<1>4. journal' = Append(journal, line) /\ journal' \in Seq(JournalLines)
  BY <1>1, <1>2, <1>3, LineKept, LineAdded
<1>5. \A o : ~Terminal(line, o)
  BY <1>2 DEF Terminal
<1>6. CallsTold(journal', replayer'.readCursor)
  BY <1>1, <1>2, <1>4, NewCallTold DEF Told
<1>7. RowsTold(journal', record')
  BY <1>1, <1>2, <1>4, <1>5, RowsStayTold DEF Told
<1>8. RecordTells(record', replayer')
  <2>1. RecordTells(record, replayer) /\ \A a \in replayer.admissions : a.seq \in 0..(replayer.readCursor - 1)
    BY <1>1, ToldFacts DEF Told
  <2>2. PICK r : r = c.receipt
    OBVIOUS
  <2>3. \A d : /\ d.readCursor = replayer.readCursor + 1 /\ d.clock = replayer.clock
               /\ d.admissions = replayer.admissions \cup {r}
               => RecordTells(record, d)
    BY <1>1, <2>1, <2>2, RecordAdmits
  <2> QED
    BY <2>2, <2>3
<1>9. StartsTold(journal', doing')
  BY <1>1, <1>2, <1>4, StartsStayTold DEF Told
<1>10. ASSUME NEW p \in 1..replayer'.readCursor PROVE replayer'.verdicts[p] = "fresh"
  <2>1. replayer.verdicts \in Seq(Verdicts) /\ Len(replayer.verdicts) = replayer.readCursor
    BY DEF UndisturbedInv, ResumeInv, Prefixed
  <2>2. /\ \A q \in 1..replayer.readCursor : replayer'.verdicts[q] = replayer.verdicts[q]
        /\ replayer'.verdicts[replayer.readCursor + 1] = "fresh"
    BY <2>1, AppendProperties
  <2>3. p \in 1..replayer.readCursor \/ p = replayer.readCursor + 1
    BY <1>1
  <2> QED
    BY <1>1, <2>2, <2>3 DEF Told
<1>11. ASSUME NEW d \in Branches, doing'[d] # None PROVE doing'[d].stage # "revalidating" /\ CallTold(journal', doing'[d])
  <2>1. CASE d = b
    BY <1>1, <2>1 DEF CallTold
  <2>2. CASE d # b
    <3>1. doing'[d] = doing[d] /\ doing[d].stage # "revalidating" /\ CallTold(journal, doing[d])
      BY <1>1, <1>11, <2>2 DEF Told
    <3> QED
      BY <1>1, <1>2, <1>4, <1>5, <3>1, CallStaysTold
  <2> QED
    BY <2>1, <2>2
<1>12. replayer'.readCursor # 0
  BY <1>1
<1> QED
  BY <1>1, <1>4, <1>6, <1>7, <1>8, <1>9, <1>10, <1>11, <1>12 DEF Told

LEMMA AdmitTold == ASSUME UndisturbedInv, NEW b \in Branches, Admit(b), losses' = losses PROVE Told'
<1> DEFINE call == Call(b)
           receipt == [seq |-> replayer.readCursor, node |-> call.node, key |-> call.key, replayed |-> FALSE]
           c == Open(receipt, "", None, None)
           d == [c EXCEPT !.stage = "queued"]
<1>1. /\ Ready(b) /\ doing[b] = None /\ run = 1 /\ ~stopped /\ UNCHANGED script /\ Step(b).kind = "call" /\ ~Done(b)
      /\ Told /\ DOMAIN replayer = ControllerFields
  BY ToldFacts DEF Admit, Ready, UndisturbedInv
<1>2. CASE SlotTaken(b)
  BY <1>1, <1>2, TakenTold DEF Admit, replayVars
<1>3. CASE ~SlotTaken(b)
  <2>1. /\ ~Enabled(replayer) /\ ~replayer.refusal
    BY <1>1 DEF Told
  <2>2. Verdict(replayer, call) = "fresh"
    BY <1>1, <2>1, AdmittedFresh
  <2>3. /\ ~Enabled(Admitted(replayer, call)) /\ ~Admitted(replayer, call).refusal
        /\ Admitted(replayer, call).readCursor = replayer.readCursor + 1 /\ Admitted(replayer, call).clock = replayer.clock
        /\ Admitted(replayer, call).verdicts = Append(replayer.verdicts, "fresh")
        /\ Admitted(replayer, call).admissions = replayer.admissions \cup {receipt}
    BY <1>1, <2>1, AdmittedFresh
  <2>4. /\ replayer' = Admitted(replayer, call) /\ UNCHANGED <<record, at>>
        /\ Queue(b, c)
    <3> DEFINE verdict == Verdict(replayer, call)
               admitted == [seq |-> replayer.readCursor, node |-> call.node, key |-> call.key,
                            replayed |-> verdict = "replayed"]
               after == Admitted(replayer, call)
               opened == Open(admitted, "", None, None)
    <3>1. verdict = "fresh" /\ admitted = receipt
      BY <2>2
    <3>2. opened = c
      BY <3>1
    <3> HIDE DEF call, verdict, admitted, after, opened, receipt, c
    <3>3. replayer' = after /\ UNCHANGED <<record, at>> /\ Queue(b, opened)
      <4> DEFINE waiting == Open(admitted, "revalidating", None, RecordedText(replayer))
                 reused == Open(admitted, "", None, RecordedText(replayer))
      <4> HIDE DEF waiting, reused
      <4>1. \/ verdict = "throws"
            \/ verdict # "replayed" /\ run > 1
            \/ verdict = "replayed"
            \/ replayer' = after /\ UNCHANGED <<record, at>> /\ Queue(b, opened)
        BY <1>3 DEF Admit, call, verdict, admitted, after, opened, waiting, reused
      <4> QED
        BY <1>1, <3>1, <4>1
    <3> QED
      BY <3>2, <3>3 DEF after
  <2>5. doing' = [doing EXCEPT ![b] = d] /\ Emit(<<Line("queued", c, TRUE)>>)
    BY <1>1, <2>4 DEF Queue
  <2>6. receipt \in Receipts /\ receipt.seq = replayer.readCursor
    <3>1. replayer.readCursor \in Nat
      BY ToldFacts
    <3>2. call.node \in Nodes /\ call.key \in Keys
      BY <1>1, CallTyped DEF UndisturbedInv, ChainInv
    <3> HIDE DEF call
    <3> QED
      BY <3>1, <3>2 DEF Receipts
  <2> HIDE DEF receipt, call
  <2>7. d \in OpenCalls /\ d.stage = "queued" /\ d.receipt = receipt /\ Line("queued", c, TRUE) = Line("queued", d, TRUE)
    <3>1. calls + 1 \in Nat
      BY DEF UndisturbedInv, ChainInv, ChainTypes
    <3>2. c \in Attempts /\ c.receipt = receipt
      <4> DEFINE n == calls + 1
                 e == [receipt |-> receipt, stage |-> "", call |-> n, attempt |-> 1, outcome |-> None, text |-> None]
      <4>1. c = e /\ n \in Nat
        BY <3>1 DEF Open
      <4> HIDE DEF n, c
      <4>2. e \in Attempts /\ e.receipt = receipt
        BY <2>6, <4>1 DEF Attempts, Values
      <4> QED
        BY <4>1, <4>2
    <3> HIDE DEF c
    <3>3. d \in OpenCalls /\ d.stage = "queued" /\ d.receipt = receipt /\ d.call = c.call
      BY <3>2 DEF Attempts, OpenCalls
    <3> HIDE DEF d
    <3>4. Line("queued", c, TRUE) = Line("queued", d, TRUE)
      BY <3>2, <3>3 DEF Line
    <3> QED
      BY <3>3, <3>4
  <2> HIDE DEF c, d
  <2> QED
    BY <1>1, <2>3, <2>4, <2>5, <2>6, <2>7, QueuedTold
<1> QED
  BY <1>2, <1>3

LEMMA ReadClockTold == ASSUME UndisturbedInv, NEW b \in Branches, ReadClock(b), losses' = losses PROVE Told'
<1> DEFINE after == AfterValue(replayer)
<1>1. /\ Told /\ doing[b] = None /\ UNCHANGED <<script, journal>> /\ Branches' = Branches /\ ~stopped
      /\ DOMAIN replayer = ControllerFields /\ replayer.clock \in Nat /\ record \in Seq(Range(record)) /\ ChainInv
  BY ToldFacts DEF UndisturbedInv, ReadClock, Ready, Branches
<1>2. /\ after.options = replayer.options /\ after.readCursor = replayer.readCursor /\ after.clock = replayer.clock + 1
      /\ after.verdicts = replayer.verdicts /\ after.admissions = replayer.admissions /\ ~after.refusal
  BY <1>1, ValueFields DEF Told
<1>3. /\ replayer' = after
      /\ \E row : /\ row.kind = "clock" /\ row.seq = replayer.clock
                  /\ AppendRow(row)
      /\ doing' = [doing EXCEPT ![b] = None]
  <2> HIDE DEF after
  <2>1. /\ replayer' = after
        /\ \E time : /\ AppendRow([kind |-> "clock", seq |-> replayer.clock, node |-> None,
                                   key |-> None, ok |-> TRUE, value |-> time])
                     /\ Returns(b, time)
    BY <1>1, <1>2 DEF ReadClock, after, Told
  <2>2. PICK time : /\ AppendRow([kind |-> "clock", seq |-> replayer.clock, node |-> None,
                                  key |-> None, ok |-> TRUE, value |-> time])
                    /\ Returns(b, time)
    BY <2>1
  <2>3. PICK row : row = [kind |-> "clock", seq |-> replayer.clock, node |-> None, key |-> None, ok |-> TRUE, value |-> time]
    OBVIOUS
  <2> QED
    BY <2>1, <2>2, <2>3 DEF Returns
<1>4. PICK row : row.kind = "clock" /\ row.seq = replayer.clock /\ AppendRow(row)
  BY <1>3
<1>5. record' = Append(record, row)
  <2>1. losses \in Nat
    BY ToldFacts
  <2> QED
    BY <1>4, <2>1 DEF AppendRow
<1> HIDE DEF after
<1>6. doing' = doing
  BY <1>1, <1>2, <1>3, LinkSame
<1>7. RecordTells(record', replayer')
  <2>1. \A d : /\ d.readCursor = replayer.readCursor /\ d.clock = replayer.clock + 1 /\ d.admissions = replayer.admissions
               => RecordTells(Append(record, row), d)
    BY <1>1, <1>4, RecordReads DEF Told
  <2> QED
    BY <1>2, <1>3, <1>5, <2>1
<1>8. RowsTold(journal', record')
  BY <1>1, <1>4, <1>5, RowTold DEF Told
<1>9. replayer'.clock # 0
  BY <1>1, <1>2, <1>3
<1> QED
  BY <1>1, <1>2, <1>3, <1>6, <1>7, <1>8, <1>9 DEF Told, Enabled

LEMMA BranchTold ==
  ASSUME UndisturbedInv, NEW b \in Branches, Admit(b) \/ Revalidate(b) \/ Start(b) \/ Finish(b) \/ Settle(b) \/ ReadClock(b),
         losses' = losses
  PROVE  Told'
BY AdmitTold, RevalidateTold, StartTold, FinishTold, SettleTold, ReadClockTold

\* Nothing was given back when nothing is missing.
LEMMA BranchFirstRun ==
  ASSUME ResumeInv, ChainInv, FirstRunInv, NEW b \in Branches,
         Admit(b) \/ Revalidate(b) \/ Start(b) \/ Finish(b) \/ Settle(b) \/ ReadClock(b)
  PROVE  FirstRunInv'
<1>1. /\ run' = run /\ script' = script /\ phase' = phase /\ phase = "running" /\ losses \in Nat /\ losses' \in Nat
      /\ script.losses \in Nat
  <2>1. Inside
    BY BranchActs
  <2>2. ChainInv'
    BY AdmitChain, RevalidateChain, StartChain, FinishChain, SettleChain, ReadClockChain
  <2>3. losses \in Nat /\ losses' \in Nat /\ script \in Scripts
    BY <2>2 DEF ChainInv, ChainTypes
  <2> QED
    BY <2>1, <2>3, ResumeAssumption DEF Inside
<1>2. losses' <= losses /\ stopped' = stopped
  BY <1>1, BranchLosses
<1>3. run = 1 => losses' <= script.losses
  BY <1>1, <1>2 DEF FirstRunInv
<1>4. ASSUME Undisturbed' PROVE Told'
  <2>1. run = 1 /\ ~stopped /\ losses' = script.losses
    BY <1>1, <1>2, <1>4 DEF Undisturbed
  <2>2. losses' = losses
    BY <1>1, <1>2, <2>1 DEF FirstRunInv
  <2>3. UndisturbedInv
    BY <2>1, <2>2 DEF FirstRunInv, Undisturbed, UndisturbedInv
  <2> QED
    BY <2>2, <2>3, BranchTold
<1> QED
  BY <1>1, <1>3, <1>4 DEF FirstRunInv

LEMMA RunFirstRun ==
  ASSUME FirstRunInv, StopRun \/ EndRun \/ Crash \/ UNCHANGED vars
  PROVE  FirstRunInv'
<1>1. /\ UNCHANGED <<replayVars, callVars, script, run>> /\ Branches' = Branches /\ (~stopped' => ~stopped)
      /\ phase' = "ended" => phase = "ended" \/ \A b \in Branches : doing[b] = None /\ Done(b)
  <2>1. CASE StopRun
    BY <2>1 DEF StopRun, Branches
  <2>2. CASE EndRun
    BY <2>2 DEF EndRun, Branches
  <2>3. CASE Crash
    BY <2>3 DEF Crash, Branches
  <2>4. CASE UNCHANGED vars
    BY <2>4 DEF vars, Branches
  <2> QED
    BY <2>1, <2>2, <2>3, <2>4
<1>2. Undisturbed' => Undisturbed
  BY <1>1 DEF Undisturbed, replayVars
<1>3. Told => Told'
  BY <1>1 DEF Told, Enabled, replayVars, callVars
<1>4. phase' = "ended" => \A b \in Branches : doing'[b] = None /\ Done(b)'
  BY <1>1 DEF FirstRunInv, Done, callVars
<1> QED
  BY <1>1, <1>2, <1>3, <1>4 DEF FirstRunInv, replayVars

LEMMA ResumeFirstRun == ASSUME ChainInv, NEW s \in Scripts, Resume(s) PROVE FirstRunInv'
<1>1. run \in Nat \ {0} /\ run' = run + 1
  BY DEF ChainInv, ChainTypes, Resume
<1>2. run' # 1
  BY <1>1
<1>3. phase' = "running"
  BY DEF Resume, Begin
<1> QED
  BY <1>2, <1>3 DEF FirstRunInv, Undisturbed

LEMMA FirstRunStarts == Init => FirstRunInv
<1> SUFFICES ASSUME Init PROVE FirstRunInv
  OBVIOUS
<1> DEFINE options == Options(None, FALSE, FALSE, None)
<1>1. /\ script \in Scripts /\ run = 1 /\ phase = "running" /\ losses = script.losses
      /\ replayer = NewController(options) /\ record = <<>>
      /\ at = [b \in Branches |-> 1] /\ doing = [b \in Branches |-> None]
      /\ journal = (IF script.grouped THEN <<GroupLine>> ELSE <<>>)
  BY DEF Init
<1>2. /\ replayer.options = options /\ replayer.readCursor = 0 /\ replayer.clock = 0 /\ replayer.refusal = FALSE
      /\ replayer.admissions = {} /\ options.source = None
  BY <1>1 DEF NewController, Options
<1> HIDE DEF options
<1>3. GroupLine \in JournalLines /\ GroupLine.kind = "group"
  BY DEF GroupLine, JournalLines, Nodes
<1>4. journal \in Seq(JournalLines) /\ \A i \in DOMAIN journal : journal[i].kind = "group"
  <2>1. <<GroupLine>> \in Seq(JournalLines) /\ DOMAIN <<GroupLine>> = {1} /\ <<GroupLine>>[1] = GroupLine
    BY <1>3
  <2>2. DOMAIN <<>> = {} /\ <<>> \in Seq(JournalLines)
    BY EmptySeq, LenProperties
  <2> QED
    BY <1>1, <1>3, <2>1, <2>2
<1>5. DOMAIN record = {}
  BY <1>1
<1>6. 0..(0 - 1) = {} /\ 1..0 = {}
  OBVIOUS
<1>7. RecordTells(record, replayer)
  BY <1>2, <1>5, <1>6 DEF RecordTells, AgentRow, ClockRow
<1>8. CallsTold(journal, replayer.readCursor)
  BY <1>2, <1>4, <1>6 DEF CallsTold
<1>9. RowsTold(journal, record) /\ StartsTold(journal, doing)
  BY <1>4, <1>5 DEF RowsTold, AgentRow, StartsTold
<1>10. Told
  BY <1>1, <1>2, <1>4, <1>6, <1>7, <1>8, <1>9 DEF Told, Enabled
<1>11. losses <= script.losses
  <2>1. \A s \in Scripts : s.losses \in Nat
    BY ResumeAssumption
  <2>2. losses \in Nat /\ script.losses = losses
    BY <1>1, <2>1
  <2> QED
    BY <2>2
<1> QED
  BY <1>1, <1>10, <1>11 DEF FirstRunInv

LEMMA FirstRunInvariant == Spec => [](ResumeInv /\ ChainInv /\ FirstRunInv)
<1>1. Init => FirstRunInv
  BY FirstRunStarts
<1>2. ResumeInv /\ ChainInv /\ FirstRunInv /\ [Next]_vars => FirstRunInv'
  <2> SUFFICES ASSUME ResumeInv, ChainInv, FirstRunInv, [Next]_vars PROVE FirstRunInv'
    OBVIOUS
  <2>1. ASSUME NEW b \in Branches, Admit(b) \/ Revalidate(b) \/ Start(b) \/ Finish(b) \/ Settle(b) \/ ReadClock(b)
        PROVE  FirstRunInv'
    BY <2>1, BranchFirstRun
  <2> QED
    BY <2>1, RunFirstRun, ResumeFirstRun DEF Next
<1> QED
  BY <1>1, <1>2, ChainInvariant, PTL DEF Spec

\* The rows of one kind, when every ordinal below n has exactly one.
LEMMA RowsCount ==
  ASSUME NEW rows, rows \in Seq(Range(rows)), NEW kind, NEW n \in Nat,
         \A i \in Rows(rows, kind) : rows[i].seq \in 0..(n - 1),
         \A i, j \in Rows(rows, kind) : rows[i].seq = rows[j].seq => i = j,
         \A o \in 0..(n - 1) : \E i \in Rows(rows, kind) : rows[i].seq = o
  PROVE  Cardinality(Rows(rows, kind)) = n /\ {rows[i].seq : i \in Rows(rows, kind)} = 0..(n - 1)
<1> DEFINE S == Rows(rows, kind)
           f == [i \in S |-> rows[i].seq]
<1>1. IsFiniteSet(S)
  <2>1. S \subseteq 1..Len(rows) /\ Len(rows) \in Nat
    BY LenProperties DEF Rows
  <2>2. IsFiniteSet(1..Len(rows))
    BY <2>1, FS_Interval
  <2> QED
    BY <2>1, <2>2, FS_Subset
<1>2. f \in Bijection(S, 0..(n - 1))
  <2>1. f \in [S -> 0..(n - 1)]
    OBVIOUS
  <2>2. \A i, j \in S : f[i] = f[j] => i = j
    OBVIOUS
  <2>3. \A o \in 0..(n - 1) : \E i \in S : f[i] = o
    OBVIOUS
  <2> HIDE DEF S, f
  <2> QED
    BY <2>1, <2>2, <2>3 DEF Bijection, Injection, Surjection, IsInjective
<1>3. {rows[i].seq : i \in S} = 0..(n - 1)
  OBVIOUS
<1> HIDE DEF S, f
<1>4. Cardinality(S) = Cardinality(0..(n - 1))
  BY <1>1, <1>2, FS_Bijection DEF ExistsBijection
<1>5. Cardinality(0..(n - 1)) = n
  BY FS_Interval
<1> QED
  BY <1>3, <1>4, <1>5 DEF S

LEMMA LastTerminalIs ==
  ASSUME journal \in Seq(JournalLines), NEW o, NEW k, LastLine(journal, o, k)
  PROVE  LastTerminal(o) = journal[k] /\ journal[k] # None
<1> DEFINE terminals == {i \in Lines({"end", "error"}) : journal[i].logical = o}
<1>1. k \in terminals /\ \A j \in terminals : j <= k
  BY DEF LastLine, Terminal, Lines
<1>2. \A j \in terminals : j \in Nat
  BY LenProperties DEF Lines
<1>3. \A i \in terminals : (\A j \in terminals : j <= i) => i = k
  BY <1>1, <1>2
<1>4. journal[k] \in JournalLines
  BY ElementOfSeq, LenProperties DEF LastLine
<1>5. LastTerminal(o) = (IF terminals = {} THEN None ELSE journal[CHOOSE i \in terminals : \A j \in terminals : j <= i])
  BY DEF LastTerminal
<1> HIDE DEF terminals
<1>6. (CHOOSE i \in terminals : \A j \in terminals : j <= i) = k
  BY <1>1, <1>3
<1> QED
  BY <1>1, <1>4, <1>5, <1>6, NothingAssumption

\* A typed first run that ended undisturbed may be resumed: its rows, its
\* counts and its journal agree (readTypedReplayRetryOrdinals).
THEOREM UndisturbedRunsResume == Spec => []EndedRunsResume
<1>1. ASSUME ResumeInv, ChainInv, FirstRunInv, phase = "ended", losses = script.losses, ~stopped, run = 1
      PROVE  replayer.admissions = {} /\ TypedEvidence
  <2> DEFINE n == replayer.readCursor
             k == replayer.clock
  <2>1. /\ Told /\ UndisturbedInv /\ n \in Nat /\ k \in Nat /\ record \in Seq(Range(record))
        /\ journal \in Seq(JournalLines)
        /\ \A b \in Branches : doing[b] = None /\ Done(b)
    <3>1. Told /\ UndisturbedInv
      BY <1>1 DEF FirstRunInv, Undisturbed, UndisturbedInv
    <3> QED
      BY <1>1, <3>1, ToldFacts DEF FirstRunInv, Told
  <2>2. replayer.admissions = {}
    BY <1>1, <2>1 DEF ChainInv, Linked
  <2> HIDE DEF n, k
  <2>3. RecordTells(record, replayer) /\ CallsTold(journal, n) /\ RowsTold(journal, record) /\ StartsTold(journal, doing)
    BY <2>1 DEF Told, n
  <2> DEFINE Numbered(kind, m) == Cardinality(Rows(record, kind)) = m /\ {record[i].seq : i \in Rows(record, kind)} = 0..(m - 1)
  <2>0. ASSUME NEW kind, NEW m \in Nat,
                \A i \in Rows(record, kind) : record[i].seq \in 0..(m - 1),
                \A i, j \in Rows(record, kind) : record[i].seq = record[j].seq => i = j,
                \A o \in 0..(m - 1) : \E i \in Rows(record, kind) : record[i].seq = o
        PROVE  Numbered(kind, m)
    <3>1. record \in Seq(Range(record))
      BY <2>1
    <3> QED
      BY <2>0, <3>1, RowsCount
  <2>4. Cardinality(Rows(record, "agent")) = n /\ {record[i].seq : i \in Rows(record, "agent")} = 0..(n - 1)
    <3>1. \A i : i \in Rows(record, "agent") <=> AgentRow(record, i)
      BY DEF Rows, AgentRow
    <3>2. \A i \in Rows(record, "agent") : record[i].seq \in 0..(n - 1)
      BY <2>3, <3>1 DEF RecordTells, n
    <3>3. \A i, j \in Rows(record, "agent") : record[i].seq = record[j].seq => i = j
      BY <2>3, <3>1 DEF RecordTells
    <3>4. \A o \in 0..(n - 1) : \E i \in Rows(record, "agent") : record[i].seq = o
      BY <2>2, <2>3, <3>1 DEF RecordTells, n
    <3>5. Numbered("agent", n)
      <4> HIDE DEF Numbered
      <4> QED
        BY <2>1, <2>0, <3>2, <3>3, <3>4
    <3> QED
      BY <3>5
  <2>5. Cardinality(Rows(record, "clock")) = k /\ {record[i].seq : i \in Rows(record, "clock")} = 0..(k - 1)
    <3>1. \A i : i \in Rows(record, "clock") <=> ClockRow(record, i)
      BY DEF Rows, ClockRow
    <3>2. \A i \in Rows(record, "clock") : record[i].seq \in 0..(k - 1)
      BY <2>3, <3>1 DEF RecordTells, k
    <3>3. \A i, j \in Rows(record, "clock") : record[i].seq = record[j].seq => i = j
      BY <2>3, <3>1 DEF RecordTells
    <3>4. \A o \in 0..(k - 1) : \E i \in Rows(record, "clock") : record[i].seq = o
      BY <2>3, <3>1 DEF RecordTells, k
    <3>5. Numbered("clock", k)
      <4> HIDE DEF Numbered
      <4> QED
        BY <2>1, <2>0, <3>2, <3>3, <3>4
    <3> QED
      BY <3>5
  <2>6. replayer.fresh + replayer.replayed = n
    <3>1. DOMAIN replayer.verdicts = 1..n
      BY <1>1, LenProperties DEF ResumeInv, Prefixed, n
    <3>2. Got(replayer, {"replayed"}) = {} /\ Got(replayer, {"fresh", "retried"}) = 1..n
      BY <2>1, <3>1 DEF Told, Got, n
    <3>3. Cardinality(1..n) = n /\ Cardinality({}) = 0
      BY <2>1, FS_Interval, FS_EmptySet
    <3>4. /\ replayer.fresh = Cardinality(Got(replayer, {"fresh", "retried"}))
          /\ replayer.replayed = Cardinality(Got(replayer, {"replayed"}))
      BY <1>1 DEF ChainInv, Counted
    <3>5. replayer.fresh = n /\ replayer.replayed = 0
      BY <3>2, <3>3, <3>4
    <3> QED
      BY <2>1, <3>5
  <2>7. Cardinality({journal[i].logical : i \in Lines({"queued", "start"})}) = n
    <3>1. {journal[i].logical : i \in Lines({"queued", "start"})} = 0..(n - 1)
      BY <2>3 DEF CallsTold, Lines
    <3>2. Cardinality(0..(n - 1)) = n
      BY <2>1, FS_Interval
    <3> QED
      BY <3>1, <3>2
  <2>8. \A r \in AgentRows(record) : LastTerminal(r.seq) # None /\ r.ok = LastTerminal(r.seq).ok
    <3> SUFFICES ASSUME NEW i \in Rows(record, "agent")
                 PROVE  LastTerminal(record[i].seq) # None /\ record[i].ok = LastTerminal(record[i].seq).ok
      BY DEF AgentRows
    <3>1. PICK j : LastLine(journal, record[i].seq, j) /\ journal[j].ok = record[i].ok
      BY <2>3 DEF RowsTold, AgentRow, Rows
    <3> QED
      BY <2>1, <3>1, LastTerminalIs
  <2>9. \A i \in Lines({"start"}) : \E j \in Lines({"end", "error"}) : journal[j].call = journal[i].call
    <3>1. DOMAIN doing = Branches
      BY <2>1, ToldFacts
    <3> QED
      BY <2>1, <2>3, <3>1 DEF StartsTold, Lines
  <2>10. record = <<>> => ~HasClock
    <3> SUFFICES ASSUME record = <<>> PROVE ~HasClock
      OBVIOUS
    <3>1. Rows(record, "agent") = {} /\ Rows(record, "clock") = {}
      BY DEF Rows
    <3>2. n = 0 /\ k = 0
      BY <2>4, <2>5, <3>1, FS_EmptySet
    <3>3. \A b \in Branches : at[b] = 1
      BY <2>1, <3>2 DEF Told, n, k
    <3>4. \A b \in Branches : DOMAIN script.branches[b] = {}
      <4> SUFFICES ASSUME NEW b \in Branches PROVE DOMAIN script.branches[b] = {}
        OBVIOUS
      <4>1. DOMAIN script.branches[b] = 1..Len(script.branches[b]) /\ Len(script.branches[b]) \in Nat
        BY <1>1, BranchesFinite DEF ChainInv
      <4>2. 1 > Len(script.branches[b])
        BY <2>1, <3>3 DEF Done
      <4> QED
        BY <4>1, <4>2
    <3> QED
      BY <3>4 DEF HasClock
  <2> QED
    BY <2>2, <2>4, <2>5, <2>6, <2>7, <2>8, <2>9, <2>10 DEF TypedEvidence
<1>2. ResumeInv /\ ChainInv /\ FirstRunInv => EndedRunsResume
  BY <1>1 DEF EndedRunsResume
<1> QED
  BY <1>2, FirstRunInvariant, PTL

-----------------------------------------------------------------------------
(***************************************************************************)
(* A chain in which at most one write fails.  The calls of a run are known  *)
(* by their receipts, by their rows, or, for the one whose row was lost, by *)
(* what was written before; what was started is known, and a node name      *)
(* counts the calls with its label before it.  What was answered was        *)
(* started, unless the start was lost: then an attempt has an end and no    *)
(* start, and no recovery accepts it (WrittenInv).  So the rows a recovery  *)
(* is given name every start of the interrupted run, and it serves them in  *)
(* their order, or refuses all that follows, before it runs anything under  *)
(* a later name (PrefixInv).                                                *)
(***************************************************************************)
\* The calls a run knows of: those that are open and those that have a row.
Known(c, rows) ==
    {[seq |-> a.seq, node |-> a.node, key |-> a.key] : a \in c.admissions}
    \cup {[seq |-> rows[i].seq, node |-> rows[i].node, key |-> rows[i].key] : i \in Rows(rows, "agent")}

Whole(known, n) == 0..(n - 1) \subseteq {k.seq : k \in known}

Of(known, label) == {k \in known : k.key[2] = label}

Below(known, o) == {k \in known : k.seq < o}

\* A name counts the calls with its label before it, once all of them are known.
Counts(known, cursor, opened) ==
    /\ IsFiniteSet(known)
    /\ \A k \in known :
          /\ k.seq \in 0..(cursor - 1) /\ k.key \in Keys
          /\ k.key[2] = None => k.node = None
          /\ k.key[2] # None => k.node \in Labels \X Nat /\ k.node[1] = k.key[2]
          /\ Whole(known, k.seq) /\ k.node # None => k.node[2] = Cardinality(Of(Below(known, k.seq), k.key[2]))
    /\ \A k, l \in known : k.seq = l.seq => k = l
    /\ Whole(known, cursor) => \A label \in Labels : opened[label] = Cardinality(Of(known, label))

Started(lines, o) == \E i \in DOMAIN lines : lines[i].kind = "start" /\ lines[i].logical = o

\* What was started is known.
StartsKnown(lines, known) ==
    \A i \in DOMAIN lines : lines[i].kind = "start" =>
       \E k \in known : k.seq = lines[i].logical /\ k.node = lines[i].node

AnswersStarted(lines, rows) == \A i \in Rows(rows, "agent") : rows[i].ok => Started(lines, rows[i].seq)

Answered(lines, c) == c.stage = "answered" /\ c.outcome = "answer" => Started(lines, c.receipt.seq)

Has(lines, kind, x) == \E i \in DOMAIN lines : lines[i].kind = kind /\ lines[i].call = x

\* The attempt with this number left an end without a start.
Orphan(lines, x) == Has(lines, "end", x) /\ ~Has(lines, "start", x)

\* An attempt whose lines are not all written yet, and what is written of it.
Lives(c) == c # None /\ c.stage \in {"queued", "running"}

Begun(lines, c) ==
    \E i \in DOMAIN lines : lines[i].kind = "start" /\ lines[i].call = c.call /\ lines[i].logical = c.receipt.seq

Traced(lines, left, n, c) ==
    Lives(c) =>
       /\ c.call \in 1..n
       /\ c.stage = "queued" => ~Has(lines, "start", c.call)
       /\ c.stage = "running" => Begun(lines, c) \/ (left = 0 /\ ~Has(lines, "start", c.call))

\* An attempt that is over left an orphan, which no recovery accepts.
Torn(lines, work, n) ==
    \E x \in 1..n : Orphan(lines, x) /\ \A b \in DOMAIN work : Lives(work[b]) => work[b].call # x

\* Every line belongs to an attempt that was made.
LinesBelow(lines, n) == \A kind, x : Has(lines, kind, x) => x \in 0..n

WrittenInv ==
    /\ losses \in {0, 1} /\ journal \in Seq(JournalLines) /\ LinesBelow(journal, calls)
    /\ \E known : /\ Known(replayer, record) \subseteq known /\ StartsKnown(journal, known)
                  /\ Counts(known, replayer.readCursor, occurrences)
    /\ \/ Torn(journal, doing, calls)
       \/ AnswersStarted(journal, record) /\ \A b \in Branches : doing[b] # None => Answered(journal, doing[b])
    /\ \A b \in Branches : Traced(journal, losses, calls, doing[b])
    /\ \A b, d \in Branches : Lives(doing[b]) /\ Lives(doing[d]) /\ doing[b].call = doing[d].call => b = d

WithLabel(source, n, label) == {i \in 1..n : source[i].key[2] = label}

Labelled(source, n, label) == Cardinality(WithLabel(source, n, label))

Prefix(source) ==
    /\ Len(source) # 0
    /\ \A i \in DOMAIN source :
          /\ source[i].kind = "agent" /\ source[i].ok /\ source[i].seq = i - 1 /\ source[i].key[2] \in Labels
          /\ source[i].node = <<source[i].key[2], Labelled(source, i - 1, source[i].key[2])>>

PrefixStands(c, opened) ==
    LET source == c.options.source
        n == Len(source)
    IN  /\ ~Typed(c) /\ Enabled(c) /\ Prefix(source)
        /\ c.diverged /\ ~c.refusal => c.readCursor >= n
        /\ ~c.refusal => \A label \in Labels :
              /\ c.readCursor <= n => opened[label] = Labelled(source, c.readCursor, label)
              /\ c.readCursor >= n => opened[label] >= Labelled(source, n, label)
        /\ \A a \in c.admissions : ~a.replayed /\ a.node # None => a.node[2] >= Labelled(source, n, a.node[1])
        /\ \A p \in DOMAIN c.verdicts : c.verdicts[p] = "replayed" => p <= n

\* What the recovered run started is what its record confirms.
StartsConfirmed(lines, source) ==
    \A i \in DOMAIN lines : lines[i].kind = "start" => \E j \in DOMAIN source : lines[i].node = source[j].node

PrefixInv ==
    replayer.options.prefix =>
       /\ PrefixStands(replayer, occurrences) /\ StartsConfirmed(past, replayer.options.source)
       /\ ok => replayer.replayed >= Len(replayer.options.source)

\* A call that is admitted becomes known, under the next number of its label.
LEMMA CountsAdmits ==
  ASSUME NEW known, NEW cursor \in Nat, NEW opened \in [Labels -> Nat], Counts(known, cursor, opened),
         NEW key \in Keys, key[2] \in {None} \cup Labels, None \notin Labels, NEW node, NEW after,
         node = (IF key[2] = None THEN None ELSE <<key[2], opened[key[2]]>>),
         \A label \in Labels : after[label] = IF label = key[2] THEN opened[label] + 1 ELSE opened[label]
  PROVE  Counts(known \cup {[seq |-> cursor, node |-> node, key |-> key]}, cursor + 1, after)
<1> DEFINE new == [seq |-> cursor, node |-> node, key |-> key]
           all == known \cup {new}
<1>1. new.seq = cursor /\ new.node = node /\ new.key = key
  OBVIOUS
<1> HIDE DEF new, all
<1>2. /\ IsFiniteSet(known) /\ \A k \in known : k.seq \in 0..(cursor - 1) /\ k.key \in Keys
      /\ new \notin known /\ all = known \cup {new}
  <2>1. \A k \in known : k.seq \in 0..(cursor - 1) /\ k.seq # cursor
    BY DEF Counts
  <2> QED
    BY <1>1, <2>1 DEF Counts, all
<1>3. IsFiniteSet(all)
  BY <1>2, FS_AddElement
<1>4. \A k \in all : k.seq \in 0..cursor
  BY <1>1, <1>2
<1>5. \A k, l \in all : k.seq = l.seq => k = l
  BY <1>1, <1>2 DEF Counts
<1>6. \A o \in 0..cursor : Below(all, o) = Below(known, o)
  BY <1>1, <1>2 DEF Below
<1>7. Below(known, cursor) = known
  BY <1>2 DEF Below
<1>8. \A o \in 0..cursor : Whole(all, o) => Whole(known, o)
  <2> SUFFICES ASSUME NEW o \in 0..cursor, Whole(all, o), NEW p \in 0..(o - 1) PROVE \E k \in known : k.seq = p
    BY DEF Whole
  <2>1. PICK k \in all : k.seq = p
    BY DEF Whole
  <2>2. p # cursor
    OBVIOUS
  <2> QED
    BY <1>1, <1>2, <2>1, <2>2
<1>9. ASSUME NEW k \in all
      PROVE  /\ k.key \in Keys
             /\ k.key[2] = None => k.node = None
             /\ k.key[2] # None => k.node \in Labels \X Nat /\ k.node[1] = k.key[2]
             /\ Whole(all, k.seq) /\ k.node # None => k.node[2] = Cardinality(Of(Below(all, k.seq), k.key[2]))
  <2>1. CASE k = new
    <3>1. key[2] # None => node = <<key[2], opened[key[2]]>> /\ key[2] \in Labels /\ opened[key[2]] \in Nat
      OBVIOUS
    <3>2. Whole(all, cursor) /\ key[2] # None => opened[key[2]] = Cardinality(Of(known, key[2]))
      <4>1. Whole(all, cursor) => Whole(known, cursor)
        BY <1>8
      <4> QED
        BY <4>1 DEF Counts
    <3>3. Below(all, cursor) = known
      BY <1>6, <1>7
    <3> QED
      BY <1>1, <2>1, <3>1, <3>2, <3>3
  <2>2. CASE k \in known
    <3>1. k.seq \in 0..cursor
      BY <1>4
    <3> QED
      BY <1>6, <1>8, <2>2, <3>1 DEF Counts
  <2> QED
    BY <1>2, <2>1, <2>2
<1>10. ASSUME Whole(all, cursor + 1), NEW label \in Labels PROVE after[label] = Cardinality(Of(all, label))
  <2>1. Whole(known, cursor)
    <3>1. Whole(all, cursor)
      BY <1>10 DEF Whole
    <3> QED
      BY <1>8, <3>1
  <2>2. opened[label] = Cardinality(Of(known, label))
    BY <2>1 DEF Counts
  <2>3. Of(all, label) = (IF key[2] = label THEN Of(known, label) \cup {new} ELSE Of(known, label))
    BY <1>1, <1>2 DEF Of
  <2>4. IsFiniteSet(Of(known, label)) /\ new \notin Of(known, label)
    BY <1>2, FS_Subset DEF Of
  <2>5. Cardinality(Of(known, label) \cup {new}) = Cardinality(Of(known, label)) + 1
    BY <2>4, FS_AddElement
  <2> QED
    BY <2>2, <2>3, <2>5
<1>11. 0..(cursor + 1 - 1) = 0..cursor
  OBVIOUS
<1>12. Counts(all, cursor + 1, after)
  BY <1>3, <1>4, <1>5, <1>9, <1>10, <1>11 DEF Counts
<1> QED
  BY <1>12 DEF all, new

\* A call that is refused before it is admitted spends an ordinal that stays unknown.
LEMMA CountsRefuses ==
  ASSUME NEW known, NEW cursor \in Nat, NEW opened, Counts(known, cursor, opened), NEW after
  PROVE  Counts(known, cursor + 1, after)
<1>1. \A k \in known : k.seq \in 0..(cursor - 1) /\ k.seq \in 0..cursor /\ k.seq # cursor
  BY DEF Counts
<1>2. ~Whole(known, cursor + 1)
  <2>1. cursor \in 0..cursor
    OBVIOUS
  <2> QED
    BY <1>1, <2>1 DEF Whole
<1> QED
  BY <1>1, <1>2 DEF Counts

Name(x) == [seq |-> x.seq, node |-> x.node, key |-> x.key]

Names(rows) == {Name(rows[i]) : i \in Rows(rows, "agent")}

LEMMA KnownOf ==
  ASSUME NEW c, NEW rows
  PROVE  Known(c, rows) = {Name(a) : a \in c.admissions} \cup Names(rows)
BY DEF Known, Name, Names

LEMMA RowNames ==
  ASSUME NEW rows, rows \in Seq(Range(rows)), NEW row
  PROVE  /\ row.kind = "agent" => Names(Append(rows, row)) = Names(rows) \cup {Name(row)}
         /\ row.kind # "agent" => Names(Append(rows, row)) = Names(rows)
<1> DEFINE t == Append(rows, row)
           n == Len(rows) + 1
<1>1. /\ DOMAIN t = DOMAIN rows \cup {n} /\ n \notin DOMAIN rows /\ t[n] = row
      /\ \A i \in DOMAIN rows : t[i] = rows[i]
  BY Appended
<1> HIDE DEF t, n
<1>2. /\ row.kind = "agent" => Rows(t, "agent") = Rows(rows, "agent") \cup {n}
      /\ row.kind # "agent" => Rows(t, "agent") = Rows(rows, "agent")
  BY <1>1 DEF Rows
<1>3. \A i \in Rows(rows, "agent") : t[i] = rows[i]
  BY <1>1 DEF Rows
<1> HIDE DEF Name
<1>4. row.kind = "agent" => Names(t) = Names(rows) \cup {Name(row)}
  BY <1>1, <1>2, <1>3 DEF Names
<1>5. row.kind # "agent" => Names(t) = Names(rows)
  BY <1>2, <1>3 DEF Names
<1> QED
  BY <1>4, <1>5 DEF t

\* An admitted call is known by its receipt, and by its row once it is settled.
LEMMA KnownAdmits ==
  ASSUME NEW c, NEW d, NEW rows, NEW receipt, d.admissions = c.admissions \cup {receipt}
  PROVE  Known(d, rows) = Known(c, rows) \cup {Name(receipt)}
<1> HIDE DEF Name
<1> QED
  BY KnownOf

LEMMA KnownSettles ==
  ASSUME NEW c, NEW d, NEW rows, rows \in Seq(Range(rows)), NEW receipt \in c.admissions,
         d.admissions = c.admissions \ {receipt}, NEW row, row.kind = "agent", Name(row) = Name(receipt)
  PROVE  Known(d, Append(rows, row)) = Known(c, rows)
<1>1. Names(Append(rows, row)) = Names(rows) \cup {Name(receipt)}
  BY RowNames
<1>2. /\ Known(d, Append(rows, row)) = {Name(a) : a \in d.admissions} \cup Names(Append(rows, row))
      /\ Known(c, rows) = {Name(a) : a \in c.admissions} \cup Names(rows)
  BY KnownOf
<1> HIDE DEF Name
<1> QED
  BY <1>1, <1>2

LEMMA KnownReads ==
  ASSUME NEW c, NEW d, NEW rows, rows \in Seq(Range(rows)), d.admissions = c.admissions, NEW row, row.kind = "clock"
  PROVE  Known(d, Append(rows, row)) = Known(c, rows)
<1>1. Names(Append(rows, row)) = Names(rows)
  <2>1. row.kind # "agent"
    OBVIOUS
  <2> QED
    BY <2>1, RowNames
<1>2. /\ Known(d, Append(rows, row)) = {Name(a) : a \in d.admissions} \cup Names(Append(rows, row))
      /\ Known(c, rows) = {Name(a) : a \in c.admissions} \cup Names(rows)
  BY KnownOf
<1> QED
  BY <1>1, <1>2

\* A call that is open is known.
LEMMA OpenKnown ==
  ASSUME NEW c, NEW rows, NEW a \in c.admissions
  PROVE  Name(a) \in Known(c, rows)
BY KnownOf

\* Of what is written at a time at most one line is lost, and never a second one.
Loses == losses' \in {0, 1} /\ losses' <= losses

LEMMA EmitsOne ==
  ASSUME losses \in {0, 1}, journal \in Seq(JournalLines), NEW line \in JournalLines, Emit(<<line>>)
  PROVE  /\ Loses
         /\ journal' = Append(journal, line) \/ (journal' = journal /\ losses = 1 /\ losses' = 0)
<1> DEFINE one == <<line>>
<1>1. PICK gone \in {0} \cup (IF losses > 0 THEN DOMAIN one ELSE {}) :
        /\ journal' = journal \o (IF gone = 0 THEN one ELSE RemoveAt(one, gone))
        /\ losses' = losses - (IF gone = 0 THEN 0 ELSE 1)
  BY DEF Emit
<1>2. DOMAIN one = {1} /\ Len(one) = 1 /\ one \in Seq(JournalLines)
  OBVIOUS
<1>3. journal \o one = Append(journal, line)
  BY AppendIsConcat
<1> HIDE DEF one
<1>4. RemoveAt(one, 1) = <<>>
  <2>1. SubSeq(one, 1, 1 - 1) = <<>> /\ SubSeq(one, 1 + 1, Len(one)) = <<>>
    BY <1>2, SubSeqEmpty
  <2>2. <<>> \o <<>> = <<>>
    OBVIOUS
  <2> QED
    BY <2>1, <2>2 DEF RemoveAt
<1>5. journal \o <<>> = journal
  BY ConcatEmptySeq
<1>6. CASE gone = 0
  BY <1>1, <1>3, <1>6 DEF Loses
<1>7. CASE gone # 0
  <2>1. gone = 1 /\ losses = 1
    BY <1>1, <1>2, <1>7
  <2> QED
    BY <1>1, <1>4, <1>5, <2>1 DEF Loses
<1> QED
  BY <1>6, <1>7

LEMMA EmitsTwo ==
  ASSUME losses \in {0, 1}, journal \in Seq(JournalLines), NEW first \in JournalLines, NEW second \in JournalLines,
         Emit(<<first, second>>)
  PROVE  /\ Loses
         /\ \/ journal' = Append(Append(journal, first), second)
            \/ journal' = Append(journal, first)
            \/ journal' = Append(journal, second)
<1> DEFINE two == <<first, second>>
<1>1. PICK gone \in {0} \cup (IF losses > 0 THEN DOMAIN two ELSE {}) :
        /\ journal' = journal \o (IF gone = 0 THEN two ELSE RemoveAt(two, gone))
        /\ losses' = losses - (IF gone = 0 THEN 0 ELSE 1)
  BY DEF Emit
<1>2. DOMAIN two = {1, 2} /\ Len(two) = 2 /\ two \in Seq(JournalLines) /\ two[1] = first /\ two[2] = second
  OBVIOUS
<1>3. /\ <<first>> \in Seq(JournalLines) /\ <<second>> \in Seq(JournalLines)
      /\ Len(<<first>>) = 1 /\ Len(<<second>>) = 1 /\ <<first>>[1] = first /\ <<second>>[1] = second
  OBVIOUS
<1>4. journal \o <<first>> = Append(journal, first) /\ journal \o <<second>> = Append(journal, second)
  BY AppendIsConcat
<1>5. <<first>> \o <<second>> = two
  <2>1. /\ <<first>> \o <<second>> \in Seq(JournalLines) /\ Len(<<first>> \o <<second>>) = 2
        /\ (<<first>> \o <<second>>)[1] = first /\ (<<first>> \o <<second>>)[2] = second
    BY <1>3, ConcatProperties
  <2>2. \A i \in 1..2 : i = 1 \/ i = 2
    OBVIOUS
  <2> HIDE DEF two
  <2> QED
    BY <1>2, <2>1, <2>2, SeqEqual
<1> HIDE DEF two
<1>6. journal \o two = Append(Append(journal, first), second)
  <2>1. (journal \o <<first>>) \o <<second>> = journal \o (<<first>> \o <<second>>)
    BY <1>3, ConcatAssociative
  <2>2. Append(journal, first) \in Seq(JournalLines)
    BY AppendProperties
  <2> QED
    BY <1>4, <1>5, <2>1, <2>2, AppendIsConcat
<1>7. SubSeq(two, 1, 1) = <<first>> /\ SubSeq(two, 2, 2) = <<second>>
  <2>1. /\ SubSeq(two, 1, 1) \in Seq(JournalLines) /\ Len(SubSeq(two, 1, 1)) = 1 /\ SubSeq(two, 1, 1)[1] = first
    <3>1. \A i \in 1..1 : two[i] \in JournalLines
      BY <1>2
    <3> QED
      BY <1>2, <3>1, SubSeqProperties
  <2>2. /\ SubSeq(two, 2, 2) \in Seq(JournalLines) /\ Len(SubSeq(two, 2, 2)) = 1 /\ SubSeq(two, 2, 2)[1] = second
    <3>1. \A i \in 2..2 : two[i] \in JournalLines
      BY <1>2
    <3>2. /\ SubSeq(two, 2, 2) \in Seq(JournalLines) /\ Len(SubSeq(two, 2, 2)) = 1
          /\ \A i \in 1..(2 - 2 + 1) : SubSeq(two, 2, 2)[i] = two[2 + i - 1]
      BY <3>1, SubSeqProperties
    <3>3. SubSeq(two, 2, 2)[1] = two[2]
      BY <3>2
    <3> QED
      BY <1>2, <3>2, <3>3
  <2>3. \A i \in 1..1 : i = 1
    OBVIOUS
  <2> QED
    BY <1>3, <2>1, <2>2, <2>3, SeqEqual
<1>8. RemoveAt(two, 1) = <<second>> /\ RemoveAt(two, 2) = <<first>>
  <2>1. SubSeq(two, 1, 0) = <<>> /\ SubSeq(two, 3, 2) = <<>>
    BY SubSeqEmpty
  <2>2. <<>> \o <<second>> = <<second>> /\ <<first>> \o <<>> = <<first>>
    BY <1>3, ConcatEmptySeq
  <2>3. /\ RemoveAt(two, 1) = SubSeq(two, 1, 0) \o SubSeq(two, 2, 2)
        /\ RemoveAt(two, 2) = SubSeq(two, 1, 1) \o SubSeq(two, 3, 2)
    BY <1>2 DEF RemoveAt
  <2> QED
    BY <1>7, <2>1, <2>2, <2>3
<1>9. CASE gone = 0
  BY <1>1, <1>6, <1>9 DEF Loses
<1>10. CASE gone # 0
  <2>1. gone \in {1, 2} /\ losses = 1
    BY <1>1, <1>2, <1>10
  <2>2. losses' = 0
    BY <1>1, <2>1
  <2>3. journal' = journal \o RemoveAt(two, gone)
    BY <1>1, <1>10
  <2>4. Loses
    BY <2>1, <2>2 DEF Loses
  <2>5. CASE gone = 1
    BY <1>4, <1>8, <2>3, <2>4, <2>5
  <2>6. CASE gone = 2
    BY <1>4, <1>8, <2>3, <2>4, <2>6
  <2> QED
    BY <2>1, <2>5, <2>6
<1> QED
  BY <1>9, <1>10

LEMMA AppendsRow ==
  ASSUME losses \in {0, 1}, NEW row, AppendRow(row)
  PROVE  Loses /\ (record' = Append(record, row) \/ record' = record)
BY DEF AppendRow, Loses

\* Lines about one attempt keep what was started, what is known of it, and the other attempts.
Tells(lines, more, c) ==
    /\ more \in Seq(JournalLines)
    /\ \A o : Started(lines, o) => Started(more, o)
    /\ \A known : Name(c.receipt) \in known /\ StartsKnown(lines, known) => StartsKnown(more, known)
    /\ \A kind, x : Has(lines, kind, x) => Has(more, kind, x)
    /\ \A kind, x : x # c.call /\ Has(more, kind, x) => Has(lines, kind, x)
    /\ \A d : Begun(lines, d) => Begun(more, d)

LEMMA LineTells ==
  ASSUME NEW lines \in Seq(JournalLines), NEW line \in JournalLines, NEW c,
         line.logical = c.receipt.seq, line.node = c.receipt.node, line.call = c.call
  PROVE  /\ Tells(lines, Append(lines, line), c)
         /\ line.kind = "start" => Started(Append(lines, line), c.receipt.seq) /\ Begun(Append(lines, line), c)
         /\ Has(Append(lines, line), line.kind, c.call)
         /\ \A kind : kind # line.kind /\ Has(Append(lines, line), kind, c.call) => Has(lines, kind, c.call)
<1> DEFINE m == Append(lines, line)
           n == Len(lines) + 1
<1>1. /\ m \in Seq(JournalLines) /\ DOMAIN m = DOMAIN lines \cup {n} /\ m[n] = line
      /\ \A i \in DOMAIN lines : m[i] = lines[i]
  BY LineAdded
<1> HIDE DEF m, n
<1>2. ASSUME NEW known, Name(c.receipt) \in known, StartsKnown(lines, known) PROVE StartsKnown(m, known)
  <2>1. Name(c.receipt).seq = c.receipt.seq /\ Name(c.receipt).node = c.receipt.node
    BY DEF Name
  <2>2. ASSUME NEW i \in DOMAIN m, m[i].kind = "start" PROVE \E k \in known : k.seq = m[i].logical /\ k.node = m[i].node
    <3>1. CASE i = n
      BY <1>1, <1>2, <2>1, <3>1
    <3>2. CASE i \in DOMAIN lines
      BY <1>1, <1>2, <2>2, <3>2 DEF StartsKnown
    <3> QED
      BY <1>1, <3>1, <3>2
  <2> QED
    BY <2>2 DEF StartsKnown
<1>3. \A o : Started(lines, o) => Started(m, o)
  BY <1>1 DEF Started
<1>4. line.kind = "start" => Started(m, c.receipt.seq) /\ Begun(m, c)
  BY <1>1 DEF Started, Begun
<1>5. \A kind, x : Has(lines, kind, x) => Has(m, kind, x)
  BY <1>1 DEF Has
<1>6. \A kind, x : Has(m, kind, x) => Has(lines, kind, x) \/ (kind = line.kind /\ x = c.call)
  BY <1>1 DEF Has
<1>7. \A d : Begun(lines, d) => Begun(m, d)
  BY <1>1 DEF Begun
<1>8. Has(m, line.kind, c.call)
  BY <1>1 DEF Has
<1>9. Tells(lines, m, c)
  BY <1>1, <1>2, <1>3, <1>5, <1>6, <1>7 DEF Tells
<1> QED
  BY <1>4, <1>6, <1>8, <1>9 DEF m

LEMMA TellsOn ==
  ASSUME NEW lines, NEW more, NEW most, NEW c, Tells(lines, more, c), Tells(more, most, c)
  PROVE  Tells(lines, most, c)
BY DEF Tells

LEMMA TellsNothing == ASSUME NEW lines \in Seq(JournalLines), NEW c PROVE Tells(lines, lines, c)
BY DEF Tells

\* Lines of a call, as the journal gets them.
LEMMA LineOf ==
  ASSUME NEW c \in Attempts, NEW kind \in {"queued", "start", "end", "error"}, NEW good \in BOOLEAN
  PROVE  LET line == Line(kind, c, good)
         IN  /\ line \in JournalLines /\ line.kind = kind /\ line.call = c.call
             /\ line.logical = c.receipt.seq /\ line.node = c.receipt.node
<1>1. c.call \in Nat /\ c.receipt.seq \in Nat /\ c.receipt.node \in Nodes
  BY DEF Attempts, Receipts
<1> QED
  BY <1>1 DEF Line, JournalLines

LEMMA OneLine ==
  ASSUME losses \in {0, 1}, journal \in Seq(JournalLines), NEW c \in Attempts,
         NEW kind \in {"queued", "start", "end", "error"}, NEW good \in BOOLEAN, Emit(<<Line(kind, c, good)>>)
  PROVE  /\ Loses /\ Tells(journal, journal', c)
         /\ \A k : k # kind /\ Has(journal', k, c.call) => Has(journal, k, c.call)
         /\ \/ Has(journal', kind, c.call) /\ (kind = "start" => Begun(journal', c))
            \/ journal' = journal /\ losses = 1 /\ losses' = 0
<1> DEFINE line == Line(kind, c, good)
<1>1. /\ line \in JournalLines /\ line.kind = kind /\ line.call = c.call
      /\ line.logical = c.receipt.seq /\ line.node = c.receipt.node
  BY LineOf
<1>2. Emit(<<line>>)
  OBVIOUS
<1> HIDE DEF line
<1>3. Loses /\ (journal' = Append(journal, line) \/ (journal' = journal /\ losses = 1 /\ losses' = 0))
  BY <1>1, <1>2, EmitsOne
<1>4. CASE journal' = journal /\ losses = 1 /\ losses' = 0
  BY <1>3, <1>4, TellsNothing
<1>5. CASE journal' = Append(journal, line)
  BY <1>1, <1>3, <1>5, LineTells
<1> QED
  BY <1>3, <1>4, <1>5

\* A replayed attempt is one of the started, or leaves an orphan.
LEMMA TwoLines ==
  ASSUME losses \in {0, 1}, journal \in Seq(JournalLines), NEW c \in Attempts,
         NEW kind \in {"end", "error"}, NEW good \in BOOLEAN, \A k : ~Has(journal, k, c.call),
         Emit(<<Line("start", c, TRUE), Line(kind, c, good)>>)
  PROVE  /\ Loses /\ Tells(journal, journal', c)
         /\ Started(journal', c.receipt.seq) \/ (kind = "end" => Orphan(journal', c.call))
<1> DEFINE first == Line("start", c, TRUE)
           second == Line(kind, c, good)
           mid == Append(journal, first)
<1>1. \A k \in {"queued", "start", "end", "error"} : \A g \in BOOLEAN :
         /\ Line(k, c, g) \in JournalLines /\ Line(k, c, g).kind = k /\ Line(k, c, g).call = c.call
         /\ Line(k, c, g).logical = c.receipt.seq /\ Line(k, c, g).node = c.receipt.node
  BY LineOf
<1>2. /\ first \in JournalLines /\ first.kind = "start" /\ first.call = c.call
      /\ first.logical = c.receipt.seq /\ first.node = c.receipt.node
  BY <1>1
<1>3. /\ second \in JournalLines /\ second.kind = kind /\ second.call = c.call
      /\ second.logical = c.receipt.seq /\ second.node = c.receipt.node
  BY <1>1
<1>4. Emit(<<first, second>>)
  OBVIOUS
<1> HIDE DEF first, second
<1>5. Loses /\ (journal' = Append(mid, second) \/ journal' = mid \/ journal' = Append(journal, second))
  BY <1>2, <1>3, <1>4, EmitsTwo
<1>6. Tells(journal, mid, c) /\ Started(mid, c.receipt.seq) /\ mid \in Seq(JournalLines)
  BY <1>2, LineTells DEF Tells
<1>7. CASE journal' = Append(mid, second)
  <2> HIDE DEF mid
  <2>1. Tells(mid, journal', c)
    BY <1>3, <1>6, <1>7, LineTells
  <2> QED
    BY <1>5, <1>6, <2>1, TellsOn DEF Tells
<1>8. CASE journal' = mid
  BY <1>5, <1>6, <1>8
<1>9. CASE journal' = Append(journal, second)
  <2>1. /\ Tells(journal, journal', c) /\ Has(journal', kind, c.call)
        /\ \A k : k # kind /\ Has(journal', k, c.call) => Has(journal, k, c.call)
    BY <1>3, <1>9, LineTells
  <2> QED
    BY <1>5, <2>1 DEF Orphan
<1> QED
  BY <1>5, <1>7, <1>8, <1>9

\* What an attempt that has just been numbered leaves behind.
Opens(b, c) ==
    \E d : /\ doing' = [doing EXCEPT ![b] = d] /\ Traced(journal', losses', c.call, d) /\ (Lives(d) => d.call = c.call)
           /\ Answered(journal', d) \/ (~Lives(d) /\ Orphan(journal', c.call))

LEMMA QueueWrites ==
  ASSUME losses \in {0, 1}, journal \in Seq(JournalLines), NEW b, NEW c \in Attempts,
         c.call # 0, \A k : ~Has(journal, k, c.call), Queue(b, c)
  PROVE  Loses /\ Tells(journal, journal', c) /\ Opens(b, c)
<1> DEFINE refused == [c EXCEPT !.stage = "answered", !.outcome = "thrown"]
           queued == [c EXCEPT !.stage = "queued"]
<1>1. /\ refused.stage = "answered" /\ refused.outcome = "thrown"
      /\ queued.stage = "queued" /\ queued.call = c.call
  BY DEF Attempts
<1>0. c.call \in 1..c.call
  <2>1. c.call \in Nat
    BY DEF Attempts
  <2> QED
    BY <2>1
<1> HIDE DEF refused, queued
<1>2. CASE doing' = [doing EXCEPT ![b] = refused] /\ UNCHANGED <<journal, losses>>
  <2>1. ~Lives(refused) /\ Answered(journal', refused)
    BY <1>1 DEF Lives, Answered
  <2>2. Traced(journal', losses', c.call, refused)
    BY <2>1 DEF Traced
  <2>3. Opens(b, c)
    BY <1>2, <2>1, <2>2 DEF Opens
  <2> QED
    BY <1>2, <2>3, TellsNothing DEF Loses
<1>3. CASE doing' = [doing EXCEPT ![b] = queued] /\ Emit(<<Line("queued", c, TRUE)>>)
  <2>1. /\ Loses /\ Tells(journal, journal', c)
        /\ \A k : k # "queued" /\ Has(journal', k, c.call) => Has(journal, k, c.call)
    BY <1>3, OneLine
  <2>2. ~Has(journal', "start", c.call)
    BY <2>1
  <2>3. Traced(journal', losses', c.call, queued) /\ Answered(journal', queued)
    BY <1>0, <1>1, <2>2 DEF Traced, Answered
  <2>4. Opens(b, c)
    BY <1>1, <1>3, <2>3 DEF Opens
  <2> QED
    BY <2>1, <2>4
<1> QED
  BY <1>2, <1>3 DEF Queue, refused, queued

LEMMA ReplayWrites ==
  ASSUME losses \in {0, 1}, journal \in Seq(JournalLines), NEW b, NEW c \in Attempts,
         \A k : ~Has(journal, k, c.call), Replay(b, c)
  PROVE  Loses /\ Tells(journal, journal', c) /\ Opens(b, c)
<1> DEFINE thrown == [c EXCEPT !.stage = "answered", !.outcome = "thrown"]
           answered == [c EXCEPT !.stage = "answered", !.outcome = "answer"]
<1>1. /\ thrown.stage = "answered" /\ thrown.outcome = "thrown"
      /\ answered.stage = "answered" /\ answered.receipt = c.receipt
  BY DEF Attempts
<1> HIDE DEF thrown, answered
<1>2. ~Lives(thrown) /\ ~Lives(answered) /\ Answered(journal', thrown)
  BY <1>1 DEF Lives, Answered
<1>3. Traced(journal', losses', c.call, thrown) /\ Traced(journal', losses', c.call, answered)
  BY <1>2 DEF Traced
<1>4. doing' = [doing EXCEPT ![b] = thrown] => Opens(b, c)
  BY <1>2, <1>3 DEF Opens
<1>5. CASE doing' = [doing EXCEPT ![b] = thrown] /\ UNCHANGED <<journal, losses>>
  BY <1>4, <1>5, TellsNothing DEF Loses
<1>6. CASE doing' = [doing EXCEPT ![b] = answered] /\ Emit(<<Line("start", c, TRUE), Line("end", c, TRUE)>>)
  <2>1. /\ Loses /\ Tells(journal, journal', c)
        /\ Started(journal', c.receipt.seq) \/ Orphan(journal', c.call)
    BY <1>6, TwoLines
  <2>2. Answered(journal', answered) \/ Orphan(journal', c.call)
    BY <1>1, <2>1 DEF Answered
  <2>3. Opens(b, c)
    BY <1>2, <1>3, <1>6, <2>2 DEF Opens
  <2> QED
    BY <2>1, <2>3
<1>7. CASE doing' = [doing EXCEPT ![b] = thrown] /\ Emit(<<Line("start", c, TRUE), Line("error", c, FALSE)>>)
  <2>1. Loses /\ Tells(journal, journal', c)
    BY <1>7, TwoLines
  <2> QED
    BY <1>4, <1>7, <2>1
<1> QED
  BY <1>5, <1>6, <1>7 DEF Replay, thrown, answered

\* An attempt that has just been numbered has no lines yet.
LEMMA NewNumber ==
  ASSUME WrittenInv, calls \in Nat
  PROVE  calls + 1 \in Nat /\ calls + 1 # 0 /\ calls + 1 > calls /\ \A k : ~Has(journal, k, calls + 1)
<1>1. calls + 1 \in Nat /\ calls + 1 # 0 /\ calls + 1 > calls /\ calls + 1 \notin 0..calls
  OBVIOUS
<1> QED
  BY <1>1 DEF WrittenInv, LinesBelow

\* One branch moves, and the lines of one attempt are written, a new one or that of the branch.
LEMMA WrittenMoves ==
  ASSUME ResumeInv, WrittenInv, UNCHANGED script, Loses, calls \in Nat, calls' \in Nat, calls <= calls',
         NEW known, Known(replayer', record') \subseteq known, StartsKnown(journal', known),
         Counts(known, replayer'.readCursor, occurrences'),
         NEW b \in Branches, NEW c, doing' = [doing EXCEPT ![b] = c], NEW a, Tells(journal, journal', a),
         \/ a.call \in Nat /\ a.call > calls /\ (journal' = journal \/ a.call <= calls')
         \/ Lives(doing[b]) /\ a.call = doing[b].call,
         Traced(journal', losses', calls', c), Lives(c) => c.call = a.call,
         \/ Torn(journal, doing, calls)
         \/ Orphan(journal', a.call) /\ a.call \in 1..calls' /\ ~Lives(c)
         \/ AnswersStarted(journal', record') /\ (c # None => Answered(journal', c))
  PROVE  WrittenInv'
<1>1. /\ DOMAIN doing = Branches /\ Branches' = Branches /\ DOMAIN doing' = Branches
      /\ \A d \in Branches : doing'[d] = IF d = b THEN c ELSE doing[d]
  BY DEF ResumeInv, Branches
<1>2. \A d \in Branches : Lives(doing[d]) => doing[d].call \in 1..calls
  BY DEF WrittenInv, Traced
<1>3. \A d \in Branches : d # b /\ Lives(doing[d]) => doing[d].call # a.call
  <2>1. CASE a.call \in Nat /\ a.call > calls
    BY <1>2, <2>1
  <2>2. CASE Lives(doing[b]) /\ a.call = doing[b].call
    BY <2>2 DEF WrittenInv
  <2> QED
    BY <2>1, <2>2
<1>4. \A x \in 1..calls : (\A d \in Branches : Lives(doing[d]) => doing[d].call # x) => x # a.call
  <2>1. CASE a.call \in Nat /\ a.call > calls
    BY <2>1
  <2>2. CASE Lives(doing[b]) /\ a.call = doing[b].call
    BY <2>2
  <2> QED
    BY <2>1, <2>2
<1>5. LinesBelow(journal', calls')
  <2> SUFFICES ASSUME NEW kind, NEW x, Has(journal', kind, x) PROVE x \in 0..calls'
    BY DEF LinesBelow
  <2>1. Has(journal, kind, x) => x \in 0..calls'
    <3>1. Has(journal, kind, x) => x \in 0..calls
      BY DEF WrittenInv, LinesBelow
    <3> QED
      BY <3>1
  <2>2. CASE x = a.call
    <3>1. CASE journal' = journal
      BY <2>1, <3>1
    <3>2. CASE a.call \in Nat /\ a.call <= calls'
      BY <2>2, <3>2
    <3>3. CASE Lives(doing[b]) /\ a.call = doing[b].call
      <4>1. a.call \in 1..calls
        BY <1>2, <3>3
      <4> QED
        BY <2>2, <4>1
    <3> QED
      BY <3>1, <3>2, <3>3
  <2>3. CASE x # a.call
    <3>1. Has(journal, kind, x)
      BY <2>3 DEF Tells
    <3> QED
      BY <2>1, <3>1
  <2> QED
    BY <2>2, <2>3
<1>6. ASSUME Torn(journal, doing, calls) PROVE Torn(journal', doing', calls')
  <2>1. PICK x \in 1..calls : Orphan(journal, x) /\ \A d \in Branches : Lives(doing[d]) => doing[d].call # x
    BY <1>1, <1>6 DEF Torn
  <2>2. x # a.call /\ x \in 1..calls'
    BY <1>4, <2>1
  <2>3. Orphan(journal', x)
    BY <2>1, <2>2 DEF Orphan, Tells
  <2>4. \A d \in Branches : Lives(doing'[d]) => doing'[d].call # x
    BY <1>1, <2>1, <2>2
  <2> QED
    BY <1>1, <2>2, <2>3, <2>4 DEF Torn
<1>7. ASSUME Orphan(journal', a.call) /\ a.call \in 1..calls' /\ ~Lives(c) PROVE Torn(journal', doing', calls')
  <2>1. \A d \in Branches : Lives(doing'[d]) => doing'[d].call # a.call
    BY <1>1, <1>3, <1>7
  <2> QED
    BY <1>1, <1>7, <2>1 DEF Torn
<1>8. ASSUME ~Torn(journal, doing, calls), AnswersStarted(journal', record') /\ (c # None => Answered(journal', c))
      PROVE  \A d \in Branches : doing'[d] # None => Answered(journal', doing'[d])
  <2> SUFFICES ASSUME NEW d \in Branches, doing'[d] # None PROVE Answered(journal', doing'[d])
    OBVIOUS
  <2>1. CASE d = b
    BY <1>1, <1>8, <2>1
  <2>2. CASE d # b
    <3>1. doing'[d] = doing[d] /\ Answered(journal, doing[d])
      BY <1>1, <1>8, <2>2 DEF WrittenInv
    <3> QED
      BY <3>1 DEF Answered, Tells
  <2> QED
    BY <2>1, <2>2
<1>9. ASSUME NEW d \in Branches PROVE Traced(journal', losses', calls', doing'[d])
  <2>1. CASE d = b
    BY <1>1, <2>1
  <2>2. CASE d # b /\ Lives(doing[d])
    <3>1. doing'[d] = doing[d] /\ doing[d].call # a.call /\ doing[d].call \in 1..calls'
      BY <1>1, <1>2, <1>3, <2>2
    <3>2. Traced(journal, losses, calls, doing[d]) /\ (losses = 0 => losses' = 0)
      BY DEF WrittenInv, Loses
    <3>3. ~Has(journal, "start", doing[d].call) => ~Has(journal', "start", doing[d].call)
      BY <3>1 DEF Tells
    <3>4. Begun(journal, doing[d]) => Begun(journal', doing[d])
      BY DEF Tells
    <3> QED
      BY <2>2, <3>1, <3>2, <3>3, <3>4 DEF Traced
  <2>3. CASE d # b /\ ~Lives(doing[d])
    BY <1>1, <2>3 DEF Traced
  <2> QED
    BY <2>1, <2>2, <2>3
<1>10. \A d, e \in Branches : Lives(doing'[d]) /\ Lives(doing'[e]) /\ doing'[d].call = doing'[e].call => d = e
  BY <1>1, <1>3 DEF WrittenInv
<1>11. losses' \in {0, 1} /\ journal' \in Seq(JournalLines)
  BY DEF Loses, Tells
<1>12. \/ Torn(journal', doing', calls')
       \/ AnswersStarted(journal', record') /\ \A d \in Branches : doing'[d] # None => Answered(journal', doing'[d])
  BY <1>6, <1>7, <1>8
<1> QED
  BY <1>1, <1>5, <1>9, <1>10, <1>11, <1>12 DEF WrittenInv

\* A call goes on, with the lines of an attempt of its own.
LEMMA WrittenGoesOn ==
  ASSUME ResumeInv, ChainInv, WrittenInv, NEW b \in Branches, doing[b] # None,
         Loses, calls \in Nat, calls' \in Nat, calls <= calls', UNCHANGED <<replayer, record, script, occurrences>>,
         NEW c, doing' = [doing EXCEPT ![b] = c], NEW a, a.receipt = doing[b].receipt, Tells(journal, journal', a),
         \/ a.call \in Nat /\ a.call > calls /\ a.call <= calls'
         \/ Lives(doing[b]) /\ a.call = doing[b].call,
         Traced(journal', losses', calls', c), Lives(c) => c.call = a.call,
         \/ Torn(journal, doing, calls)
         \/ Orphan(journal', a.call) /\ a.call \in 1..calls' /\ ~Lives(c)
         \/ Answered(journal', c)
  PROVE  WrittenInv'
<1>1. PICK known : /\ Known(replayer, record) \subseteq known /\ StartsKnown(journal, known)
                   /\ Counts(known, replayer.readCursor, occurrences)
  BY DEF WrittenInv
<1>2. Name(a.receipt) \in known
  <2>1. Name(doing[b].receipt) \in Known(replayer, record)
    BY OpenCall, OpenKnown
  <2> QED
    BY <1>1, <2>1
<1>3. /\ Known(replayer', record') \subseteq known /\ StartsKnown(journal', known)
      /\ Counts(known, replayer'.readCursor, occurrences')
  BY <1>1, <1>2 DEF Tells
<1>4. Torn(journal, doing, calls) \/ AnswersStarted(journal', record')
  <2>1. Torn(journal, doing, calls) \/ AnswersStarted(journal, record)
    BY DEF WrittenInv
  <2>2. AnswersStarted(journal, record) => AnswersStarted(journal', record')
    BY DEF AnswersStarted, Tells
  <2> QED
    BY <2>1, <2>2
<1> QED
  BY <1>3, <1>4, WrittenMoves

\* A call goes on with a new attempt.
LEMMA WrittenOpens ==
  ASSUME ResumeInv, ChainInv, WrittenInv, NEW b \in Branches, doing[b] # None,
         calls \in Nat, calls' = calls + 1, UNCHANGED <<replayer, record, script, occurrences>>,
         NEW a, a.receipt = doing[b].receipt, a.call = calls + 1,
         Loses, Tells(journal, journal', a), Opens(b, a)
  PROVE  WrittenInv'
<1>1. PICK c : /\ doing' = [doing EXCEPT ![b] = c] /\ Traced(journal', losses', a.call, c) /\ (Lives(c) => c.call = a.call)
               /\ Answered(journal', c) \/ (~Lives(c) /\ Orphan(journal', a.call))
  BY DEF Opens
<1>2. /\ calls' \in Nat /\ calls <= calls' /\ a.call \in Nat /\ a.call > calls /\ a.call <= calls'
      /\ a.call \in 1..calls' /\ a.call = calls'
  OBVIOUS
<1> QED
  BY <1>1, <1>2, WrittenGoesOn

LEMMA RowAnswers ==
  ASSUME NEW rows, rows \in Seq(Range(rows)), NEW lines, AnswersStarted(lines, rows), NEW row,
         row.kind = "agent" /\ row.ok => Started(lines, row.seq)
  PROVE  AnswersStarted(lines, Append(rows, row))
<1> DEFINE t == Append(rows, row)
           n == Len(rows) + 1
<1>1. /\ DOMAIN t = DOMAIN rows \cup {n} /\ n \notin DOMAIN rows /\ t[n] = row
      /\ \A i \in DOMAIN rows : t[i] = rows[i]
  BY Appended
<1> HIDE DEF t, n
<1>2. \A i \in Rows(t, "agent") : (i \in Rows(rows, "agent") /\ t[i] = rows[i]) \/ (t[i] = row /\ row.kind = "agent")
  BY <1>1 DEF Rows
<1>3. AnswersStarted(lines, t)
  BY <1>2 DEF AnswersStarted
<1> QED
  BY <1>3 DEF t

\* A branch leaves its call, or makes none, and writes no lines.
LEMMA WrittenStays ==
  ASSUME ResumeInv, WrittenInv, UNCHANGED <<script, journal>>, Loses, calls \in Nat, UNCHANGED calls,
         NEW known, Known(replayer', record') \subseteq known, StartsKnown(journal, known),
         Counts(known, replayer'.readCursor, occurrences'),
         NEW b \in Branches, doing' = [doing EXCEPT ![b] = None],
         Torn(journal, doing, calls) \/ AnswersStarted(journal, record')
  PROVE  WrittenInv'
<1> DEFINE a == [call |-> calls + 1, receipt |-> None]
<1>1. a.call \in Nat /\ a.call > calls
  OBVIOUS
<1>2. Tells(journal, journal', a)
  BY TellsNothing DEF WrittenInv
<1>3. Traced(journal', losses', calls', None) /\ ~Lives(None)
  BY DEF Traced, Lives
<1>4. /\ calls' \in Nat /\ calls <= calls' /\ journal' = journal /\ StartsKnown(journal', known)
      /\ Torn(journal, doing, calls) \/ AnswersStarted(journal', record')
  OBVIOUS
<1> HIDE DEF a
<1> QED
  BY <1>1, <1>2, <1>3, <1>4, WrittenMoves

LEMMA WrittenLeaves ==
  ASSUME ResumeInv, ChainInv, WrittenInv, NEW b \in Branches, doing[b] # None, NEW good \in BOOLEAN, NEW text,
         RecordAgentAttempt(doing[b].receipt, good, text),
         good => Torn(journal, doing, calls) \/ Started(journal, doing[b].receipt.seq),
         doing' = [doing EXCEPT ![b] = None], UNCHANGED <<script, journal, occurrences, calls>>
  PROVE  WrittenInv'
<1> DEFINE r == doing[b].receipt
           row == [kind |-> "agent", seq |-> r.seq, node |-> r.node, key |-> r.key,
                   ok |-> good, value |-> IF good THEN text ELSE None]
<1>1. /\ losses \in {0, 1} /\ calls \in Nat /\ record \in Seq(Range(record)) /\ DOMAIN replayer = ControllerFields
  BY DEF WrittenInv, ResumeInv, IsRecord, Prefixed, ChainInv, ChainTypes
<1>2. PICK known : /\ Known(replayer, record) \subseteq known /\ StartsKnown(journal, known)
                   /\ Counts(known, replayer.readCursor, occurrences)
  BY DEF WrittenInv
<1>3. r \in replayer.admissions /\ replayer' = Settled(replayer, r, good) /\ AppendRow(row)
  BY DEF RecordAgentAttempt
<1>4. /\ row.kind = "agent" /\ Name(row) = Name(r) /\ row.seq = r.seq /\ row.ok = good
  BY DEF Name
<1> HIDE DEF row
<1>5. Loses /\ (record' = Append(record, row) \/ record' = record)
  BY <1>1, <1>3, AppendsRow
<1>6. replayer'.readCursor = replayer.readCursor /\ replayer'.admissions = replayer.admissions \ {r}
  BY <1>1, <1>3, SettleFields
<1>7. Known(replayer', record') \subseteq known
  <2>1. CASE record' = Append(record, row)
    <3>1. Known(replayer', record') = Known(replayer, record)
      BY <1>1, <1>3, <1>4, <1>6, <2>1, KnownSettles
    <3> QED
      BY <1>2, <3>1
  <2>2. CASE record' = record
    <3>1. Known(replayer', record') \subseteq Known(replayer, record)
      BY <1>6, <2>2 DEF Known
    <3> QED
      BY <1>2, <3>1
  <2> QED
    BY <1>5, <2>1, <2>2
<1>8. Torn(journal, doing, calls) \/ AnswersStarted(journal, record')
  <2> SUFFICES ASSUME ~Torn(journal, doing, calls) PROVE AnswersStarted(journal, record')
    OBVIOUS
  <2>1. AnswersStarted(journal, record) /\ (good => Started(journal, r.seq))
    BY DEF WrittenInv
  <2>2. AnswersStarted(journal, Append(record, row))
    BY <1>1, <1>4, <2>1, RowAnswers
  <2> QED
    BY <1>5, <2>1, <2>2
<1> QED
  BY <1>1, <1>2, <1>5, <1>6, <1>7, <1>8, WrittenStays

LEMMA RevalidateWrites == ASSUME ResumeInv, ChainInv, WrittenInv, NEW b \in Branches, Revalidate(b) PROVE WrittenInv'
<1> DEFINE n == calls + 1
           c == [doing[b] EXCEPT !.call = n]
<1>1. /\ doing[b] # None /\ doing[b] \in OpenCalls /\ UNCHANGED <<script, occurrences>>
      /\ losses \in {0, 1} /\ calls \in Nat /\ journal \in Seq(JournalLines)
  BY OpenCall DEF Revalidate, Awaits, ChainInv, ChainTypes, WrittenInv
<1>2. n \in Nat /\ n # 0 /\ n > calls /\ \A k : ~Has(journal, k, n)
  BY <1>1, NewNumber
<1>3. CASE Replay(b, c) /\ calls' = calls + 1 /\ UNCHANGED <<replayer, record>>
  <2> HIDE DEF n
  <2>1. c \in Attempts /\ c.receipt = doing[b].receipt /\ c.call = n
    BY <1>1, <1>2, AgainTyped
  <2> HIDE DEF c
  <2>2. Loses /\ Tells(journal, journal', c) /\ Opens(b, c)
    BY <1>1, <1>2, <1>3, <2>1, ReplayWrites
  <2>3. c.call = calls + 1
    BY <2>1 DEF n
  <2> QED
    BY <1>1, <1>3, <2>1, <2>2, <2>3, WrittenOpens
<1>4. CASE RecordAgentAttempt(doing[b].receipt, FALSE, None) /\ Throws(b) /\ UNCHANGED <<journal, calls>>
  <2>1. doing' = [doing EXCEPT ![b] = None]
    BY <1>4 DEF Throws
  <2> QED
    BY <1>1, <1>4, <2>1, WrittenLeaves
<1> QED
  BY <1>3, <1>4 DEF Revalidate

LEMMA StartWrites == ASSUME ResumeInv, ChainInv, WrittenInv, NEW b \in Branches, Start(b) PROVE WrittenInv'
<1> DEFINE thrown == [doing[b] EXCEPT !.stage = "answered", !.outcome = "thrown"]
           started == [doing[b] EXCEPT !.stage = "running"]
<1>1. /\ doing[b] # None /\ doing[b] \in OpenCalls /\ UNCHANGED <<script, occurrences, replayer, record, calls>>
      /\ losses \in {0, 1} /\ calls \in Nat /\ journal \in Seq(JournalLines) /\ b \in DOMAIN doing
      /\ doing[b].stage = "queued" /\ Traced(journal, losses, calls, doing[b])
  <2>1. /\ doing[b] # None /\ UNCHANGED <<script, occurrences, replayer, record, calls>>
        /\ doing[b].stage = "queued"
    BY DEF Start, Awaits
  <2>2. doing[b] \in OpenCalls
    BY <2>1, OpenCall
  <2>3. calls \in Nat /\ b \in DOMAIN doing
    BY DEF ChainInv, ChainTypes
  <2> QED
    BY <2>1, <2>2, <2>3 DEF WrittenInv
<1>2. doing[b] \in Attempts /\ calls <= calls' /\ calls' \in Nat
  <2>1. doing[b] \in OpenCalls => doing[b] \in Attempts
    BY DEF OpenCalls, Attempts
  <2> QED
    BY <1>1, <2>1
<1>3. Lives(doing[b]) /\ doing[b].call \in 1..calls /\ ~Has(journal, "start", doing[b].call)
  BY <1>1 DEF Lives, Traced
<1>4. CASE doing' = [doing EXCEPT ![b] = thrown] /\ Emit(<<Line("error", doing[b], FALSE)>>)
  <2>1. Loses /\ Tells(journal, journal', doing[b])
    BY <1>1, <1>2, <1>4, OneLine
  <2>2. thrown.stage = "answered" /\ thrown.outcome = "thrown"
    BY <1>1 DEF OpenCalls
  <2> HIDE DEF thrown
  <2>3. Answered(journal', thrown) /\ ~Lives(thrown) /\ Traced(journal', losses', calls', thrown)
    BY <2>2 DEF Answered, Lives, Traced
  <2> QED
    BY <1>1, <1>2, <1>3, <1>4, <2>1, <2>3, WrittenGoesOn
<1>5. CASE doing' = [doing EXCEPT ![b] = started] /\ Emit(<<Line("start", doing[b], TRUE)>>)
  <2>1. /\ Loses /\ Tells(journal, journal', doing[b])
        /\ \/ Has(journal', "start", doing[b].call) /\ Begun(journal', doing[b])
           \/ journal' = journal /\ losses = 1 /\ losses' = 0
    BY <1>1, <1>2, <1>5, OneLine
  <2>2. started.stage = "running" /\ started.call = doing[b].call /\ started.receipt = doing[b].receipt
    BY <1>1 DEF OpenCalls
  <2> HIDE DEF started
  <2>3. Answered(journal', started)
    BY <2>2 DEF Answered
  <2>4. Begun(journal', started) \/ (losses' = 0 /\ ~Has(journal', "start", started.call))
    BY <1>3, <2>1, <2>2 DEF Begun
  <2>5. Traced(journal', losses', calls', started)
    BY <1>1, <1>3, <2>2, <2>4 DEF Traced
  <2> QED
    BY <1>1, <1>2, <1>3, <1>5, <2>1, <2>2, <2>3, <2>5, WrittenGoesOn
<1> QED
  BY <1>1, <1>4, <1>5 DEF Start

LEMMA FinishWrites == ASSUME ResumeInv, ChainInv, WrittenInv, NEW b \in Branches, Finish(b) PROVE WrittenInv'
<1>1. /\ doing[b] # None /\ doing[b] \in OpenCalls /\ UNCHANGED <<script, occurrences, replayer, record, calls>>
      /\ losses \in {0, 1} /\ calls \in Nat /\ journal \in Seq(JournalLines) /\ b \in DOMAIN doing
      /\ doing[b].stage = "running" /\ Traced(journal, losses, calls, doing[b])
  <2>1. /\ doing[b] # None /\ UNCHANGED <<script, occurrences, replayer, record, calls>>
        /\ doing[b].stage = "running"
    BY DEF Finish, Awaits
  <2>2. doing[b] \in OpenCalls
    BY <2>1, OpenCall
  <2>3. calls \in Nat /\ b \in DOMAIN doing
    BY DEF ChainInv, ChainTypes
  <2> QED
    BY <2>1, <2>2, <2>3 DEF WrittenInv
<1>2. doing[b] \in Attempts /\ calls <= calls' /\ calls' \in Nat
  <2>1. doing[b] \in OpenCalls => doing[b] \in Attempts
    BY DEF OpenCalls, Attempts
  <2> QED
    BY <1>1, <2>1
<1>3. /\ Lives(doing[b]) /\ doing[b].call \in 1..calls /\ doing[b].call \in 1..calls'
      /\ Begun(journal, doing[b]) \/ (losses = 0 /\ ~Has(journal, "start", doing[b].call))
  BY <1>1 DEF Lives, Traced
<1>4. ASSUME NEW kind \in {"end", "error"}, NEW good \in BOOLEAN, Emit(<<Line(kind, doing[b], good)>>),
             NEW c, c.receipt = doing[b].receipt, c.stage = "answered", doing' = [doing EXCEPT ![b] = c],
             c.outcome = "answer" => kind = "end"
      PROVE  WrittenInv'
  <2>1. /\ Loses /\ Tells(journal, journal', doing[b])
        /\ \A k : k # kind /\ Has(journal', k, doing[b].call) => Has(journal, k, doing[b].call)
        /\ Has(journal', kind, doing[b].call) \/ losses = 1
    BY <1>1, <1>2, <1>4, OneLine
  <2>2. ~Lives(c) /\ Traced(journal', losses', calls', c)
    BY <1>4 DEF Lives, Traced
  <2>3. Answered(journal', c) \/ Orphan(journal', doing[b].call)
    <3>1. CASE Begun(journal, doing[b])
      <4>1. Started(journal', doing[b].receipt.seq)
        BY <2>1, <3>1 DEF Begun, Started, Tells
      <4> QED
        BY <1>4, <4>1 DEF Answered
    <3>2. CASE losses = 0 /\ ~Has(journal, "start", doing[b].call) /\ kind = "end"
      BY <2>1, <3>2 DEF Orphan
    <3>3. CASE kind # "end"
      BY <1>4, <3>3 DEF Answered
    <3> QED
      BY <1>3, <3>1, <3>2, <3>3
  <2> QED
    BY <1>1, <1>2, <1>3, <1>4, <2>1, <2>2, <2>3, WrittenGoesOn
<1>5. ASSUME NEW text, Emit(<<Line("end", doing[b], TRUE)>>),
             doing' = [doing EXCEPT ![b].stage = "answered", ![b].outcome = "answer", ![b].text = text]
      PROVE  WrittenInv'
  <2>1. PICK c : c = [doing[b] EXCEPT !.stage = "answered", !.outcome = "answer", !.text = text]
    OBVIOUS
  <2>2. doing' = [doing EXCEPT ![b] = c] /\ c.receipt = doing[b].receipt /\ c.stage = "answered"
    BY <1>1, <1>5, <2>1 DEF OpenCalls
  <2> QED
    BY <1>4, <1>5, <2>2
<1>6. ASSUME NEW outcome, outcome # "answer", NEW kind \in {"end", "error"}, Emit(<<Line(kind, doing[b], FALSE)>>),
             doing' = [doing EXCEPT ![b].stage = "answered", ![b].outcome = outcome]
      PROVE  WrittenInv'
  <2>1. PICK c : c = [doing[b] EXCEPT !.stage = "answered", !.outcome = outcome]
    OBVIOUS
  <2>2. /\ doing' = [doing EXCEPT ![b] = c] /\ c.receipt = doing[b].receipt /\ c.stage = "answered"
        /\ c.outcome = outcome
    BY <1>1, <1>6, <2>1 DEF OpenCalls
  <2> QED
    BY <1>4, <1>6, <2>2
<1> QED
  BY <1>5, <1>6 DEF Finish

LEMMA SettleWrites == ASSUME ResumeInv, ChainInv, WrittenInv, NEW b \in Branches, Settle(b) PROVE WrittenInv'
<1> DEFINE n == calls + 1
           c == [doing[b] EXCEPT !.call = n, !.attempt = @ + 1]
<1>1. /\ doing[b] # None /\ doing[b] \in OpenCalls /\ UNCHANGED <<script, occurrences>> /\ doing[b].stage = "answered"
      /\ losses \in {0, 1} /\ calls \in Nat /\ journal \in Seq(JournalLines)
  BY OpenCall DEF Settle, Awaits, ChainInv, ChainTypes, WrittenInv
<1>2. n \in Nat /\ n # 0 /\ n > calls /\ \A k : ~Has(journal, k, n)
  BY <1>1, NewNumber
<1>3. CASE Retries(b)
  <2>1. Queue(b, c) /\ calls' = calls + 1 /\ UNCHANGED <<replayer, record>>
    BY <1>3 DEF Settle
  <2> HIDE DEF n
  <2>2. c \in Attempts /\ c.receipt = doing[b].receipt /\ c.call = n
    BY <1>1, <1>2, AgainTyped
  <2> HIDE DEF c
  <2>3. Loses /\ Tells(journal, journal', c) /\ Opens(b, c)
    BY <1>1, <1>2, <2>1, <2>2, QueueWrites
  <2>4. c.call = calls + 1
    BY <2>2 DEF n
  <2> QED
    BY <1>1, <2>1, <2>2, <2>3, <2>4, WrittenOpens
<1>4. CASE ~Retries(b)
  <2> DEFINE good == doing[b].outcome = "answer"
  <2>1. /\ RecordAgentAttempt(doing[b].receipt, good, doing[b].text)
        /\ doing' = [doing EXCEPT ![b] = None] /\ UNCHANGED <<journal, calls>>
    BY <1>4 DEF Settle, Throws, Returns
  <2>2. good \in BOOLEAN /\ (good => Torn(journal, doing, calls) \/ Started(journal, doing[b].receipt.seq))
    BY <1>1 DEF WrittenInv, Answered
  <2> HIDE DEF good
  <2> QED
    BY <1>1, <2>1, <2>2, WrittenLeaves
<1> QED
  BY <1>3, <1>4

LEMMA ReadClockWrites == ASSUME ResumeInv, ChainInv, WrittenInv, NEW b \in Branches, ReadClock(b) PROVE WrittenInv'
<1>1. /\ UNCHANGED <<script, occurrences, journal, calls>> /\ doing' = [doing EXCEPT ![b] = None]
      /\ replayer' \in {replayer, AfterValue(replayer)}
      /\ losses \in {0, 1} /\ calls \in Nat
      /\ record \in Seq(Range(record)) /\ DOMAIN replayer = ControllerFields
  BY DEF ReadClock, Returns, Throws, replayVars, WrittenInv, ResumeInv, IsRecord, Prefixed, ChainInv, ChainTypes
<1>2. PICK known : /\ Known(replayer, record) \subseteq known /\ StartsKnown(journal, known)
                   /\ Counts(known, replayer.readCursor, occurrences)
  BY DEF WrittenInv
<1>3. replayer'.admissions = replayer.admissions /\ replayer'.readCursor = replayer.readCursor
  BY <1>1, ValueFields
<1>4. /\ Loses /\ Known(replayer', record') = Known(replayer, record)
      /\ AnswersStarted(journal, record) => AnswersStarted(journal, record')
  <2>1. CASE UNCHANGED <<record, losses>>
    BY <1>1, <1>3, <2>1 DEF Known, Loses
  <2>2. ASSUME NEW time, AppendRow([kind |-> "clock", seq |-> replayer.clock, node |-> None, key |-> None,
                                     ok |-> TRUE, value |-> time])
        PROVE  /\ Loses /\ Known(replayer', record') = Known(replayer, record)
               /\ AnswersStarted(journal, record) => AnswersStarted(journal, record')
    <3> DEFINE row == [kind |-> "clock", seq |-> replayer.clock, node |-> None, key |-> None, ok |-> TRUE, value |-> time]
    <3>1. row.kind = "clock" /\ row.kind # "agent" /\ AppendRow(row)
      BY <2>2
    <3> HIDE DEF row
    <3>2. Loses /\ (record' = Append(record, row) \/ record' = record)
      BY <1>1, <3>1, AppendsRow
    <3>3. CASE record' = Append(record, row)
      <4>1. Known(replayer', record') = Known(replayer, record)
        BY <1>1, <1>3, <3>1, <3>3, KnownReads
      <4>2. AnswersStarted(journal, record) => AnswersStarted(journal, record')
        BY <1>1, <3>1, <3>3, RowAnswers
      <4> QED
        BY <3>2, <4>1, <4>2
    <3>4. CASE record' = record
      BY <1>3, <3>2, <3>4 DEF Known
    <3> QED
      BY <3>2, <3>3, <3>4
  <2> QED
    BY <2>1, <2>2 DEF ReadClock, replayVars
<1>5. Torn(journal, doing, calls) \/ AnswersStarted(journal, record')
  BY <1>4 DEF WrittenInv
<1> QED
  BY <1>1, <1>2, <1>3, <1>4, <1>5, WrittenStays

\* The node of a call is its label with the number of calls that had it before.
LEMMA CallNode ==
  ASSUME ChainTypes, NEW b \in Branches, ~Done(b), Step(b).kind = "call"
  PROVE  /\ Call(b).key \in Keys /\ Call(b).key[2] \in {None} \cup Labels
         /\ Call(b).node = (IF Call(b).key[2] = None THEN None ELSE <<Call(b).key[2], occurrences[Call(b).key[2]]>>)
<1>1. Call(b).key \in Keys
  BY CallTyped
<1>2. Call(b).key[2] = Step(b).label
  BY DEF Call
<1>3. Call(b).key[2] \in {None} \cup Labels
  BY <1>1 DEF Keys
<1>4. Call(b).node = IF Step(b).label = None THEN None ELSE <<Step(b).label, occurrences[Step(b).label]>>
  BY DEF Call
<1> QED
  BY <1>1, <1>2, <1>3, <1>4

LEMMA AdmitWrites == ASSUME ResumeInv, ChainInv, WrittenInv, NEW b \in Branches, Admit(b) PROVE WrittenInv'
<1> DEFINE call == Call(b)
           verdict == Verdict(replayer, call)
           after == Admitted(replayer, call)
           receipt == [seq |-> replayer.readCursor, node |-> call.node, key |-> call.key, replayed |-> verdict = "replayed"]
           opened == IF call.node = None THEN occurrences ELSE [occurrences EXCEPT ![call.node[1]] = @ + 1]
           row == [kind |-> "agent", seq |-> receipt.seq, node |-> receipt.node,
                   key |-> receipt.key, ok |-> FALSE, value |-> None]
           waiting == Open(receipt, "revalidating", None, RecordedText(replayer))
           reused == Open(receipt, "", None, RecordedText(replayer))
           fresh == Open(receipt, "", None, None)
<1>1. /\ ChainTypes /\ occurrences \in [Labels -> Nat] /\ ~Done(b) /\ Step(b).kind = "call" /\ doing[b] = None
      /\ losses \in {0, 1} /\ calls \in Nat /\ journal \in Seq(JournalLines) /\ DOMAIN doing = Branches
      /\ record \in Seq(Range(record)) /\ DOMAIN replayer = ControllerFields /\ replayer.readCursor \in Nat
      /\ Prefixed(replayer) /\ script' = script
      /\ Torn(journal, doing, calls) \/ AnswersStarted(journal, record)
  BY DEF Admit, Ready, ResumeInv, IsRecord, Prefixed, ChainInv, ChainTypes, WrittenInv
<1> PICK known : /\ Known(replayer, record) \subseteq known /\ StartsKnown(journal, known)
                 /\ Counts(known, replayer.readCursor, occurrences)
  BY DEF WrittenInv
<1>2. /\ call.key \in Keys /\ call.key[2] \in {None} \cup Labels /\ call.node \in Nodes
      /\ call.node = IF call.key[2] = None THEN None ELSE <<call.key[2], occurrences[call.key[2]]>>
  BY <1>1, CallNode, CallTyped
<1>3. None \notin Labels
  BY DEF Labels
<1>4. /\ after.readCursor = replayer.readCursor + 1
      /\ after.admissions = (IF verdict = "throws" THEN replayer.admissions ELSE replayer.admissions \cup {receipt})
      /\ DOMAIN after = ControllerFields
  BY <1>1, AdmitFields
<1>5. /\ Name(receipt) = [seq |-> replayer.readCursor, node |-> call.node, key |-> call.key]
      /\ receipt.seq = replayer.readCursor /\ row.kind = "agent" /\ Name(row) = Name(receipt) /\ row.ok = FALSE
  BY DEF Name
<1>6. ASSUME NEW text \in Values
      PROVE  LET c == Open(receipt, "revalidating", None, text)
                 d == Open(receipt, "", None, text)
             IN  /\ d \in Attempts /\ d.receipt = receipt /\ d.call = calls + 1
                 /\ c.stage = "revalidating" /\ c.receipt = receipt /\ c.call = calls + 1
  <2>1. calls + 1 \in Nat
    BY <1>1
  <2>2. receipt \in Receipts
    BY <1>1, <1>2 DEF Receipts
  <2> HIDE DEF receipt
  <2> DEFINE n == calls + 1
  <2>3. n \in Nat
    BY <2>1
  <2>4. Open(receipt, "", None, text) = [receipt |-> receipt, stage |-> "", call |-> n, attempt |-> 1, outcome |-> None, text |-> text]
    BY DEF Open
  <2>5. LET c == Open(receipt, "revalidating", None, text)
        IN  c.stage = "revalidating" /\ c.receipt = receipt /\ c.call = n
    BY DEF Open
  <2> DEFINE d == [receipt |-> receipt, stage |-> "", call |-> n, attempt |-> 1, outcome |-> None, text |-> text]
  <2> HIDE DEF n
  <2>6. d \in Attempts /\ d.receipt = receipt /\ d.call = n
    BY <2>2, <2>3 DEF Attempts
  <2>7. Open(receipt, "", None, text) = d
    BY <2>4
  <2> HIDE DEF d
  <2>8. n = calls + 1
    BY DEF n
  <2> QED
    BY <2>5, <2>6, <2>7, <2>8
<1>7. verdict = "replayed" => RecordedText(replayer) \in Values
  <2> SUFFICES ASSUME verdict = "replayed" PROVE RecordedText(replayer) \in Values
    OBVIOUS
  <2>1. /\ Enabled(replayer)
        /\ \E i : /\ AgentRow(replayer.options.source, i)
                  /\ RecordedText(replayer) = replayer.options.source[i].value
    BY <1>1, ReuseIsPrefixed
  <2>2. PICK i : AgentRow(replayer.options.source, i) /\ RecordedText(replayer) = replayer.options.source[i].value
    BY <2>1
  <2>3. replayer.options.source \in Seq(RecordRows)
    BY <1>1, <2>1 DEF ChainTypes
  <2>4. replayer.options.source[i] \in RecordRows
    BY <2>2, <2>3, ElementOfSeq, LenProperties DEF AgentRow
  <2> QED
    BY <2>2, <2>4 DEF RecordRows
<1> HIDE DEF receipt, call, row, opened
\* What is known once the call is admitted.
<1>8. Counts(known \cup {Name(receipt)}, replayer.readCursor + 1, opened)
  <2>1. \A label \in Labels : opened[label] = IF label = call.key[2] THEN occurrences[label] + 1 ELSE occurrences[label]
    <3>1. CASE call.node = None
      <4>1. call.key[2] = None
        <5>1. call.key[2] \in Labels => call.node \in Labels \X Nat
          BY <1>1, <1>2, <1>3
        <5> QED
          BY <1>2, <3>1, <5>1, NothingAssumption
      <4> QED
        BY <1>3, <3>1, <4>1 DEF opened
    <3>2. CASE call.node # None
      <4>1. call.key[2] \in Labels /\ call.node[1] = call.key[2]
        BY <1>2, <3>2
      <4>2. opened = [occurrences EXCEPT ![call.key[2]] = @ + 1]
        BY <3>2, <4>1 DEF opened
      <4> QED
        BY <1>1, <4>1, <4>2
    <3> QED
      BY <3>1, <3>2
  <2>2. Counts(known \cup {[seq |-> replayer.readCursor, node |-> call.node, key |-> call.key]}, replayer.readCursor + 1, opened)
    BY <1>1, <1>2, <1>3, <2>1, CountsAdmits
  <2> QED
    BY <1>5, <2>2
<1>9. Counts(known, replayer.readCursor + 1, opened)
  BY <1>1, CountsRefuses
<1>10. verdict # "throws" => Known(after, record) \subseteq known \cup {Name(receipt)} /\ receipt \in after.admissions
  <2> SUFFICES ASSUME verdict # "throws"
               PROVE  Known(after, record) \subseteq known \cup {Name(receipt)} /\ receipt \in after.admissions
    OBVIOUS
  <2> HIDE DEF verdict, after
  <2>1. after.admissions = replayer.admissions \cup {receipt}
    BY <1>4
  <2>2. Known(after, record) = Known(replayer, record) \cup {Name(receipt)}
    BY <2>1, KnownAdmits
  <2> QED
    BY <2>1, <2>2
<1>11. verdict = "throws" => Known(after, record) \subseteq known
  BY <1>4 DEF Known
<1> HIDE DEF verdict, after
<1>12. StartsKnown(journal, known \cup {Name(receipt)})
  <2> HIDE DEF Name
  <2> QED
    BY DEF StartsKnown
<1>13. CASE Throws(b) /\ UNCHANGED <<replayVars, occurrences, calls, journal>>
  <2>1. doing' = [doing EXCEPT ![b] = None] /\ UNCHANGED <<replayer, record, losses, journal, occurrences, calls>> /\ Loses
    BY <1>1, <1>13 DEF Throws, replayVars, Loses
  <2> QED
    BY <1>1, <2>1, WrittenStays
<1>14. CASE verdict = "throws" /\ replayer' = after /\ Throws(b) /\ UNCHANGED <<record, losses, calls, journal>> /\ occurrences' = opened
  <2>1. doing' = [doing EXCEPT ![b] = None] /\ Loses
    BY <1>1, <1>14 DEF Throws, Loses
  <2>2. Known(replayer', record') \subseteq known /\ Counts(known, replayer'.readCursor, occurrences')
    BY <1>4, <1>9, <1>11, <1>14
  <2> QED
    BY <1>1, <1>14, <2>1, <2>2, WrittenStays
<1>15. CASE /\ verdict \notin {"throws", "replayed"} /\ replayer' = Settled(after, receipt, FALSE) /\ Throws(b)
            /\ AppendRow(row) /\ UNCHANGED <<calls, journal>> /\ occurrences' = opened
  <2> DEFINE all == known \cup {Name(receipt)}
  <2>1. Loses /\ (record' = Append(record, row) \/ record' = record)
    BY <1>1, <1>15, AppendsRow
  <2>2. ASSUME NEW good \in BOOLEAN
        PROVE  /\ Settled(after, receipt, good).readCursor = after.readCursor
               /\ Settled(after, receipt, good).admissions = after.admissions \ {receipt}
    BY <1>4, SettleFields
  <2>3. replayer'.readCursor = replayer.readCursor + 1 /\ replayer'.admissions = after.admissions \ {receipt}
    BY <1>4, <1>15, <2>2
  <2>4. Known(replayer', record') \subseteq all
    <3>1. Known(after, record) \subseteq all /\ receipt \in after.admissions
      BY <1>10, <1>15
    <3>2. CASE record' = Append(record, row)
      <4>1. row.kind = "agent" /\ Name(row) = Name(receipt) /\ record \in Seq(Range(record))
        BY <1>1, <1>5
      <4>2. Known(replayer', Append(record, row)) = Known(after, record)
        BY <2>3, <3>1, <4>1, KnownSettles
      <4> QED
        BY <3>1, <3>2, <4>2
    <3>3. CASE record' = record
      <4>1. Known(replayer', record') \subseteq Known(after, record)
        BY <2>3, <3>3 DEF Known
      <4> QED
        BY <3>1, <4>1
    <3> QED
      BY <2>1, <3>2, <3>3
  <2>5. doing' = [doing EXCEPT ![b] = None]
    BY <1>15 DEF Throws
  <2>6. Torn(journal, doing, calls) \/ AnswersStarted(journal, record')
    <3>1. AnswersStarted(journal, record) => AnswersStarted(journal, Append(record, row))
      BY <1>1, <1>5, RowAnswers
    <3> QED
      BY <1>1, <2>1, <3>1
  <2>7. StartsKnown(journal, all) /\ Counts(all, replayer'.readCursor, occurrences')
    BY <1>8, <1>12, <1>15, <2>3
  <2> HIDE DEF all
  <2> QED
    BY <1>1, <1>15, <2>1, <2>4, <2>5, <2>6, <2>7, WrittenStays
<1>16. ASSUME verdict # "throws", replayer' = after, occurrences' = opened, UNCHANGED record, Loses,
              NEW c, doing' = [doing EXCEPT ![b] = c], NEW a, a.receipt = receipt, a.call = calls + 1,
              Tells(journal, journal', a), (journal' = journal /\ calls' = calls) \/ calls' = calls + 1,
              Traced(journal', losses', calls', c), Lives(c) => c.call = a.call,
              Answered(journal', c) \/ (calls' = calls + 1 /\ Orphan(journal', a.call) /\ ~Lives(c))
       PROVE  WrittenInv'
  <2> DEFINE all == known \cup {Name(receipt)}
  <2>1. Known(replayer', record') \subseteq all
    BY <1>10, <1>16
  <2>2. StartsKnown(journal, all) /\ Name(receipt) \in all
    BY <1>12
  <2>3. Counts(all, replayer'.readCursor, occurrences')
    BY <1>4, <1>8, <1>16
  <2> HIDE DEF all
  <2>4. StartsKnown(journal', all)
    BY <1>16, <2>2 DEF Tells
  <2>5. /\ calls' \in Nat /\ calls <= calls' /\ a.call \in Nat /\ a.call > calls /\ (journal' = journal \/ a.call <= calls')
        /\ calls' = calls + 1 => a.call \in 1..calls'
    BY <1>1, <1>16
  <2>6. Torn(journal, doing, calls) \/ AnswersStarted(journal', record')
    <3>1. AnswersStarted(journal, record) => AnswersStarted(journal', record')
      BY <1>16 DEF AnswersStarted, Tells
    <3> QED
      BY <1>1, <3>1
  <2>7. \/ Torn(journal, doing, calls)
        \/ Orphan(journal', a.call) /\ a.call \in 1..calls' /\ ~Lives(c)
        \/ AnswersStarted(journal', record') /\ (c # None => Answered(journal', c))
    BY <1>16, <2>5, <2>6
  <2> QED
    BY <1>1, <1>16, <2>1, <2>3, <2>4, <2>5, <2>7, WrittenMoves
<1>17. CASE /\ verdict = "replayed" /\ doing' = [doing EXCEPT ![b] = waiting]
            /\ replayer' = after /\ occurrences' = opened /\ UNCHANGED <<record, losses, calls, journal>>
  <2>1. waiting.stage = "revalidating" /\ waiting.receipt = receipt /\ waiting.call = calls + 1
    BY <1>6, <1>7, <1>17
  <2> HIDE DEF waiting
  <2>2. Answered(journal', waiting) /\ ~Lives(waiting)
    BY <2>1 DEF Answered, Lives
  <2>3. Traced(journal', losses', calls', waiting)
    BY <2>2 DEF Traced
  <2>4. Tells(journal, journal', waiting) /\ Loses
    BY <1>1, <1>17, TellsNothing DEF Loses
  <2> QED
    BY <1>16, <1>17, <2>1, <2>2, <2>3, <2>4
\* A new attempt is numbered and opened.
<1>18. ASSUME verdict # "throws", replayer' = after, occurrences' = opened, UNCHANGED record, calls' = calls + 1,
              NEW a, a.receipt = receipt, a.call = calls + 1, Loses, Tells(journal, journal', a), Opens(b, a)
       PROVE  WrittenInv'
  <2>1. PICK c : /\ doing' = [doing EXCEPT ![b] = c] /\ Traced(journal', losses', a.call, c) /\ (Lives(c) => c.call = a.call)
                 /\ Answered(journal', c) \/ (~Lives(c) /\ Orphan(journal', a.call))
    BY <1>18 DEF Opens
  <2>2. Traced(journal', losses', calls', c)
    BY <1>18, <2>1
  <2> QED
    BY <1>16, <1>18, <2>1, <2>2
<1>19. /\ calls + 1 \in Nat /\ calls + 1 # 0 /\ \A k : ~Has(journal, k, calls + 1)
  BY <1>1, NewNumber
<1>20. CASE /\ verdict = "replayed" /\ Replay(b, reused) /\ replayer' = after /\ occurrences' = opened
            /\ calls' = calls + 1 /\ UNCHANGED record
  <2>1. reused \in Attempts /\ reused.receipt = receipt /\ reused.call = calls + 1
    BY <1>6, <1>7, <1>20
  <2> HIDE DEF reused
  <2>2. Loses /\ Tells(journal, journal', reused) /\ Opens(b, reused)
    BY <1>1, <1>19, <1>20, <2>1, ReplayWrites
  <2> QED
    BY <1>18, <1>20, <2>1, <2>2
<1>21. CASE /\ verdict \notin {"throws", "replayed"} /\ Queue(b, fresh) /\ replayer' = after /\ occurrences' = opened
            /\ calls' = calls + 1 /\ UNCHANGED record
  <2>1. fresh \in Attempts /\ fresh.receipt = receipt /\ fresh.call = calls + 1
    BY <1>6 DEF Values
  <2> HIDE DEF fresh
  <2>2. Loses /\ Tells(journal, journal', fresh) /\ Opens(b, fresh)
    BY <1>1, <1>19, <1>21, <2>1, QueueWrites
  <2> QED
    BY <1>18, <1>21, <2>1, <2>2
<1> HIDE DEF waiting, reused, fresh
<1> QED
  BY <1>13, <1>14, <1>15, <1>17, <1>20, <1>21 DEF Admit, call, verdict, after, receipt, opened, row, waiting, reused, fresh

LEMMA RunWrites == ASSUME WrittenInv, StopRun \/ EndRun \/ Crash \/ UNCHANGED vars PROVE WrittenInv'
<1>1. UNCHANGED <<replayer, record, losses, journal, doing, occurrences, calls, script>>
  BY DEF StopRun, EndRun, Crash, vars, replayVars, callVars
<1> QED
  BY <1>1 DEF WrittenInv, Branches

\* A run begins knowing of nothing.
LEMMA NothingWritten ==
  ASSUME NEW c, NEW rows, NEW opened, NEW lines, c.admissions = {}, c.readCursor = 0, rows = <<>>,
         opened = [l \in Labels |-> 0], lines = <<>> \/ lines = <<GroupLine>>
  PROVE  /\ lines \in Seq(JournalLines) /\ LinesBelow(lines, 0) /\ AnswersStarted(lines, rows)
         /\ \E known : Known(c, rows) \subseteq known /\ StartsKnown(lines, known) /\ Counts(known, c.readCursor, opened)
<1>1. DOMAIN rows = {} /\ Rows(rows, "agent") = {}
  BY EmptySeq, LenProperties DEF Rows
<1>2. Known(c, rows) = {}
  BY <1>1 DEF Known
<1>3. GroupLine \in JournalLines /\ GroupLine.kind = "group" /\ GroupLine.call = 0
  BY DEF GroupLine, JournalLines, Nodes
<1>4. lines \in Seq(JournalLines) /\ \A i \in DOMAIN lines : lines[i].kind # "start" /\ lines[i].call = 0
  <2>1. CASE lines = <<>>
    BY <2>1
  <2>2. CASE lines = <<GroupLine>>
    <3>1. lines \in Seq(JournalLines) /\ DOMAIN lines = {1} /\ lines[1] = GroupLine
      BY <1>3, <2>2
    <3> QED
      BY <1>3, <3>1
  <2> QED
    BY <2>1, <2>2
<1>5. Counts({}, 0, opened)
  <2>1. IsFiniteSet({}) /\ Cardinality({}) = 0
    BY FS_EmptySet
  <2>2. \A label : Of({}, label) = {}
    BY DEF Of
  <2>3. \A label \in Labels : opened[label] = Cardinality(Of({}, label))
    BY <2>1, <2>2
  <2> QED
    BY <2>1, <2>3 DEF Counts
<1>6. LinesBelow(lines, 0)
  BY <1>4 DEF LinesBelow, Has
<1>7. StartsKnown(lines, {}) /\ AnswersStarted(lines, rows)
  BY <1>1, <1>4 DEF StartsKnown, AnswersStarted
<1> QED
  BY <1>2, <1>4, <1>5, <1>6, <1>7

LEMMA ResumeWrites == ASSUME WrittenInv, NEW s \in Scripts, Resume(s) PROVE WrittenInv'
<1>1. PICK options : Begin(s, options) /\ UNCHANGED losses
  BY DEF Resume
<1>2. /\ script' = s /\ replayer' = NewController(options) /\ record' = <<>> /\ calls' = 0
      /\ doing' = [b \in DOMAIN s.branches |-> None] /\ occurrences' = [l \in Labels |-> 0]
      /\ journal' = <<>> \/ journal' = <<GroupLine>>
  BY <1>1 DEF Begin
<1>3. replayer'.admissions = {} /\ replayer'.readCursor = 0
  BY <1>2 DEF NewController
<1>4. /\ journal' \in Seq(JournalLines) /\ LinesBelow(journal', calls') /\ AnswersStarted(journal', record')
      /\ \E known : /\ Known(replayer', record') \subseteq known /\ StartsKnown(journal', known)
                    /\ Counts(known, replayer'.readCursor, occurrences')
  BY <1>2, <1>3, NothingWritten
<1>5. losses' \in {0, 1} /\ \A b \in Branches' : doing'[b] = None
  BY <1>1, <1>2 DEF WrittenInv, Branches
<1>6. ~Lives(None) /\ Traced(journal', losses', calls', None)
  BY DEF Lives, Traced
<1> QED
  BY <1>4, <1>5, <1>6 DEF WrittenInv

LEMMA WrittenStarts == ASSUME \A s \in Scripts : s.losses <= 1, Init PROVE WrittenInv
<1>1. /\ record = <<>> /\ doing = [b \in Branches |-> None] /\ occurrences = [l \in Labels |-> 0] /\ calls = 0
      /\ journal = <<>> \/ journal = <<GroupLine>>
      /\ replayer = NewController(Options(None, FALSE, FALSE, None))
  BY DEF Init
<1>2. losses \in {0, 1}
  <2>1. script \in Scripts /\ losses = script.losses
    BY DEF Init
  <2>2. script.losses \in Nat
    BY <2>1, ResumeAssumption
  <2> QED
    BY <2>1, <2>2
<1>3. replayer.admissions = {} /\ replayer.readCursor = 0
  BY <1>1 DEF NewController
<1>4. /\ journal \in Seq(JournalLines) /\ LinesBelow(journal, calls) /\ AnswersStarted(journal, record)
      /\ \E known : /\ Known(replayer, record) \subseteq known /\ StartsKnown(journal, known)
                    /\ Counts(known, replayer.readCursor, occurrences)
  BY <1>1, <1>3, NothingWritten
<1>5. ~Lives(None) /\ Traced(journal, losses, calls, None)
  BY DEF Lives, Traced
<1> QED
  BY <1>1, <1>2, <1>4, <1>5 DEF WrittenInv

-----------------------------------------------------------------------------
LEMMA LabelledFinite ==
  ASSUME NEW s, NEW n \in Nat, NEW label
  PROVE  /\ IsFiniteSet(WithLabel(s, n, label)) /\ Labelled(s, n, label) \in Nat
         /\ Labelled(s, 0, label) = 0
<1>1. IsFiniteSet(1..n)
  BY FS_Interval
<1>2. IsFiniteSet(WithLabel(s, n, label))
  <2>1. WithLabel(s, n, label) \subseteq 1..n
    BY DEF WithLabel
  <2> QED
    BY <1>1, <2>1, FS_Subset
<1>3. WithLabel(s, 0, label) = {}
  BY DEF WithLabel
<1> QED
  BY <1>2, <1>3, FS_CardinalityType, FS_EmptySet DEF Labelled

LEMMA LabelledNext ==
  ASSUME NEW s, NEW n \in Nat, NEW label
  PROVE  Labelled(s, n + 1, label) = IF s[n + 1].key[2] = label THEN Labelled(s, n, label) + 1 ELSE Labelled(s, n, label)
<1>1. /\ s[n + 1].key[2] = label => WithLabel(s, n + 1, label) = WithLabel(s, n, label) \cup {n + 1}
      /\ s[n + 1].key[2] # label => WithLabel(s, n + 1, label) = WithLabel(s, n, label)
  BY DEF WithLabel
<1>2. n + 1 \notin WithLabel(s, n, label)
  BY DEF WithLabel
<1>3. Cardinality(WithLabel(s, n, label) \cup {n + 1}) = Cardinality(WithLabel(s, n, label)) + 1
  BY <1>2, LabelledFinite, FS_AddElement
<1> QED
  BY <1>1, <1>3 DEF Labelled

LEMMA LabelledMonotone ==
  ASSUME NEW s, NEW m \in Nat, NEW n \in Nat, m <= n, NEW label
  PROVE  Labelled(s, m, label) <= Labelled(s, n, label)
<1>1. WithLabel(s, m, label) \subseteq WithLabel(s, n, label)
  BY DEF WithLabel
<1> QED
  BY <1>1, LabelledFinite, FS_Subset DEF Labelled

LEMMA PrefixExtent ==
  ASSUME NEW s, IsRecord(s), Prefix(s)
  PROVE  Extent(s) = Len(s) /\ Len(s) \in Nat \ {0} /\ DOMAIN s = 1..Len(s) /\ Rows(s, "agent") = 1..Len(s)
<1>1. Len(s) \in Nat \ {0} /\ DOMAIN s = 1..Len(s)
  BY LenProperties DEF IsRecord, Prefix
<1>2. Rows(s, "agent") = 1..Len(s)
  BY <1>1 DEF Rows, Prefix
<1> DEFINE seqs == {s[i].seq : i \in Rows(s, "agent")}
           last == Len(s) - 1
<1>3. \A i \in 1..Len(s) : s[i].seq = i - 1
  BY <1>1 DEF Prefix
<1>4. last \in seqs
  <2>1. s[Len(s)].seq = last /\ Len(s) \in Rows(s, "agent")
    BY <1>1, <1>2, <1>3
  <2> QED
    BY <2>1
<1>5. \A t \in seqs : t \in Nat /\ t <= last
  BY <1>1, <1>2, <1>3
<1>6. seqs # {} /\ Extent(s) = 1 + CHOOSE m \in seqs : \A t \in seqs : t <= m
  BY <1>4 DEF Extent
<1>7. last \in Nat /\ 1 + last = Len(s)
  BY <1>1
<1> HIDE DEF seqs, last
<1>8. PICK m \in seqs : (\A t \in seqs : t <= m) /\ Extent(s) = 1 + m
  BY <1>4, <1>5, <1>6
<1>9. m = last
  BY <1>4, <1>5, <1>7, <1>8
<1> QED
  BY <1>1, <1>2, <1>7, <1>8, <1>9

LEMMA AdmitRefuses ==
  ASSUME NEW c, DOMAIN c = ControllerFields, c.options.prefix, NEW n, Extent(c.options.source) = n, NEW call
  PROVE  LET d == Admitted(c, call)
             verdict == Verdict(c, call)
         IN  /\ d.options = c.options /\ d.readCursor = c.readCursor + 1 /\ d.verdicts = Append(c.verdicts, verdict)
             /\ d.admissions = (IF verdict = "throws" THEN c.admissions
                   ELSE c.admissions \cup {[seq |-> c.readCursor, node |-> call.node, key |-> call.key,
                                            replayed |-> verdict = "replayed"]})
             /\ \/ Lookup(c, call) # "miss" /\ d.diverged = c.diverged /\ d.refusal = c.refusal
                \/ /\ Lookup(c, call) = "miss" /\ d.diverged /\ (c.refusal => d.refusal)
                   /\ c.readCursor < n => d.refusal
BY AdmitFields

\* Inside its prefix a recovery is served its record or refuses all that follows;
\* behind it, it runs afresh under numbers that the prefix did not give.
LEMMA PrefixAdmits ==
  ASSUME NEW c, Prefixed(c), c.options.prefix, NEW call, NEW opened \in [Labels -> Nat], PrefixStands(c, opened),
         None \notin Labels, call.key[2] \in {None} \cup Labels,
         call.node = (IF call.key[2] = None THEN None ELSE <<call.key[2], opened[call.key[2]]>>),
         NEW after, \A label \in Labels : after[label] = IF label = call.key[2] THEN opened[label] + 1 ELSE opened[label]
  PROVE  PrefixStands(Admitted(c, call), after)
<1> DEFINE source == c.options.source
           n == Len(source)
           cursor == c.readCursor
           d == Admitted(c, call)
           verdict == Verdict(c, call)
           receipt == [seq |-> cursor, node |-> call.node, key |-> call.key, replayed |-> verdict = "replayed"]
<1>1. /\ DOMAIN c = ControllerFields /\ cursor \in Nat /\ c.verdicts \in Seq(Verdicts) /\ Len(c.verdicts) = cursor
      /\ ~Typed(c) /\ Enabled(c) /\ Prefix(source) /\ IsRecord(source)
  BY DEF Prefixed, PrefixStands
<1>2. Extent(source) = n /\ n \in Nat \ {0} /\ DOMAIN source = 1..n
  BY <1>1, PrefixExtent
<1>3. /\ d.options = c.options /\ d.readCursor = cursor + 1 /\ d.verdicts = Append(c.verdicts, verdict)
      /\ d.admissions = (IF verdict = "throws" THEN c.admissions ELSE c.admissions \cup {receipt})
      /\ \/ Lookup(c, call) # "miss" /\ d.diverged = c.diverged /\ d.refusal = c.refusal
         \/ /\ Lookup(c, call) = "miss" /\ d.diverged /\ (c.refusal => d.refusal)
            /\ cursor < n => d.refusal
  <2>1. DOMAIN c = ControllerFields /\ ~Typed(c) /\ Extent(source) = n
    BY <1>1, <1>2
  <2> QED
    BY <2>1, AdmitRefuses
<1>4. /\ Lookup(c, call) \in {"throws", "fresh", "replayed", "miss"}
      /\ c.refusal => Lookup(c, call) = "throws"
      /\ ~c.refusal /\ ~c.diverged => Lookup(c, call) \in {"replayed", "miss"}
  <2>1. ~CanExtend(c, cursor, Extent(source))
    BY <1>1 DEF CanExtend
  <2> QED
    BY <1>1, <2>1 DEF Lookup
<1>5. /\ Lookup(c, call) # "miss" => verdict = Lookup(c, call)
      /\ Lookup(c, call) = "miss" => verdict \in {"throws", "fresh"}
      /\ Lookup(c, call) = "miss" /\ cursor < n => verdict = "throws"
  <2>1. cursor < n => Refuse(c, cursor).refusal
    BY <1>1, <1>2, RefuseFields
  <2> QED
    BY <2>1 DEF Verdict
<1>6. verdict = "replayed" => ~c.diverged /\ cursor < n /\ source[cursor + 1].key = call.key
  <2> SUFFICES ASSUME verdict = "replayed" PROVE ~c.diverged /\ cursor < n /\ source[cursor + 1].key = call.key
    OBVIOUS
  <2>1. ~c.diverged
    BY ReuseIsPrefixed
  <2>2. PICK i : AgentRow(source, i) /\ source[i].seq = cursor /\ source[i].key = call.key
    BY ReuseIsPrefixed
  <2>3. i \in 1..n /\ source[i].seq = i - 1
    BY <1>1, <1>2, <2>2 DEF AgentRow, Prefix
  <2> QED
    BY <1>1, <1>2, <2>1, <2>2, <2>3
<1>7. c.diverged /\ ~c.refusal => cursor >= n
  BY DEF PrefixStands
<1> DEFINE numbered(m, label) == Labelled(source, m, label)
<1>8. ~c.refusal => \A label \in Labels : /\ cursor <= n => opened[label] = numbered(cursor, label)
                                          /\ cursor >= n => opened[label] >= numbered(n, label)
  BY DEF PrefixStands
<1>9. \A label \in Labels : numbered(n, label) \in Nat /\ opened[label] \in Nat
  BY <1>2, LabelledFinite
<1>10. \A label : numbered(cursor + 1, label) =
                    IF source[cursor + 1].key[2] = label THEN numbered(cursor, label) + 1 ELSE numbered(cursor, label)
  BY <1>1, LabelledNext
<1>11. receipt.node = call.node /\ receipt.replayed = (verdict = "replayed")
  OBVIOUS
<1> HIDE DEF d, verdict, source, n, cursor, receipt, numbered
\* Where it stands.
<1>12. d.diverged /\ ~d.refusal => cursor + 1 >= n
  <2>1. d.diverged /\ ~d.refusal => cursor >= n
    <3>1. CASE Lookup(c, call) # "miss" /\ d.diverged = c.diverged /\ d.refusal = c.refusal
      BY <1>7, <3>1
    <3>2. CASE cursor < n => d.refusal
      BY <1>1, <1>2, <3>2
    <3> QED
      BY <1>3, <3>1, <3>2
  <2> QED
    BY <1>1, <1>2, <2>1
<1>13. ASSUME ~d.refusal, NEW label \in Labels
       PROVE  /\ cursor + 1 <= n => after[label] = numbered(cursor + 1, label)
              /\ cursor + 1 >= n => after[label] >= numbered(n, label)
  <2>1. ~c.refusal
    BY <1>3, <1>13
  <2>2. CASE cursor < n
    <3>1. verdict = "replayed" /\ source[cursor + 1].key = call.key
      BY <1>2, <1>1, <1>3, <1>4, <1>5, <1>6, <1>7, <1>13, <2>1, <2>2
    <3>2. opened[label] = numbered(cursor, label)
      BY <1>1, <1>2, <1>8, <2>1, <2>2
    <3>3. after[label] = numbered(cursor + 1, label)
      BY <1>9, <1>10, <3>1, <3>2
    <3> QED
      BY <1>1, <1>2, <1>9, <2>2, <3>3
  <2>3. CASE cursor >= n
    <3>1. opened[label] >= numbered(n, label) /\ after[label] >= opened[label]
      BY <1>8, <1>9, <2>1, <2>3
    <3> QED
      BY <1>1, <1>2, <1>9, <2>3, <3>1
  <2> QED
    BY <1>1, <1>2, <2>2, <2>3
\* What it admitted.
<1>14. ASSUME NEW a \in d.admissions, ~a.replayed, a.node # None PROVE a.node[2] >= numbered(n, a.node[1])
  <2>1. CASE a \in c.admissions
    BY <1>14, <2>1 DEF PrefixStands, numbered, n, source
  <2>2. CASE a = receipt /\ verdict # "throws"
    <3>1. verdict = "fresh"
      BY <1>4, <1>5, <1>11, <1>14, <2>2
    <3>2. ~c.refusal /\ cursor >= n
      BY <1>1, <1>2, <1>4, <1>5, <1>7, <3>1
    <3>3. call.key[2] \in Labels /\ call.node = <<call.key[2], opened[call.key[2]]>>
      BY <1>11, <1>14, <2>2
    <3> QED
      BY <1>8, <1>11, <2>2, <3>2, <3>3
  <2> QED
    BY <1>3, <2>1, <2>2
<1>15. ASSUME NEW p \in DOMAIN d.verdicts, d.verdicts[p] = "replayed" PROVE p <= n
  <2>1. verdict \in Verdicts
    BY <1>4, <1>5 DEF Verdicts
  <2>2. /\ DOMAIN d.verdicts = 1..(cursor + 1) /\ DOMAIN c.verdicts = 1..cursor
        /\ d.verdicts[cursor + 1] = verdict /\ \A q \in 1..cursor : d.verdicts[q] = c.verdicts[q]
    BY <1>1, <1>3, <2>1, AppendProperties, LenProperties
  <2>3. CASE p = cursor + 1
    BY <1>1, <1>2, <1>6, <1>15, <2>2, <2>3
  <2>4. CASE p \in 1..cursor
    BY <1>15, <2>2, <2>4 DEF PrefixStands, n, source
  <2> QED
    BY <1>1, <2>2, <2>3, <2>4
<1>16. d.options.source = source /\ ~Typed(d) /\ Enabled(d)
  BY <1>1, <1>3 DEF Typed, Enabled, source
<1>17. PrefixStands(d, after)
  <2>1. d.readCursor = cursor + 1 /\ Prefix(source) /\ n = Len(source)
    BY <1>1, <1>3 DEF n
  <2> QED
    BY <1>12, <1>13, <1>14, <1>15, <1>16, <2>1 DEF PrefixStands, numbered
<1> QED
  BY <1>17 DEF d

LEMMA PrefixSettles ==
  ASSUME NEW c, Prefixed(c), Counted(c), c.options.prefix, NEW opened, PrefixStands(c, opened),
         NEW receipt \in c.admissions, NEW good \in BOOLEAN
  PROVE  PrefixStands(Settled(c, receipt, good), opened)
<1> DEFINE source == c.options.source
           n == Len(source)
           d == Settled(c, receipt, good)
           back == TakesBack(receipt, good)
<1>1. /\ DOMAIN c = ControllerFields /\ c.readCursor \in Nat /\ receipt.seq \in 0..(c.readCursor - 1)
      /\ DOMAIN c.verdicts = 1..c.readCursor
      /\ ~Typed(c) /\ Enabled(c) /\ Prefix(source) /\ IsRecord(source)
  BY LenProperties DEF Prefixed, PrefixStands
<1>2. Extent(source) = n /\ n \in Nat \ {0}
  BY <1>1, PrefixExtent
<1>3. back => receipt.seq < n
  <2>1. back => c.verdicts[receipt.seq + 1] = "replayed" /\ receipt.seq + 1 \in DOMAIN c.verdicts
    BY <1>1 DEF Counted, TakesBack
  <2> QED
    BY <1>1, <1>2, <2>1 DEF PrefixStands
<1>4. /\ d.options = c.options /\ d.readCursor = c.readCursor
      /\ d.admissions = c.admissions \ {receipt} /\ DOMAIN d.verdicts = DOMAIN c.verdicts
      /\ \A p \in DOMAIN c.verdicts :
            d.verdicts[p] = IF back /\ p = receipt.seq + 1 THEN "refused" ELSE c.verdicts[p]
      /\ \/ d.diverged = c.diverged /\ d.refusal = c.refusal
         \/ d.diverged /\ d.refusal
  BY <1>1, <1>2, <1>3, SettleFields
<1> HIDE DEF d, back
<1>5. /\ ~d.refusal => ~c.refusal /\ d.diverged = c.diverged
      /\ \A p \in DOMAIN d.verdicts : d.verdicts[p] = "replayed" => c.verdicts[p] = "replayed"
      /\ d.admissions \subseteq c.admissions /\ ~Typed(d) /\ Enabled(d)
  BY <1>1, <1>4 DEF Typed, Enabled
<1>6. PrefixStands(d, opened)
  BY <1>4, <1>5 DEF PrefixStands
<1> QED
  BY <1>6 DEF d

LEMMA PrefixReads ==
  ASSUME NEW c, Prefixed(c), c.options.prefix, NEW opened, PrefixStands(c, opened)
  PROVE  PrefixStands(AfterValue(c), opened)
<1> DEFINE source == c.options.source
           n == Len(source)
           d == AfterValue(c)
<1>1. /\ DOMAIN c = ControllerFields /\ c.readCursor \in Nat
      /\ ~Typed(c) /\ Enabled(c) /\ Prefix(source) /\ IsRecord(source)
  BY DEF Prefixed, PrefixStands
<1>2. Extent(source) = n /\ n \in Nat \ {0}
  BY <1>1, PrefixExtent
<1>3. /\ d.options = c.options /\ d.readCursor = c.readCursor
      /\ d.verdicts = c.verdicts /\ d.admissions = c.admissions
      /\ \/ d.diverged = c.diverged /\ d.refusal = c.refusal
         \/ d.diverged /\ (c.refusal => d.refusal) /\ (c.readCursor < n => d.refusal)
  BY <1>1, <1>2, ValueFields
<1> HIDE DEF d
<1>4. ~Typed(d) /\ Enabled(d)
  BY <1>1, <1>3 DEF Typed, Enabled
<1>5. d.diverged /\ ~d.refusal => c.readCursor >= n
  <2>1. CASE d.diverged = c.diverged /\ d.refusal = c.refusal
    BY <2>1 DEF PrefixStands
  <2>2. CASE c.readCursor < n => d.refusal
    BY <1>1, <1>2, <2>2
  <2> QED
    BY <1>3, <2>1, <2>2
<1>6. ~d.refusal => ~c.refusal
  BY <1>3
<1>7. PrefixStands(d, opened)
  BY <1>3, <1>4, <1>5, <1>6 DEF PrefixStands
<1> QED
  BY <1>7 DEF d

\* The call that is opened is counted under its label.
LEMMA CallCounted ==
  ASSUME ChainTypes, NEW b \in Branches, ~Done(b), Step(b).kind = "call", NEW opened,
         opened = IF Call(b).node = None THEN occurrences ELSE [occurrences EXCEPT ![Call(b).node[1]] = @ + 1]
  PROVE  /\ opened \in [Labels -> Nat]
         /\ \A label \in Labels : opened[label] = IF label = Call(b).key[2] THEN occurrences[label] + 1 ELSE occurrences[label]
<1> DEFINE call == Call(b)
<1>1. /\ call.key[2] \in {None} \cup Labels /\ occurrences \in [Labels -> Nat] /\ None \notin Labels
      /\ call.node = IF call.key[2] = None THEN None ELSE <<call.key[2], occurrences[call.key[2]]>>
  BY CallNode DEF ChainTypes, Labels
<1>2. opened = IF call.node = None THEN occurrences ELSE [occurrences EXCEPT ![call.node[1]] = @ + 1]
  OBVIOUS
<1> HIDE DEF call
<1>3. CASE call.node = None
  <2>1. call.key[2] \in Labels => call.node \in Labels \X Nat
    BY <1>1
  <2>2. call.key[2] = None
    BY <1>1, <1>3, <2>1, NothingAssumption
  <2> QED
    BY <1>1, <1>2, <1>3, <2>2 DEF call
<1>4. CASE call.node # None
  <2>1. call.key[2] \in Labels /\ call.node[1] = call.key[2]
    BY <1>1, <1>4
  <2>2. opened = [occurrences EXCEPT ![call.key[2]] = @ + 1]
    BY <1>2, <1>4, <2>1
  <2>3. occurrences[call.key[2]] + 1 \in Nat
    BY <1>1, <2>1
  <2> QED
    BY <1>1, <2>1, <2>2, <2>3 DEF call
<1> QED
  BY <1>3, <1>4

\* A run goes on with what it recovers.
LEMMA PrefixMoves ==
  ASSUME ChainInv, Inside, PrefixInv, UNCHANGED past, replayer'.options = replayer.options,
         replayer.options.prefix => PrefixStands(replayer', occurrences')
  PROVE  PrefixInv'
<1>1. ~ok'
  BY DEF Inside, ChainInv, Served
<1> QED
  BY <1>1 DEF PrefixInv

LEMMA AdmitPrefix == ASSUME ResumeInv, ChainInv, PrefixInv, NEW b \in Branches, Admit(b) PROVE PrefixInv'
<1> DEFINE call == Call(b)
           verdict == Verdict(replayer, call)
           after == Admitted(replayer, call)
           receipt == [seq |-> replayer.readCursor, node |-> call.node, key |-> call.key, replayed |-> verdict = "replayed"]
           opened == IF call.node = None THEN occurrences ELSE [occurrences EXCEPT ![call.node[1]] = @ + 1]
<1>1. /\ Inside /\ Prefixed(replayer) /\ ChainTypes /\ Counted(replayer) /\ occurrences \in [Labels -> Nat]
      /\ ~Done(b) /\ Step(b).kind = "call" /\ UNCHANGED past /\ DOMAIN replayer = ControllerFields
  BY BranchActs DEF Admit, Ready, ResumeInv, ChainInv, ChainTypes, Prefixed
<1>2. /\ call.key \in Keys /\ call.key[2] \in {None} \cup Labels /\ call.node \in Nodes /\ None \notin Labels
      /\ call.node = IF call.key[2] = None THEN None ELSE <<call.key[2], occurrences[call.key[2]]>>
  BY <1>1, CallNode, CallTyped DEF Labels
<1>3. \A label \in Labels : opened[label] = IF label = call.key[2] THEN occurrences[label] + 1 ELSE occurrences[label]
  BY <1>1, CallCounted
<1>4. Prefixed(after) /\ Counted(after) /\ after.options = replayer.options
  BY <1>1, <1>2, Admits, AdmitsCounted
<1>5. verdict # "throws" => receipt \in after.admissions
  <2>1. after.admissions = (IF verdict = "throws" THEN replayer.admissions ELSE replayer.admissions \cup {receipt})
    <3>1. DOMAIN replayer = ControllerFields
      BY <1>1
    <3> QED
      BY <3>1, AdmitFields
  <2> HIDE DEF after, verdict, receipt
  <2> QED
    BY <2>1
<1>6. \/ UNCHANGED <<replayer, occurrences>>
      \/ occurrences' = opened /\ replayer' = after
      \/ occurrences' = opened /\ verdict # "throws" /\ replayer' = Settled(after, receipt, FALSE)
  BY DEF Admit, replayVars
<1> HIDE DEF receipt, opened
<1>7. replayer.options.prefix => PrefixStands(after, opened)
  <2> SUFFICES ASSUME replayer.options.prefix PROVE PrefixStands(after, opened)
    OBVIOUS
  <2>1. PrefixStands(replayer, occurrences)
    BY DEF PrefixInv
  <2> HIDE DEF call
  <2> QED
    BY <1>1, <1>2, <1>3, <2>1, PrefixAdmits
<1> HIDE DEF call, verdict, after
<1>8. CASE UNCHANGED <<replayer, occurrences>>
  BY <1>1, <1>8, PrefixMoves DEF PrefixInv
<1>9. CASE occurrences' = opened /\ replayer' = after
  BY <1>1, <1>4, <1>7, <1>9, PrefixMoves
<1>10. CASE occurrences' = opened /\ verdict # "throws" /\ replayer' = Settled(after, receipt, FALSE)
  <2>1. ASSUME NEW good \in BOOLEAN
        PROVE  /\ Settled(after, receipt, good).options = after.options
               /\ after.options.prefix => PrefixStands(Settled(after, receipt, good), opened)
    <3>1. DOMAIN after = ControllerFields /\ receipt \in after.admissions
      BY <1>4, <1>5, <1>10 DEF Prefixed
    <3> QED
      BY <1>4, <1>7, <3>1, SettleFields, PrefixSettles
  <2> QED
    BY <1>1, <1>4, <1>10, <2>1, PrefixMoves
<1> QED
  BY <1>6, <1>8, <1>9, <1>10

LEMMA RecordPrefix ==
  ASSUME ResumeInv, ChainInv, Inside, PrefixInv, NEW receipt, NEW good \in BOOLEAN, NEW text,
         RecordAgentAttempt(receipt, good, text), UNCHANGED <<past, occurrences>>
  PROVE  PrefixInv'
<1>1. /\ receipt \in replayer.admissions /\ replayer' = Settled(replayer, receipt, good)
      /\ Prefixed(replayer) /\ Counted(replayer) /\ DOMAIN replayer = ControllerFields
  BY DEF RecordAgentAttempt, ResumeInv, ChainInv, Prefixed
<1>2. replayer'.options = replayer.options
  BY <1>1, SettleFields
<1>3. replayer.options.prefix => PrefixStands(replayer', occurrences')
  BY <1>1, PrefixSettles DEF PrefixInv
<1> QED
  BY <1>2, <1>3, PrefixMoves

LEMMA BranchPrefix ==
  ASSUME ResumeInv, ChainInv, PrefixInv, NEW b \in Branches,
         Revalidate(b) \/ Start(b) \/ Finish(b) \/ Settle(b) \/ ReadClock(b)
  PROVE  PrefixInv'
<1>1. Inside /\ UNCHANGED <<past, occurrences>>
  BY BranchActs DEF Revalidate, Start, Finish, Settle, ReadClock
<1>2. CASE UNCHANGED replayer
  BY <1>1, <1>2, PrefixMoves DEF PrefixInv
<1>3. ASSUME NEW good \in BOOLEAN, NEW text, RecordAgentAttempt(doing[b].receipt, good, text) PROVE PrefixInv'
  BY <1>1, <1>3, RecordPrefix
<1>4. CASE replayer' = AfterValue(replayer)
  <2>1. Prefixed(replayer)
    BY DEF ResumeInv
  <2>2. replayer'.options = replayer.options
    BY <1>4, <2>1, ReadsValue
  <2>3. replayer.options.prefix => PrefixStands(replayer', occurrences')
    BY <1>1, <1>4, <2>1, PrefixReads DEF PrefixInv
  <2> QED
    BY <1>1, <2>2, <2>3, PrefixMoves
<1>5. CASE Settle(b)
  <2> DEFINE good == doing[b].outcome = "answer"
  <2>1. UNCHANGED replayer \/ RecordAgentAttempt(doing[b].receipt, good, doing[b].text)
    BY <1>5 DEF Settle
  <2>2. good \in BOOLEAN
    OBVIOUS
  <2> HIDE DEF good
  <2> QED
    BY <1>2, <1>3, <2>1, <2>2
<1>6. CASE Revalidate(b)
  BY <1>2, <1>3, <1>6 DEF Revalidate
<1>7. CASE ReadClock(b)
  BY <1>2, <1>4, <1>7 DEF ReadClock, replayVars
<1>8. CASE Start(b) \/ Finish(b)
  BY <1>2, <1>8 DEF Start, Finish
<1> QED
  BY <1>5, <1>6, <1>7, <1>8

LEMMA RunPrefix ==
  ASSUME ResumeInv, ChainInv, PrefixInv, StopRun \/ EndRun \/ Crash \/ UNCHANGED vars
  PROVE  PrefixInv'
<1>1. UNCHANGED <<replayer, occurrences, past>>
  BY DEF StopRun, EndRun, Crash, vars, replayVars, callVars
<1>2. replayer.options.prefix /\ ok' => replayer.replayed >= Len(replayer.options.source)
  <2>1. CASE EndRun
    <3> SUFFICES ASSUME replayer.options.prefix, ok' PROVE replayer.replayed >= Len(replayer.options.source)
      OBVIOUS
    <3>1. replayer.replayed >= Cardinality(Rows(replayer.options.source, "agent"))
      BY <2>1 DEF EndRun
    <3>2. IsRecord(replayer.options.source) /\ Prefix(replayer.options.source)
      BY DEF PrefixInv, PrefixStands, ResumeInv, Prefixed
    <3> DEFINE n == Len(replayer.options.source)
    <3>3. Rows(replayer.options.source, "agent") = 1..n /\ n \in Nat
      BY <3>2, PrefixExtent
    <3>4. Cardinality(1..n) = n
      BY <3>3, FS_Interval
    <3> QED
      BY <3>1, <3>3, <3>4
  <2>2. CASE UNCHANGED ok
    BY <2>2 DEF PrefixInv
  <2> QED
    BY <2>1, <2>2 DEF StopRun, Crash, vars
<1> QED
  BY <1>1, <1>2 DEF PrefixInv

\* Rows in the order of their ordinals, every one of a labelled call.
Confirming(rows) ==
    /\ rows \in Seq(RecordRows) /\ Len(rows) # 0
    /\ \A i \in DOMAIN rows : rows[i].kind = "agent" /\ rows[i].ok /\ rows[i].seq = i - 1 /\ rows[i].node # None

\* A name in such a record counts the rows with its label before it.
LEMMA RowsArePrefix ==
  ASSUME NEW rows, Confirming(rows), NEW known, NEW cursor \in Nat, NEW opened, Counts(known, cursor, opened),
         \A i \in DOMAIN rows : Name(rows[i]) \in known
  PROVE  Prefix(rows)
<1> DEFINE n == Len(rows)
<1>1. n \in Nat /\ DOMAIN rows = 1..n
  BY LenProperties DEF Confirming
<1>2. \A i \in 1..n : /\ rows[i].kind = "agent" /\ rows[i].ok /\ rows[i].seq = i - 1 /\ rows[i].node # None
                      /\ Name(rows[i]) \in known
                      /\ Name(rows[i]).seq = i - 1 /\ Name(rows[i]).node = rows[i].node /\ Name(rows[i]).key = rows[i].key
  BY <1>1 DEF Confirming, Name
<1> HIDE DEF n
<1>3. ASSUME NEW i \in 1..n
      PROVE  rows[i].key[2] \in Labels /\ rows[i].node = <<rows[i].key[2], Labelled(rows, i - 1, rows[i].key[2])>>
  <2> DEFINE k == Name(rows[i])
             label == rows[i].key[2]
             S == WithLabel(rows, i - 1, label)
             T == Of(Below(known, i - 1), label)
             f == [j \in S |-> Name(rows[j])]
  <2>1. k \in known /\ k.seq = i - 1 /\ k.node = rows[i].node /\ k.key = rows[i].key /\ k.node # None
    BY <1>2
  <2>2. i - 1 \in Nat /\ \A j \in S : j \in 1..n /\ j <= i - 1 /\ rows[j].key[2] = label
    BY <1>1 DEF WithLabel
  <2>3. Whole(known, i - 1)
    <3> SUFFICES ASSUME NEW p \in 0..(i - 1 - 1) PROVE \E x \in known : x.seq = p
      BY DEF Whole
    <3>1. p + 1 \in 1..n /\ p + 1 - 1 = p
      BY <1>1
    <3> QED
      BY <1>2, <3>1
  <2> HIDE DEF k, label
  <2>4. /\ k.key[2] = None => k.node = None
        /\ k.key[2] # None => k.node \in Labels \X Nat /\ k.node[1] = k.key[2]
        /\ Whole(known, k.seq) /\ k.node # None => k.node[2] = Cardinality(Of(Below(known, k.seq), k.key[2]))
    BY <2>1 DEF Counts
  <2>5. label = k.key[2]
    BY <2>1 DEF label
  <2>6. label \in Labels /\ k.node = <<label, Cardinality(T)>>
    BY <2>1, <2>3, <2>4, <2>5
  <2>7. Cardinality(T) = Cardinality(S)
    <3>1. \A x \in T : x \in known /\ x.seq < i - 1 /\ x.key[2] = label
      BY DEF Of, Below
    <3>2. \A x \in known : x.seq < i - 1 /\ x.key[2] = label => x \in T
      BY DEF Of, Below
    <3>3. f \in [S -> T]
      <4> SUFFICES ASSUME NEW j \in S PROVE Name(rows[j]) \in T
        OBVIOUS
      <4>1. j \in 1..n /\ j <= i - 1 /\ rows[j].key[2] = label
        BY <2>2
      <4>2. Name(rows[j]) \in known /\ Name(rows[j]).seq < i - 1 /\ Name(rows[j]).key[2] = label
        BY <1>2, <4>1
      <4> QED
        BY <3>2, <4>2
    <3>4. \A j, l \in S : f[j] = f[l] => j = l
      <4> SUFFICES ASSUME NEW j \in S, NEW l \in S, Name(rows[j]) = Name(rows[l]) PROVE j = l
        OBVIOUS
      <4>1. j \in 1..n /\ l \in 1..n
        BY <2>2
      <4>2. j - 1 = l - 1
        BY <1>2, <4>1
      <4> QED
        BY <4>1, <4>2
    <3>5. \A x \in T : \E j \in S : f[j] = x
      <4> SUFFICES ASSUME NEW x \in T PROVE \E j \in S : Name(rows[j]) = x
        OBVIOUS
      <4>1. x \in known /\ x.seq < i - 1 /\ x.key[2] = label /\ x.seq \in 0..(cursor - 1)
        BY <3>1 DEF Counts
      <4>2. PICK j \in 1..n : j = x.seq + 1 /\ j <= i - 1
        BY <1>1, <2>2, <4>1
      <4>3. Name(rows[j]) \in known /\ Name(rows[j]).seq = x.seq
        BY <1>2, <4>1, <4>2
      <4>4. Name(rows[j]) = x
        BY <4>1, <4>3 DEF Counts
      <4>5. j \in S
        <5>1. rows[j].key[2] = label /\ j \in 1..(i - 1)
          BY <1>2, <2>2, <4>1, <4>2, <4>4
        <5> QED
          BY <5>1 DEF WithLabel
      <4> QED
        BY <4>4, <4>5
    <3>6. IsFiniteSet(S)
      BY <2>2, LabelledFinite
    <3> HIDE DEF S, T, f
    <3>7. f \in Bijection(S, T)
      BY <3>3, <3>4, <3>5 DEF Bijection, Injection, Surjection, IsInjective
    <3> QED
      BY <3>6, <3>7, FS_Bijection DEF ExistsBijection
  <2> QED
    BY <2>1, <2>6, <2>7 DEF Labelled, label
<1> QED
  BY <1>1, <1>2, <1>3 DEF Prefix, Confirming, n

LEMMA OrdinalsBelow ==
  ASSUME NEW n \in Nat PROVE IsFiniteSet(0..(n - 1)) /\ Cardinality(0..(n - 1)) = n
BY FS_Interval

\* As many starts as rows: what was started is what has a row.
LEMMA StartsHaveRows ==
  ASSUME NEW rows, Confirming(rows), NEW known, NEW cursor \in Nat, NEW opened, Counts(known, cursor, opened),
         \A i \in DOMAIN rows : Name(rows[i]) \in known,
         NEW lines \in Seq(JournalLines), StartsKnown(lines, known), AnswersStarted(lines, rows),
         Cardinality({i \in DOMAIN lines : lines[i].kind = "start"}) = Len(rows)
  PROVE  StartsConfirmed(lines, rows)
<1> DEFINE n == Len(rows)
           starts == {i \in DOMAIN lines : lines[i].kind = "start"}
           told == {lines[i].logical : i \in starts}
<1>1. n \in Nat /\ DOMAIN rows = 1..n
  BY LenProperties DEF Confirming
<1>2. \A i \in 1..n : /\ rows[i].kind = "agent" /\ rows[i].ok /\ rows[i].seq = i - 1 /\ Name(rows[i]) \in known
                      /\ Name(rows[i]).seq = i - 1 /\ Name(rows[i]).node = rows[i].node
  BY <1>1 DEF Confirming, Name
<1>3. IsFiniteSet(starts)
  <2>1. starts \subseteq 1..Len(lines) /\ Len(lines) \in Nat
    BY LenProperties
  <2>2. IsFiniteSet(1..Len(lines))
    BY <2>1, FS_Interval
  <2> QED
    BY <2>1, <2>2, FS_Subset
<1>4. Cardinality(starts) = n
  OBVIOUS
<1>5. 0..(n - 1) \subseteq told
  <2> SUFFICES ASSUME NEW o \in 0..(n - 1) PROVE o \in told
    OBVIOUS
  <2>1. o + 1 \in 1..n /\ o + 1 - 1 = o
    BY <1>1
  <2>2. o + 1 \in Rows(rows, "agent") /\ rows[o + 1].ok /\ rows[o + 1].seq = o
    BY <1>1, <1>2, <2>1 DEF Rows
  <2>3. Started(lines, o)
    BY <2>2 DEF AnswersStarted
  <2> QED
    BY <2>3 DEF Started
<1>6. told = 0..(n - 1)
  <2> DEFINE g == [i \in starts |-> lines[i].logical]
  <2> HIDE DEF starts
  <2>1. g \in Surjection(starts, told)
    BY DEF Surjection
  <2> HIDE DEF g, told
  <2>2. IsFiniteSet(told) /\ Cardinality(told) <= Cardinality(starts)
    BY <1>3, <2>1, FS_Surjection
  <2>3. IsFiniteSet(0..(n - 1)) /\ Cardinality(0..(n - 1)) = n
    BY <1>1, OrdinalsBelow
  <2>4. Cardinality(told) \in Nat /\ n <= Cardinality(told)
    BY <1>1, <1>5, <2>2, <2>3, FS_Subset, FS_CardinalityType
  <2>5. Cardinality(told) = Cardinality(0..(n - 1))
    BY <1>1, <1>4, <2>2, <2>3, <2>4
  <2> QED
    BY <1>5, <2>2, <2>5, FS_Subset
<1> HIDE DEF n
<1>7. ASSUME NEW i \in DOMAIN lines, lines[i].kind = "start" PROVE \E j \in DOMAIN rows : lines[i].node = rows[j].node
  <2>1. lines[i].logical \in 0..(n - 1)
    BY <1>6, <1>7
  <2>2. PICK k \in known : k.seq = lines[i].logical /\ k.node = lines[i].node
    BY <1>7 DEF StartsKnown
  <2>3. PICK j \in 1..n : j = lines[i].logical + 1
    BY <1>1, <2>1
  <2>4. Name(rows[j]) \in known /\ Name(rows[j]).seq = k.seq /\ Name(rows[j]).node = rows[j].node
    BY <1>1, <1>2, <2>1, <2>2, <2>3
  <2>5. Name(rows[j]) = k
    BY <2>4 DEF Counts
  <2> QED
    BY <1>1, <2>2, <2>4, <2>5
<1> QED
  BY <1>7 DEF StartsConfirmed

\* A run that recovers begins in front of its prefix.
LEMMA PrefixBegins ==
  ASSUME NEW source, Prefix(source), source # None, NEW options, options.source = source, options.retry = None,
         NEW opened, opened = [l \in Labels |-> 0]
  PROVE  PrefixStands(NewController(options), opened)
<1> DEFINE c == NewController(options)
<1>1. /\ c.options = options /\ c.readCursor = 0 /\ c.diverged = FALSE /\ c.admissions = {}
      /\ c.verdicts = <<>>
  BY DEF NewController
<1> HIDE DEF c
<1>2. DOMAIN c.verdicts = {}
  BY <1>1
<1>3. Len(source) # 0 /\ c.options.source = source /\ ~Typed(c) /\ Enabled(c)
  BY <1>1 DEF Prefix, Typed, Enabled
<1>4. \A label : Labelled(source, 0, label) = 0
  BY LabelledFinite
<1>5. \A label \in Labels : /\ c.readCursor <= Len(source) => opened[label] = Labelled(source, c.readCursor, label)
                            /\ c.readCursor >= Len(source) => opened[label] >= Labelled(source, Len(source), label)
  <2>1. Len(source) \in Int /\ Len(source) >= 0
    OBVIOUS
  <2> QED
    BY <1>1, <1>3, <1>4, <2>1
<1>6. PrefixStands(c, opened)
  BY <1>1, <1>2, <1>3, <1>5 DEF PrefixStands
<1> QED
  BY <1>6 DEF c

\* What may be recovered is a prefix, and confirms all it started.
LEMMA RecoverablePrefix ==
  ASSUME ResumeInv, ChainInv, WrittenInv, Recoverable
  PROVE  Prefix(record) /\ StartsConfirmed(journal, record) /\ record # None
<1> DEFINE starts == {i \in DOMAIN journal : journal[i].kind = "start"}
<1>1. /\ record \in Seq(RecordRows) /\ journal \in Seq(JournalLines) /\ replayer.readCursor \in Nat
      /\ Torn(journal, doing, calls) \/ AnswersStarted(journal, record)
  BY DEF ChainInv, ChainTypes, WrittenInv, ResumeInv, Prefixed
<1> PICK known : /\ Known(replayer, record) \subseteq known /\ StartsKnown(journal, known)
                 /\ Counts(known, replayer.readCursor, occurrences)
  BY DEF WrittenInv
<1>2. starts = Lines({"start"})
  BY DEF Lines
<1>3. Len(record) = Cardinality(starts) /\ starts # {}
  BY <1>2 DEF Recoverable, ConfirmedRows
<1>4. IsFiniteSet(starts)
  <2>1. starts \subseteq 1..Len(journal) /\ Len(journal) \in Nat
    BY <1>1, LenProperties
  <2>2. IsFiniteSet(1..Len(journal))
    BY <2>1, FS_Interval
  <2> QED
    BY <2>1, <2>2, FS_Subset
<1>5. Len(record) # 0
  BY <1>3, <1>4, FS_EmptySet
<1>6. Confirming(record)
  BY <1>1, <1>5 DEF Confirming, Recoverable, ConfirmedRows
<1>7. \A i \in DOMAIN record : Name(record[i]) \in known
  <2>1. DOMAIN record = Rows(record, "agent")
    BY <1>6 DEF Confirming, Rows
  <2> HIDE DEF Name
  <2>2. \A i \in DOMAIN record : Name(record[i]) \in Known(replayer, record)
    BY <2>1, KnownOf DEF Names
  <2> QED
    BY <2>2
<1>8. Cardinality({i \in DOMAIN journal : journal[i].kind = "start"}) = Len(record)
  BY <1>3
<1>9. AnswersStarted(journal, record)
  <2> SUFFICES ASSUME Torn(journal, doing, calls) PROVE FALSE
    BY <1>1
  <2>1. PICK x : Has(journal, "end", x) /\ ~Has(journal, "start", x)
    BY DEF Torn, Orphan
  <2>2. PICK j \in Lines({"end"}) : journal[j].call = x
    BY <2>1 DEF Has, Lines
  <2>3. PICK i \in Lines({"start"}) : Confirms(i, j)
    BY DEF Recoverable
  <2>4. journal[i].call = x
    BY <2>2, <2>3 DEF Confirms
  <2> QED
    BY <2>1, <2>4 DEF Has, Lines
<1>10. Prefix(record)
  BY <1>1, <1>6, <1>7, RowsArePrefix
<1>11. StartsConfirmed(journal, record)
  BY <1>1, <1>6, <1>7, <1>8, <1>9, StartsHaveRows
<1> QED
  BY <1>1, <1>10, <1>11, NothingAssumption

LEMMA ResumePrefix == ASSUME ResumeInv, ChainInv, WrittenInv, NEW s \in Scripts, Resume(s) PROVE PrefixInv'
<1>1. PICK options : /\ Begin(s, options)
                     /\ options.prefix => /\ phase = "crashed" /\ Recoverable
                                          /\ options.source = record /\ options.retry = None
  <2>1. CASE \E changed \in BOOLEAN :
           Begin(s, Options(None, changed, FALSE, None)) \/ Begin(s, Options(record, changed, FALSE, None))
    BY <2>1 DEF Options
  <2>2. CASE \E retry : Begin(s, Options(record, FALSE, FALSE, retry))
    BY <2>2 DEF Options
  <2>3. CASE phase = "crashed" /\ Recoverable /\ Begin(s, Options(record, FALSE, TRUE, None))
    BY <2>3 DEF Options
  <2> QED
    BY <2>1, <2>2, <2>3 DEF Resume
<1>2. /\ replayer' = NewController(options) /\ occurrences' = [l \in Labels |-> 0] /\ ok' = FALSE
      /\ phase = "crashed" => past' = journal
  BY <1>1 DEF Begin, Resume
<1>3. replayer'.options = options
  BY <1>2 DEF NewController
<1> SUFFICES ASSUME options.prefix
             PROVE  PrefixStands(replayer', occurrences') /\ StartsConfirmed(past', options.source)
  BY <1>2, <1>3 DEF PrefixInv
<1>4. Prefix(record) /\ StartsConfirmed(journal, record) /\ record # None
  BY <1>1, RecoverablePrefix
<1>5. PrefixStands(replayer', occurrences')
  BY <1>1, <1>2, <1>4, PrefixBegins
<1> QED
  BY <1>1, <1>2, <1>4, <1>5

LEMMA PrefixStarts == Init => PrefixInv
<1> SUFFICES ASSUME Init PROVE PrefixInv
  OBVIOUS
<1>1. replayer.options.prefix = FALSE
  BY DEF Init, NewController, Options
<1> QED
  BY <1>1 DEF PrefixInv

LEMMA PrefixInvariant ==
  ASSUME \A s \in Scripts : s.losses <= 1
  PROVE  Spec => [](ResumeInv /\ ChainInv /\ WrittenInv /\ PrefixInv)
<1>1. Init => WrittenInv /\ PrefixInv
  BY WrittenStarts, PrefixStarts
<1>2. ResumeInv /\ ChainInv /\ WrittenInv /\ PrefixInv /\ [Next]_vars => WrittenInv' /\ PrefixInv'
  <2> SUFFICES ASSUME ResumeInv, ChainInv, WrittenInv, PrefixInv, [Next]_vars PROVE WrittenInv' /\ PrefixInv'
    OBVIOUS
  <2>1. ASSUME NEW b \in Branches, Admit(b) \/ Revalidate(b) \/ Start(b) \/ Finish(b) \/ Settle(b) \/ ReadClock(b)
        PROVE  WrittenInv' /\ PrefixInv'
    BY <2>1, AdmitWrites, RevalidateWrites, StartWrites, FinishWrites, SettleWrites, ReadClockWrites,
       AdmitPrefix, BranchPrefix
  <2>2. CASE StopRun \/ EndRun \/ Crash \/ UNCHANGED vars
    BY <2>2, RunWrites, RunPrefix
  <2>3. ASSUME NEW s \in Scripts, Resume(s) PROVE WrittenInv' /\ PrefixInv'
    BY <2>3, ResumeWrites, ResumePrefix
  <2> QED
    BY <2>1, <2>2, <2>3 DEF Next
<1> QED
  BY <1>1, <1>2, ChainInvariant, PTL DEF Spec

\* An interrupted recovery gives no call that the run before it started another
\* child, and one that succeeds was served its whole record, as long as at most one
\* write fails: with that and a typed resume, what was confirmed stands
\* (readInterruptedWorkflowResumeBinding, createWorkflowReplayController).
THEOREM RecoveryLosesNothing ==
  ASSUME \A s \in Scripts : s.losses <= 1
  PROVE  Spec => []ConfirmedWorkStands
<1>1. ASSUME ResumeInv, ChainInv, PrefixInv, replayer.options.prefix PROVE ConfirmedWorkStands
  <2> DEFINE source == replayer.options.source
             n == Len(source)
  <2>1. /\ PrefixStands(replayer, occurrences) /\ StartsConfirmed(past, source) /\ (ok => replayer.replayed >= n)
        /\ Counted(replayer) /\ Prefixed(replayer) /\ Linked
    BY <1>1 DEF PrefixInv, ChainInv, ResumeInv
  <2>2. Prefix(source) /\ IsRecord(source) /\ \A p \in DOMAIN replayer.verdicts : replayer.verdicts[p] = "replayed" => p <= n
    BY <2>1 DEF PrefixStands, Prefixed
  <2>3. /\ n \in Nat \ {0} /\ DOMAIN source = 1..n /\ Rows(source, "agent") = 1..n
        /\ \A i \in 1..n : source[i].ok /\ source[i].seq = i - 1
    BY <2>2, PrefixExtent DEF Prefix
  <2>4. ASSUME NEW b \in Branches, doing[b] # None, doing[b].stage \in {"queued", "running"},
               Confirmed(doing[b].receipt)
        PROVE  FALSE
    <3> DEFINE r == doing[b].receipt
    <3>1. r \in replayer.admissions /\ Childless(doing[b])
      BY <2>1, <2>4 DEF Linked
    <3>2. ~r.replayed
      BY <2>4, <3>1 DEF Childless
    <3>3. PICK i \in DOMAIN past : past[i].kind = "start" /\ past[i].node = r.node
      BY <1>1, <2>4 DEF Confirmed
    <3>4. PICK j \in 1..n : r.node = source[j].node
      BY <2>1, <2>3, <3>3 DEF StartsConfirmed
    <3> DEFINE label == source[j].key[2]
               number(m) == Labelled(source, m, label)
    <3>5. r.node = <<label, number(j - 1)>> /\ label \in Labels
      BY <2>2, <2>3, <3>4 DEF Prefix
    <3>6. number(j - 1 + 1) = number(j - 1) + 1
      <4>1. source[j - 1 + 1].key[2] = label /\ j - 1 \in Nat
        OBVIOUS
      <4> HIDE DEF label
      <4> QED
        BY <4>1, LabelledNext
    <3>7. number(j) <= number(n) /\ number(j - 1) \in Nat /\ number(j) \in Nat /\ number(n) \in Nat
      BY <2>3, LabelledMonotone, LabelledFinite
    <3>8. number(j) = number(j - 1) + 1
      BY <3>6
    <3>9. r.node # None /\ r.node[1] = label /\ r.node[2] = number(j - 1)
      <4>1. r.node \in Labels \X Nat
        BY <3>5, <3>7
      <4> QED
        BY <3>5, <4>1, NothingAssumption
    <3> HIDE DEF r, label
    <3>10. r.node[2] >= Labelled(source, n, r.node[1])
      BY <2>1, <3>1, <3>2, <3>9 DEF PrefixStands, r
    <3> QED
      BY <3>7, <3>8, <3>9, <3>10
  <2>5. ASSUME ok, NEW i \in 1..n PROVE replayer.verdicts[i] = "replayed"
    <3> DEFINE got == Got(replayer, {"replayed"})
    <3>1. got \subseteq 1..n /\ \A p \in got : replayer.verdicts[p] = "replayed"
      <4>1. DOMAIN replayer.verdicts = 1..Len(replayer.verdicts) /\ Len(replayer.verdicts) \in Nat
        BY <2>1, LenProperties DEF Prefixed
      <4> QED
        BY <2>2, <2>3, <4>1 DEF Got
    <3>2. Cardinality(got) >= n
      BY <2>1, <2>5 DEF Counted
    <3> HIDE DEF got, n
    <3>3. IsFiniteSet(1..n) /\ Cardinality(1..n) = n
      BY <2>3, FS_Interval
    <3>4. IsFiniteSet(got) /\ Cardinality(got) <= n /\ (n = Cardinality(got) => 1..n = got)
      BY <3>1, <3>3, FS_Subset
    <3>5. n = Cardinality(got)
      BY <2>3, <3>2, <3>4, FS_CardinalityType
    <3> QED
      BY <3>1, <3>4, <3>5, <2>5
  <2>6. ok => \A row \in AgentRows(source) : replayer.verdicts[row.seq + 1] = (IF row.ok THEN "replayed" ELSE "retried")
    <3>0. \A row \in AgentRows(source) : \E i \in 1..n : row = source[i]
      BY <2>3 DEF AgentRows
    <3> SUFFICES ASSUME ok, NEW i \in 1..n
                 PROVE  replayer.verdicts[source[i].seq + 1] = (IF source[i].ok THEN "replayed" ELSE "retried")
      <4> HIDE DEF n, source
      <4> QED
        BY <3>0
    <3>1. source[i].ok /\ source[i].seq + 1 = i
      BY <2>3
    <3> QED
      BY <2>5, <3>1
  <2> QED
    BY <2>4, <2>6 DEF ConfirmedWorkStands
<1>2. ~replayer.options.prefix /\ ~Typed(replayer) => ConfirmedWorkStands
  BY DEF ConfirmedWorkStands
<1>3. ResumeInv /\ ChainInv /\ PrefixInv /\ (Typed(replayer) => ConfirmedWorkStands) => ConfirmedWorkStands
  BY <1>1, <1>2
<1>4. Spec => [](ResumeInv /\ ChainInv /\ WrittenInv /\ PrefixInv)
  BY PrefixInvariant
<1> QED
  BY <1>3, <1>4, TypedResumeLosesNothing, PTL
=============================================================================
