----------------------- MODULE WorkflowSavedChild_proofs -----------------------
(***************************************************************************)
(* Proofs about saved children, for every number of roots, units, scripts   *)
(* and sources.                                                            *)
(*                                                                         *)
(* A completion that was recorded is never taken back, and neither is what  *)
(* the child says of itself; the lineage of a run is settled at its launch. *)
(* So what a checkpoint rested on when it was written it rests on for ever. *)
(***************************************************************************)
EXTENDS WorkflowSavedChild, TLAPS

Steps == {"idle", "admission", "launching", "running", "returned", "commit", "rename", "done"}
RootRecords == [phase : {"new", "running", "ended", "crashed"}, script : Scripts \cup {None}, ancestors : SUBSET Roots]
CallRecords == [at : Steps, source : Sources \cup {None}, status : {"none", "running", "completed", "skipped"},
                of : Roots \cup {None}]
ChildRecords == [source : Sources \cup {None}, verdict : {"none", "completed", "failed"}]
Identities == [typed : BOOLEAN, unit : Units, lineage : Roots, script : Scripts \cup {None}, source : Sources \cup {None}]
Files == [id : Identities, of : Roots, whole : BOOLEAN]

SavedTypeOK ==
    /\ source \in Sources /\ owner \in Roots \cup {None}
    /\ root \in [Roots -> RootRecords]
    /\ call \in [Roots -> [Units -> CallRecords]]
    /\ child \in [Roots -> [Units -> ChildRecords]]
    /\ saved \subseteq Files
    /\ held \subseteq Roots

\* A run resumes runs that were launched before, down to one that resumes none.
Rooted ==
    \A r \in Roots :
       /\ \A a \in root[r].ancestors : Phase(a) # "new"
       /\ root[r].ancestors = {} \/ \E a \in root[r].ancestors : root[a].ancestors = {}
       /\ Phase(r) = "new" => root[r].ancestors = {}

\* Where an invocation stands tells what its child and its record say.
CallStands(r, u) ==
    /\ call[r][u].at \notin {"idle", "done"} => Alive(r)
    /\ call[r][u].status # "none" => Phase(r) # "new"
    /\ call[r][u].at \in {"launching", "running", "returned", "commit", "rename"} => child[r][u].source = call[r][u].source
    /\ call[r][u].at \in {"commit", "rename"} => call[r][u].status = "completed"
    /\ call[r][u].status = "completed" =>
          /\ call[r][u].at \in {"commit", "rename", "done"} /\ call[r][u].of = r
          /\ child[r][u] = [source |-> call[r][u].source, verdict |-> "completed"]
    /\ call[r][u].status = "skipped" => call[r][u].at = "done" /\ call[r][u].of \in Roots

\* Who is about to rename holds the lease, or could not release it.
Fenced ==
    \A r \in Roots :
       /\ (\E u \in Units : call[r][u].at = "rename") => owner = r \/ r \in held
       /\ owner = r /\ Phase(r) = "ended" => r \in held

SavedInv ==
    SavedTypeOK /\ Rooted /\ (\A r \in Roots, u \in Units : CallStands(r, u)) /\ Fenced /\ ChildrenEarned

-----------------------------------------------------------------------------
LEMMA SavedStarts == Init => SavedInv
<1> SUFFICES ASSUME Init PROVE SavedInv
  OBVIOUS
<1>1. /\ \A r \in Roots : root[r] = [phase |-> "new", script |-> None, ancestors |-> {}]
      /\ \A r \in Roots, u \in Units : call[r][u] = [at |-> "idle", source |-> None, status |-> "none", of |-> None]
  BY DEF Init, Unsettled
<1>2. SavedTypeOK
  <2>1. root \in [Roots -> RootRecords]
    BY DEF Init, RootRecords
  <2>2. call \in [Roots -> [Units -> CallRecords]]
    BY DEF Init, Unsettled, CallRecords, Steps
  <2>3. child \in [Roots -> [Units -> ChildRecords]]
    BY DEF Init, ChildRecords
  <2> QED
    BY <2>1, <2>2, <2>3 DEF Init, SavedTypeOK
<1>3. Rooted /\ \A r \in Roots, u \in Units : CallStands(r, u)
  BY <1>1 DEF Rooted, CallStands, Phase
<1>4. Fenced /\ ChildrenEarned
  BY <1>1, SavedChildAssumption DEF Init, Fenced, ChildrenEarned
<1> QED
  BY <1>2, <1>3, <1>4 DEF SavedInv

-----------------------------------------------------------------------------
OtherCalls(r, u) == \A q \in Roots, v \in Units : q # r \/ v # u => call'[q][v] = call[q][v]
OtherChildren(r, u) == \A q \in Roots, v \in Units : q # r \/ v # u => child'[q][v] = child[q][v]

LEMMA PutCall ==
  ASSUME SavedTypeOK, NEW r \in Roots, NEW u \in Units, NEW c \in CallRecords, call' = [call EXCEPT ![r][u] = c]
  PROVE  call' \in [Roots -> [Units -> CallRecords]] /\ call'[r][u] = c /\ OtherCalls(r, u)
BY DEF SavedTypeOK, OtherCalls

LEMMA GotoMoves ==
  ASSUME SavedTypeOK, NEW r \in Roots, NEW u \in Units, NEW step \in Steps, Goto(r, u, step)
  PROVE  /\ call' \in [Roots -> [Units -> CallRecords]] /\ OtherCalls(r, u)
         /\ call'[r][u].at = step /\ call'[r][u].source = call[r][u].source
         /\ call'[r][u].status = call[r][u].status /\ call'[r][u].of = call[r][u].of
<1> DEFINE c == [call[r][u] EXCEPT !.at = step]
<1>1. call[r][u] \in CallRecords
  BY DEF SavedTypeOK
<1>2. c \in CallRecords /\ c.at = step /\ c.source = call[r][u].source /\ c.status = call[r][u].status /\ c.of = call[r][u].of
  BY <1>1 DEF CallRecords
<1>3. call' = [call EXCEPT ![r][u] = c]
  BY DEF Goto, SavedTypeOK
<1> QED
  BY <1>2, <1>3, PutCall

LEMMA RecordsMoves ==
  ASSUME SavedTypeOK, NEW r \in Roots, NEW u \in Units, NEW step \in Steps,
         NEW status \in {"running", "completed", "skipped"}, NEW of \in Roots, Records(r, u, step, status, of)
  PROVE  /\ call' \in [Roots -> [Units -> CallRecords]] /\ OtherCalls(r, u)
         /\ call'[r][u].at = step /\ call'[r][u].source = call[r][u].source
         /\ call'[r][u].status = status /\ call'[r][u].of = of
<1> DEFINE c == [call[r][u] EXCEPT !.at = step, !.status = status, !.of = of]
<1>1. call[r][u] \in CallRecords
  BY DEF SavedTypeOK
<1>2. c \in CallRecords /\ c.at = step /\ c.source = call[r][u].source /\ c.status = status /\ c.of = of
  BY <1>1 DEF CallRecords
<1>3. call' = [call EXCEPT ![r][u] = c]
  BY DEF Records, SavedTypeOK
<1> QED
  BY <1>2, <1>3, PutCall

LEMMA ThrowsMoves ==
  ASSUME SavedTypeOK, NEW r \in Roots, NEW u \in Units, Throws(r, u)
  PROVE  /\ call' \in [Roots -> [Units -> CallRecords]] /\ OtherCalls(r, u)
         /\ call'[r][u].at = "done" /\ call'[r][u].status = "none"
<1>1. Unsettled \in CallRecords /\ Unsettled.at = "done" /\ Unsettled.status = "none"
  BY DEF Unsettled, CallRecords, Steps
<1> QED
  BY <1>1, PutCall DEF Throws

\* What was earned stays earned.
LEMMA EarnedStays ==
  ASSUME NEW id, NEW of \in Roots, NEW u \in Units, Earned(id, of, u),
         child'[of][u] = child[of][u], call'[of][u].status = "completed",
         root'[of].script = root[of].script, Lineage(of)' = Lineage(of)
  PROVE  Earned(id, of, u)'
BY DEF Earned

LEMMA LineageInRoots == ASSUME SavedTypeOK, Rooted, NEW r \in Roots PROVE Lineage(r) \in Roots
<1>1. \E a \in root[r].ancestors \cup {r} : root[a].ancestors = {}
  BY DEF Rooted
<1>2. root[r].ancestors \subseteq Roots
  BY DEF SavedTypeOK, RootRecords
<1> QED
  BY <1>1, <1>2 DEF Lineage

\* A step of one invocation.
LEMMA OneInvocation ==
  ASSUME SavedInv, NEW r \in Roots, NEW u \in Units, UNCHANGED <<owner, root, held>>, SavedTypeOK',
         OtherCalls(r, u), OtherChildren(r, u), CallStands(r, u)',
         call[r][u].status = "completed" => call'[r][u].status = "completed" /\ child'[r][u] = child[r][u],
         call[r][u].status = "skipped" => call'[r][u] = call[r][u],
         call'[r][u].status = "skipped" /\ call[r][u].status # "skipped" =>
            call'[r][u].source = call[r][u].source /\ Earned(Identity(r, u), call'[r][u].of, u),
         call'[r][u].at = "rename" => owner = r \/ r \in held,
         \A file \in saved' \ saved : file.whole => Earned(file.id, file.of, file.id.unit)
  PROVE  SavedInv'
<1> USE DEF SavedInv
<1>1. Rooted'
  BY DEF Rooted, Phase
<1>2. ASSUME NEW q \in Roots, NEW v \in Units PROVE CallStands(q, v)'
  <2>1. CASE q = r /\ v = u
    BY <2>1
  <2>2. CASE q # r \/ v # u
    <3>1. CallStands(q, v) /\ call'[q][v] = call[q][v] /\ child'[q][v] = child[q][v]
      BY <2>2 DEF OtherCalls, OtherChildren
    <3> QED
      BY <3>1 DEF CallStands, Alive, Phase
  <2> QED
    BY <2>1, <2>2
<1>3. Fenced'
  BY DEF Fenced, OtherCalls, Phase
<1>4. \A q \in Roots : Lineage(q)' = Lineage(q)
  BY DEF Lineage
<1>5. ASSUME NEW id, NEW of \in Roots, NEW v \in Units, Earned(id, of, v) PROVE Earned(id, of, v)'
  <2>1. call[of][v].status = "completed"
    BY <1>5 DEF Earned
  <2>2. call'[of][v].status = "completed" /\ child'[of][v] = child[of][v]
    BY <2>1 DEF OtherCalls, OtherChildren
  <2> QED
    BY <1>4, <1>5, <2>2, EarnedStays
<1>6. ChildrenEarned'
  <2>1. ASSUME NEW file \in saved', file.whole PROVE Earned(file.id, file.of, file.id.unit)'
    <3>1. file.of \in Roots /\ file.id.unit \in Units
      BY <2>1 DEF SavedTypeOK, Files, Identities
    <3>2. Earned(file.id, file.of, file.id.unit)
      BY <2>1 DEF ChildrenEarned
    <3> QED
      BY <1>5, <3>1, <3>2
  <2>2. ASSUME NEW q \in Roots, NEW v \in Units, call'[q][v].status = "skipped"
        PROVE  Earned(Identity(q, v), call[q][v].of, v)'
    <3>1. PICK id, of : id = Identity(q, v) /\ of = call'[q][v].of
      OBVIOUS
    <3>2. call'[q][v].source = call[q][v].source /\ Earned(id, of, v)
      <4>1. CASE q = r /\ v = u /\ call[r][u].status # "skipped"
        BY <2>2, <3>1, <4>1
      <4>2. CASE ~(q = r /\ v = u /\ call[r][u].status # "skipped")
        <5>1. call'[q][v] = call[q][v]
          BY <4>2 DEF OtherCalls
        <5> QED
          BY <2>2, <3>1, <5>1 DEF ChildrenEarned
      <4> QED
        BY <4>1, <4>2
    <3>3. of \in Roots
      BY <1>2, <2>2, <3>1 DEF CallStands
    <3>4. Identity(q, v)' = id
      BY <1>4, <3>1, <3>2 DEF Identity
    <3>5. Earned(id, of, v)'
      BY <1>5, <3>2, <3>3
    <3> QED
      BY <3>1, <3>4, <3>5 DEF Earned
  <2> QED
    BY <2>1, <2>2 DEF ChildrenEarned
<1> QED
  BY <1>1, <1>2, <1>3, <1>6
-----------------------------------------------------------------------------
(* The steps of an invocation.                                             *)

LEMMA UnsettledYet ==
  ASSUME SavedInv, NEW r \in Roots, NEW u \in Units, call[r][u].at \in {"idle", "admission", "launching", "running", "returned"}
  PROVE  /\ Alive(r) \/ call[r][u].at = "idle"
         /\ call[r][u].status \notin {"completed", "skipped"}
BY DEF SavedInv, CallStands

\* Whoever throws loses nothing that was settled.
LEMMA ThrowsSteps ==
  ASSUME SavedInv, NEW r \in Roots, NEW u \in Units,
         call[r][u].at \in {"idle", "admission", "launching", "running", "returned"},
         Throws(r, u), saved' \subseteq saved, UNCHANGED <<source, owner, root, child, held>>
  PROVE  SavedInv'
<1>1. SavedTypeOK
  BY DEF SavedInv
<1>2. /\ call' \in [Roots -> [Units -> CallRecords]] /\ OtherCalls(r, u)
      /\ call'[r][u].at = "done" /\ call'[r][u].status = "none"
  BY <1>1, ThrowsMoves
<1>3. SavedTypeOK'
  BY <1>1, <1>2 DEF SavedTypeOK
<1>4. CallStands(r, u)'
  BY <1>2 DEF CallStands
<1>5. OtherChildren(r, u)
  BY DEF OtherChildren
<1>6. call[r][u].status \notin {"completed", "skipped"}
  BY UnsettledYet
<1> QED
  BY <1>2, <1>3, <1>4, <1>5, <1>6, OneInvocation

\* An invocation moves on, without a settled record.
LEMMA WorkSteps ==
  ASSUME SavedInv, NEW r \in Roots, NEW u \in Units,
         call[r][u].at \in {"idle", "admission", "launching", "running", "returned"}, Alive(r),
         call' \in [Roots -> [Units -> CallRecords]], OtherCalls(r, u),
         call'[r][u].at \in {"admission", "launching", "running", "returned"},
         call'[r][u].status \in {"none", "running"},
         child' \in [Roots -> [Units -> ChildRecords]], OtherChildren(r, u),
         call'[r][u].at # "admission" => child'[r][u].source = call'[r][u].source,
         saved' \subseteq saved, UNCHANGED <<source, owner, root, held>>
  PROVE  SavedInv'
<1>1. SavedTypeOK'
  BY DEF SavedInv, SavedTypeOK
<1>2. CallStands(r, u)'
  BY DEF CallStands, Alive, Phase
<1>3. call[r][u].status \notin {"completed", "skipped"}
  BY UnsettledYet
<1> QED
  BY <1>1, <1>2, <1>3, OneInvocation

LEMMA InvokeSteps == ASSUME SavedInv, NEW r \in Roots, NEW u \in Units, Invoke(r, u) PROVE SavedInv'
<1>1. /\ SavedTypeOK /\ Alive(r) /\ call[r][u].at = "idle" /\ call[r][u] \in CallRecords
      /\ UNCHANGED <<source, owner, root, child, saved, held>>
  BY DEF SavedInv, SavedTypeOK, Invoke, At, Free
<1>2. CASE Throws(r, u)
  BY <1>1, <1>2, ThrowsSteps
<1>3. CASE call' = [call EXCEPT ![r][u].at = "admission", ![r][u].source = source]
  <2> DEFINE c == [call[r][u] EXCEPT !.at = "admission", !.source = source]
  <2>1. call[r][u].status \in {"none", "running"}
    BY <1>1, UnsettledYet DEF CallRecords
  <2>2. c \in CallRecords /\ c.at = "admission" /\ c.status = call[r][u].status
    BY <1>1 DEF CallRecords, Steps, SavedTypeOK
  <2>3. call' = [call EXCEPT ![r][u] = c]
    BY <1>1, <1>3 DEF SavedTypeOK
  <2> HIDE DEF c
  <2>4. call' \in [Roots -> [Units -> CallRecords]] /\ call'[r][u] = c /\ OtherCalls(r, u)
    BY <1>1, <2>2, <2>3, PutCall
  <2>5. child' \in [Roots -> [Units -> ChildRecords]] /\ OtherChildren(r, u) /\ saved' \subseteq saved
    BY <1>1 DEF SavedTypeOK, OtherChildren
  <2> QED
    BY <1>1, <2>1, <2>2, <2>4, <2>5, WorkSteps
<1> QED
  BY <1>2, <1>3 DEF Invoke

LEMMA SkipSteps ==
  ASSUME SavedInv, NEW r \in Roots, NEW u \in Units, At(r, u, "admission"), Skip(r, u),
         UNCHANGED <<source, owner, root, held>>
  PROVE  SavedInv'
<1>1. PICK file \in Filed(Identity(r, u)) :
        SameIdentity(file, Identity(r, u)) /\ Records(r, u, "done", "skipped", file.of) /\ UNCHANGED <<child, saved>>
  BY DEF Skip
<1>2. SavedTypeOK /\ file \in saved /\ file.whole /\ file.id = Identity(r, u) /\ call[r][u].at = "admission"
  BY <1>1 DEF SavedInv, Filed, SameIdentity, At
<1>3. file.of \in Roots
  BY <1>2 DEF SavedTypeOK, Files
<1>4. /\ call' \in [Roots -> [Units -> CallRecords]] /\ OtherCalls(r, u)
      /\ call'[r][u].at = "done" /\ call'[r][u].source = call[r][u].source
      /\ call'[r][u].status = "skipped" /\ call'[r][u].of = file.of
  <2>1. "done" \in Steps /\ "skipped" \in {"running", "completed", "skipped"}
    BY DEF Steps
  <2> QED
    BY <1>1, <1>2, <1>3, <2>1, RecordsMoves
<1>5. Earned(Identity(r, u), call'[r][u].of, u)
  <2>1. file.id.unit = u
    BY <1>2 DEF Identity
  <2>2. Earned(file.id, file.of, file.id.unit)
    BY <1>2 DEF SavedInv, ChildrenEarned
  <2> QED
    BY <1>2, <1>4, <2>1, <2>2
<1>6. SavedTypeOK' /\ OtherChildren(r, u)
  BY <1>1, <1>2, <1>4 DEF SavedTypeOK, OtherChildren
<1>7. CallStands(r, u)'
  <2>1. Phase(r)' # "new"
    BY DEF At, Free, Alive, Phase
  <2> QED
    BY <1>3, <1>4, <2>1 DEF CallStands
<1>8. call[r][u].status \notin {"completed", "skipped"}
  BY <1>2, UnsettledYet
<1> QED
  BY <1>1, <1>4, <1>5, <1>6, <1>7, <1>8, OneInvocation

LEMMA StartSteps ==
  ASSUME SavedInv, NEW r \in Roots, NEW u \in Units, At(r, u, "admission"), Admitted(r, u), Start(r, u),
         UNCHANGED <<source, owner, root, held>>
  PROVE  SavedInv'
<1>1. /\ SavedTypeOK /\ Alive(r) /\ call[r][u].at = "admission" /\ call[r][u] \in CallRecords
      /\ child[r][u] \in ChildRecords /\ saved' \subseteq saved
  BY DEF SavedInv, SavedTypeOK, At, Free, Start
<1>2. CASE Throws(r, u) /\ UNCHANGED child
  BY <1>1, <1>2, ThrowsSteps
<1>3. CASE Records(r, u, "launching", "running", r) /\ child' = [child EXCEPT ![r][u].source = source]
  <2>1. "launching" \in Steps /\ "running" \in {"running", "completed", "skipped"}
    BY DEF Steps
  <2>2. /\ call' \in [Roots -> [Units -> CallRecords]] /\ OtherCalls(r, u)
        /\ call'[r][u].at = "launching" /\ call'[r][u].source = call[r][u].source /\ call'[r][u].status = "running"
    BY <1>1, <1>3, <2>1, RecordsMoves
  <2>3. /\ child' \in [Roots -> [Units -> ChildRecords]] /\ OtherChildren(r, u)
        /\ child'[r][u].source = call[r][u].source
    BY <1>1, <1>3 DEF SavedTypeOK, ChildRecords, OtherChildren, Admitted
  <2> QED
    BY <1>1, <2>2, <2>3, WorkSteps
<1> QED
  BY <1>2, <1>3 DEF Start

LEMMA ReadSteps == ASSUME SavedInv, NEW r \in Roots, NEW u \in Units, Read(r, u) PROVE SavedInv'
<1>1. /\ At(r, u, "admission") /\ call[r][u].at = "admission" /\ UNCHANGED <<source, owner, root, held>>
      /\ \/ Throws(r, u) /\ UNCHANGED <<child, saved>>
         \/ Skip(r, u)
         \/ Admitted(r, u) /\ Start(r, u)
  BY DEF Read, At
<1>2. CASE Throws(r, u) /\ UNCHANGED <<child, saved>>
  BY <1>1, <1>2, ThrowsSteps
<1> QED
  BY <1>1, <1>2, SkipSteps, StartSteps
LEMMA ChildMoves ==
  ASSUME SavedTypeOK, NEW r \in Roots, NEW u \in Units, NEW verdict \in {"completed", "failed"},
         child' = [child EXCEPT ![r][u].verdict = verdict]
  PROVE  /\ child' \in [Roots -> [Units -> ChildRecords]] /\ OtherChildren(r, u)
         /\ child'[r][u].source = child[r][u].source
<1>1. child[r][u] \in ChildRecords
  BY DEF SavedTypeOK
<1> QED
  BY <1>1 DEF SavedTypeOK, ChildRecords, OtherChildren

LEMMA ChildStartsSteps == ASSUME SavedInv, NEW r \in Roots, NEW u \in Units, ChildStarts(r, u) PROVE SavedInv'
<1>1. /\ SavedTypeOK /\ Alive(r) /\ call[r][u].at = "launching" /\ call[r][u] \in CallRecords
      /\ UNCHANGED <<source, owner, root, saved, held>> /\ child[r][u].source = call[r][u].source
  <2>1. SavedTypeOK /\ CallStands(r, u)
    BY DEF SavedInv
  <2>2. Alive(r) /\ call[r][u].at = "launching"
    BY DEF ChildStarts, At, Free
  <2>3. child[r][u].source = call[r][u].source
    BY <2>1, <2>2 DEF CallStands
  <2> QED
    BY <2>1, <2>2, <2>3 DEF SavedTypeOK, ChildStarts
<1>2. call[r][u].status \in {"none", "running"} /\ {"running", "returned"} \subseteq Steps
  BY <1>1, UnsettledYet DEF CallRecords, Steps
<1>3. PICK step \in {"running", "returned"} :
        /\ Goto(r, u, step)
        /\ \/ UNCHANGED child
           \/ child' = [child EXCEPT ![r][u].verdict = "failed"]
  BY DEF ChildStarts
<1>4. /\ call' \in [Roots -> [Units -> CallRecords]] /\ OtherCalls(r, u) /\ call'[r][u].at = step
      /\ call'[r][u].source = call[r][u].source /\ call'[r][u].status = call[r][u].status
  BY <1>1, <1>2, <1>3, GotoMoves
<1>5. /\ child' \in [Roots -> [Units -> ChildRecords]] /\ OtherChildren(r, u)
      /\ child'[r][u].source = child[r][u].source
  <2>1. CASE UNCHANGED child
    BY <1>1, <2>1 DEF SavedTypeOK, OtherChildren
  <2>2. CASE child' = [child EXCEPT ![r][u].verdict = "failed"]
    BY <1>1, <2>2, ChildMoves
  <2> QED
    BY <1>3, <2>1, <2>2
<1> QED
  BY <1>1, <1>2, <1>4, <1>5, WorkSteps

LEMMA ChildEndsSteps == ASSUME SavedInv, NEW r \in Roots, NEW u \in Units, ChildEnds(r, u) PROVE SavedInv'
<1>1. /\ SavedTypeOK /\ Alive(r) /\ call[r][u].at = "running" /\ call[r][u] \in CallRecords
      /\ UNCHANGED <<source, owner, root, saved, held>> /\ child[r][u].source = call[r][u].source
      /\ Goto(r, u, "returned")
  <2>1. SavedTypeOK /\ CallStands(r, u)
    BY DEF SavedInv
  <2>2. Alive(r) /\ call[r][u].at = "running"
    BY DEF ChildEnds, At, Free
  <2>3. child[r][u].source = call[r][u].source
    BY <2>1, <2>2 DEF CallStands
  <2> QED
    BY <2>1, <2>2, <2>3 DEF SavedTypeOK, ChildEnds
<1>2. call[r][u].status \in {"none", "running"} /\ "returned" \in Steps
  BY <1>1, UnsettledYet DEF CallRecords, Steps
<1>3. /\ call' \in [Roots -> [Units -> CallRecords]] /\ OtherCalls(r, u) /\ call'[r][u].at = "returned"
      /\ call'[r][u].source = call[r][u].source /\ call'[r][u].status = call[r][u].status
  BY <1>1, <1>2, GotoMoves
<1>4. /\ child' \in [Roots -> [Units -> ChildRecords]] /\ OtherChildren(r, u)
      /\ child'[r][u].source = child[r][u].source
  BY <1>1, ChildMoves DEF ChildEnds
<1> QED
  BY <1>1, <1>2, <1>3, <1>4, WorkSteps

LEMMA ReturnSteps == ASSUME SavedInv, NEW r \in Roots, NEW u \in Units, Return(r, u) PROVE SavedInv'
<1>1. /\ SavedTypeOK /\ Alive(r) /\ call[r][u].at = "returned" /\ child[r][u] \in ChildRecords
      /\ UNCHANGED <<source, owner, root, child, saved, held>> /\ child[r][u].source = call[r][u].source
  <2>1. SavedTypeOK /\ CallStands(r, u)
    BY DEF SavedInv
  <2>2. Alive(r) /\ call[r][u].at = "returned"
    BY DEF Return, At, Free
  <2>3. child[r][u].source = call[r][u].source
    BY <2>1, <2>2 DEF CallStands
  <2> QED
    BY <2>1, <2>2, <2>3 DEF SavedTypeOK, Return
<1>2. CASE Throws(r, u)
  BY <1>1, <1>2, ThrowsSteps
<1>3. CASE Records(r, u, "commit", "completed", r) /\ child[r][u].verdict = "completed"
  <2>1. "commit" \in Steps /\ "completed" \in {"running", "completed", "skipped"}
    BY DEF Steps
  <2>2. /\ call' \in [Roots -> [Units -> CallRecords]] /\ OtherCalls(r, u)
        /\ call'[r][u].at = "commit" /\ call'[r][u].source = call[r][u].source
        /\ call'[r][u].status = "completed" /\ call'[r][u].of = r
    BY <1>1, <1>3, <2>1, RecordsMoves
  <2>3. SavedTypeOK' /\ OtherChildren(r, u)
    BY <1>1, <2>2 DEF SavedTypeOK, OtherChildren
  <2>4. child'[r][u] = [source |-> call'[r][u].source, verdict |-> "completed"]
    BY <1>1, <1>3, <2>2 DEF ChildRecords
  <2>5. CallStands(r, u)'
    BY <1>1, <2>2, <2>4 DEF CallStands, Alive, Phase
  <2>6. call[r][u].status \notin {"completed", "skipped"}
    BY <1>1, UnsettledYet
  <2> QED
    BY <1>1, <2>2, <2>3, <2>5, <2>6, OneInvocation
<1> QED
  BY <1>2, <1>3 DEF Return

\* A recorded completion goes on to its file.
LEMMA FileSteps ==
  ASSUME SavedInv, NEW r \in Roots, NEW u \in Units, NEW step \in {"rename", "done"}, Goto(r, u, step),
         call[r][u].at \in {"commit", "rename"}, step = "rename" => owner = r \/ r \in held,
         UNCHANGED <<source, owner, root, child, held>>, saved' \subseteq Files,
         \A file \in saved' \ saved : file.whole => Earned(file.id, file.of, file.id.unit)
  PROVE  SavedInv'
<1>1. SavedTypeOK /\ Alive(r) /\ CallStands(r, u) /\ call[r][u].status = "completed" /\ step \in Steps
  BY DEF SavedInv, CallStands, Steps
<1>2. /\ call' \in [Roots -> [Units -> CallRecords]] /\ OtherCalls(r, u) /\ call'[r][u].at = step
      /\ call'[r][u].source = call[r][u].source /\ call'[r][u].status = call[r][u].status
      /\ call'[r][u].of = call[r][u].of
  BY <1>1, GotoMoves
<1>3. SavedTypeOK' /\ OtherChildren(r, u)
  BY <1>1, <1>2 DEF SavedTypeOK, OtherChildren
<1>4. CallStands(r, u)'
  BY <1>1, <1>2 DEF CallStands, Alive, Phase
<1> QED
  BY <1>1, <1>2, <1>3, <1>4, OneInvocation

LEMMA FenceSteps == ASSUME SavedInv, NEW r \in Roots, NEW u \in Units, Fence(r, u) PROVE SavedInv'
<1>1. PICK step \in {"rename", "done"} : (step = "rename" => owner = r) /\ Goto(r, u, step)
  BY DEF Fence
<1>2. saved' \subseteq Files /\ saved' = saved
  BY DEF SavedInv, SavedTypeOK, Fence
<1> QED
  BY <1>1, <1>2, FileSteps DEF Fence

\* What is renamed names a completion of the run that renames it.
LEMMA RenamedEarned ==
  ASSUME SavedInv, NEW r \in Roots, NEW u \in Units, call[r][u].at = "rename"
  PROVE  Identity(r, u) \in Identities /\ Identity(r, u).unit = u /\ Earned(Identity(r, u), r, u)
<1>1. SavedTypeOK /\ CallStands(r, u) /\ call[r][u].status = "completed"
  BY DEF SavedInv, CallStands
<1>2. Lineage(r) \in Roots
  BY LineageInRoots DEF SavedInv
<1>3. call[r][u] \in CallRecords /\ root[r] \in RootRecords
  BY <1>1 DEF SavedTypeOK
<1>4. Identity(r, u) \in Identities /\ Identity(r, u).unit = u
  BY <1>2, <1>3 DEF Identity, Identities, CallRecords, RootRecords
<1>5. Earned(Identity(r, u), r, u)
  BY <1>1 DEF Earned, Identity, CallStands
<1> QED
  BY <1>4, <1>5

LEMMA RenameSteps == ASSUME SavedInv, NEW r \in Roots, NEW u \in Units, Rename(r, u) PROVE SavedInv'
<1>1. /\ Goto(r, u, "done") /\ call[r][u].at = "rename"
      /\ saved' = (saved \ Filed(Identity(r, u))) \cup {[id |-> Identity(r, u), of |-> r, whole |-> TRUE]}
      /\ UNCHANGED <<source, owner, root, child, held>>
  BY DEF Rename
<1>2. Identity(r, u) \in Identities /\ Identity(r, u).unit = u /\ Earned(Identity(r, u), r, u)
  BY <1>1, RenamedEarned
<1>3. saved' \subseteq Files
  <2>1. [id |-> Identity(r, u), of |-> r, whole |-> TRUE] \in Files
    BY <1>2 DEF Files
  <2> QED
    BY <1>1, <2>1 DEF SavedInv, SavedTypeOK
<1>4. \A file \in saved' \ saved : file.whole => Earned(file.id, file.of, file.id.unit)
  BY <1>1, <1>2
<1> QED
  BY <1>1, <1>3, <1>4, FileSteps
-----------------------------------------------------------------------------
(* The steps of a root, and of what is around the runs.                     *)

\* A step that leaves records, children and scripts alone where something was
\* earned, and the lineages, leaves everything earned.
LEMMA AllEarnedStays ==
  ASSUME SavedInv, saved' \subseteq Files,
         \A q \in Roots, v \in Units :
            /\ call[q][v].status = "completed" =>
                  call'[q][v].status = "completed" /\ child'[q][v] = child[q][v]
            /\ call'[q][v].status = "skipped" => call'[q][v] = call[q][v]
            /\ call[q][v].status \in {"completed", "skipped"} =>
                  root'[q].script = root[q].script /\ Lineage(q)' = Lineage(q),
         \A file \in saved' : file.whole => file \in saved
  PROVE  ChildrenEarned'
<1>1. \A q \in Roots, v \in Units : CallStands(q, v)
  BY DEF SavedInv
<1>2. ASSUME NEW id, NEW of \in Roots, NEW v \in Units, Earned(id, of, v) PROVE Earned(id, of, v)'
  <2>1. call[of][v].status = "completed"
    BY <1>2 DEF Earned
  <2>2. /\ child'[of][v] = child[of][v] /\ call'[of][v].status = "completed"
        /\ root'[of].script = root[of].script /\ Lineage(of)' = Lineage(of)
    BY <2>1
  <2> QED
    BY <1>2, <2>2, EarnedStays
<1>3. ASSUME NEW file \in saved', file.whole PROVE Earned(file.id, file.of, file.id.unit)'
  <2>1. file \in saved /\ file.of \in Roots /\ file.id.unit \in Units
    BY <1>3 DEF Files, Identities
  <2>2. Earned(file.id, file.of, file.id.unit)
    BY <1>3, <2>1 DEF SavedInv, ChildrenEarned
  <2> QED
    BY <1>2, <2>1, <2>2
<1>4. ASSUME NEW q \in Roots, NEW v \in Units, call'[q][v].status = "skipped"
      PROVE  Earned(Identity(q, v), call[q][v].of, v)'
  <2>1. PICK id, of : id = Identity(q, v) /\ of = call[q][v].of
    OBVIOUS
  <2>2. call'[q][v] = call[q][v] /\ call[q][v].status = "skipped"
    BY <1>4
  <2>3. root'[q].script = root[q].script /\ Lineage(q)' = Lineage(q)
    BY <2>2
  <2>4. Identity(q, v)' = id
    BY <2>1, <2>2, <2>3 DEF Identity
  <2>5. of \in Roots
    BY <1>1, <2>1, <2>2 DEF CallStands
  <2>6. Earned(id, of, v)
    BY <2>1, <2>2 DEF SavedInv, ChildrenEarned
  <2>7. Earned(id, of, v)'
    BY <1>2, <2>5, <2>6
  <2> QED
    BY <2>1, <2>2, <2>4, <2>7 DEF Earned
<1> QED
  BY <1>3, <1>4 DEF ChildrenEarned

LEMMA LaunchSteps ==
  ASSUME SavedInv, NEW r \in Roots, NEW s \in Scripts, NEW ancestors \in SUBSET Roots, Launch(r, s, ancestors),
         \A a \in ancestors : Phase(a) # "new",
         ancestors = {} \/ \E a \in ancestors : root[a].ancestors = {}
  PROVE  SavedInv'
<1> DEFINE launched == [phase |-> "running", script |-> s, ancestors |-> ancestors]
<1>1. /\ SavedTypeOK /\ Rooted /\ Fenced /\ Phase(r) = "new" /\ Acquirable /\ owner' = r
      /\ root' = [root EXCEPT ![r] = launched] /\ UNCHANGED <<source, call, child, saved, held>>
  BY DEF SavedInv, Launch
<1>2. launched \in RootRecords
  BY DEF RootRecords
<1>3. root' \in [Roots -> RootRecords] /\ root'[r] = launched /\ \A q \in Roots \ {r} : root'[q] = root[q]
  BY <1>1, <1>2 DEF SavedTypeOK
<1>4. SavedTypeOK'
  BY <1>1, <1>3 DEF SavedTypeOK
<1>5. \A q \in Roots : root[q].ancestors \subseteq Roots \ {r}
  <2>1. \A q \in Roots : root[q].ancestors \subseteq Roots
    BY <1>1 DEF SavedTypeOK, RootRecords
  <2> QED
    BY <1>1, <2>1 DEF Rooted
<1>6. Rooted'
  <2>1. ASSUME NEW q \in Roots
        PROVE  /\ \A a \in root'[q].ancestors : a \in Roots \ {r} /\ Phase(a) # "new"
               /\ root'[q].ancestors = {} \/ \E a \in root'[q].ancestors : root[a].ancestors = {}
               /\ Phase(q)' = "new" => root'[q].ancestors = {}
    <3>1. CASE q = r
      BY <1>1, <1>3, <3>1 DEF Phase
    <3>2. CASE q # r
      <4>1. root'[q] = root[q]
        BY <1>3, <3>2
      <4> QED
        BY <1>1, <1>5, <4>1 DEF Rooted, Phase
    <3> QED
      BY <3>1, <3>2
  <2>2. \A a \in Roots \ {r} : root'[a].ancestors = root[a].ancestors /\ (Phase(a) # "new" => Phase(a)' # "new")
    BY <1>3 DEF Phase
  <2> QED
    BY <2>1, <2>2 DEF Rooted
<1>7. \A q \in Roots \ {r} : root'[q].script = root[q].script /\ Lineage(q)' = Lineage(q)
  <2>1. ASSUME NEW q \in Roots \ {r} PROVE Lineage(q)' = Lineage(q)
    <3>1. root'[q].ancestors = root[q].ancestors
      BY <1>3
    <3>2. \A a \in root[q].ancestors \cup {q} : root'[a].ancestors = root[a].ancestors
      BY <1>3, <1>5
    <3> QED
      BY <3>1, <3>2 DEF Lineage
  <2> QED
    BY <1>3, <2>1
<1>8. \A q \in Roots, v \in Units : CallStands(q, v)'
  <2> SUFFICES ASSUME NEW q \in Roots, NEW v \in Units PROVE CallStands(q, v)'
    OBVIOUS
  <2>1. CallStands(q, v) /\ (Alive(q) => Alive(q)') /\ (Phase(q) # "new" => Phase(q)' # "new")
    BY <1>3 DEF SavedInv, Alive, Phase
  <2> QED
    BY <1>1, <2>1 DEF CallStands
<1>9. Fenced'
  <2>1. ASSUME NEW q \in Roots, NEW v \in Units, call[q][v].at = "rename" PROVE q \in held
    <3>1. Alive(q) /\ (owner = q \/ q \in held)
      BY <1>1, <2>1 DEF SavedInv, CallStands, Fenced
    <3>2. owner = q => Phase(q) = "ended"
      BY <1>1, <3>1, SavedChildAssumption DEF Acquirable, Alive
    <3> QED
      BY <1>1, <3>1, <3>2 DEF Fenced
  <2>2. Phase(r)' = "running"
    BY <1>3 DEF Phase
  <2> QED
    BY <1>1, <2>1, <2>2 DEF Fenced
<1>10. ChildrenEarned'
  <2>1. \A q \in Roots, v \in Units : call[q][v].status \in {"completed", "skipped"} => q # r
    BY <1>1 DEF SavedInv, CallStands
  <2>2. saved' \subseteq Files
    BY <1>4 DEF SavedTypeOK
  <2> QED
    BY <1>1, <1>7, <2>1, <2>2, AllEarnedStays
<1> QED
  BY <1>4, <1>6, <1>8, <1>9, <1>10 DEF SavedInv

LEMMA FreshSteps == ASSUME SavedInv, NEW r \in Roots, Fresh(r) PROVE SavedInv'
BY LaunchSteps DEF Fresh

LEMMA ResumeSteps == ASSUME SavedInv, NEW r \in Roots, Resume(r) PROVE SavedInv'
<1>1. PICK s \in Scripts, a \in Roots : Resumable(a, s) /\ Launch(r, s, {a} \cup root[a].ancestors)
  BY DEF Resume
<1>2. SavedTypeOK /\ Rooted /\ Phase(a) # "new"
  BY <1>1 DEF SavedInv, Resumable
<1>3. {a} \cup root[a].ancestors \in SUBSET Roots
  BY <1>2 DEF SavedTypeOK, RootRecords
<1>4. \A b \in {a} \cup root[a].ancestors : Phase(b) # "new"
  BY <1>2 DEF Rooted
<1>5. \E b \in {a} \cup root[a].ancestors : root[b].ancestors = {}
  BY <1>2 DEF Rooted
<1> QED
  BY <1>1, <1>3, <1>4, <1>5, LaunchSteps

\* A run ends or dies: its phase changes, and nothing else of any root.
LEMMA PhaseMoves ==
  ASSUME SavedInv, NEW r \in Roots, NEW phase \in {"ended", "crashed"}, Phase(r) = "running",
         root' = [root EXCEPT ![r].phase = phase]
  PROVE  /\ root' \in [Roots -> RootRecords] /\ Rooted' /\ Phase(r)' = phase
         /\ \A q \in Roots \ {r} : Phase(q)' = Phase(q)
         /\ \A q \in Roots : root'[q].script = root[q].script /\ Lineage(q)' = Lineage(q)
<1>1. SavedTypeOK /\ Rooted /\ root[r] \in RootRecords /\ r \in DOMAIN root
  BY DEF SavedInv, SavedTypeOK
<1>2. /\ root' \in [Roots -> RootRecords] /\ root'[r].phase = phase
      /\ \A q \in Roots \ {r} : root'[q] = root[q]
      /\ root'[r].script = root[r].script /\ root'[r].ancestors = root[r].ancestors
  BY <1>1 DEF SavedTypeOK, RootRecords
<1>3. \A q \in Roots : root'[q].script = root[q].script /\ root'[q].ancestors = root[q].ancestors
  BY <1>2
<1>4. \A q \in Roots : root[q].ancestors \subseteq Roots
  BY <1>1 DEF SavedTypeOK, RootRecords
<1>5. \A q \in Roots : (Phase(q)' = "new") <=> (Phase(q) = "new")
  BY <1>2 DEF Phase
<1>6. Rooted'
  <2> SUFFICES ASSUME NEW q \in Roots
               PROVE  /\ \A a \in root'[q].ancestors : Phase(a)' # "new"
                      /\ root'[q].ancestors = {} \/ \E a \in root'[q].ancestors : root'[a].ancestors = {}
                      /\ Phase(q)' = "new" => root'[q].ancestors = {}
    BY DEF Rooted
  <2>1. \A a \in root[q].ancestors : Phase(a)' # "new" /\ root'[a].ancestors = root[a].ancestors
    BY <1>1, <1>3, <1>4, <1>5 DEF Rooted
  <2> QED
    BY <1>1, <1>3, <1>5, <2>1 DEF Rooted
<1>7. ASSUME NEW q \in Roots PROVE Lineage(q)' = Lineage(q)
  <2>1. \A a \in root[q].ancestors \cup {q} : root'[a].ancestors = root[a].ancestors
    BY <1>3, <1>4
  <2> QED
    BY <1>3, <2>1 DEF Lineage
<1> QED
  BY <1>2, <1>3, <1>6, <1>7 DEF Phase

LEMMA EndSteps == ASSUME SavedInv, NEW r \in Roots, End(r) PROVE SavedInv'
<1>1. /\ SavedTypeOK /\ Fenced /\ Free(r) /\ Phase(r) = "running" /\ root' = [root EXCEPT ![r].phase = "ended"]
      /\ UNCHANGED <<source, call, child, saved>> /\ held \subseteq held' /\ held' \subseteq Roots
      /\ owner' \in Roots \cup {None}
      /\ \/ owner' = (IF owner = r THEN None ELSE owner)
         \/ owner' = owner /\ r \in held'
  BY DEF SavedInv, SavedTypeOK, End
<1>2. /\ root' \in [Roots -> RootRecords] /\ Rooted' /\ Phase(r)' = "ended"
      /\ \A q \in Roots \ {r} : Phase(q)' = Phase(q)
      /\ \A q \in Roots : root'[q].script = root[q].script /\ Lineage(q)' = Lineage(q)
  BY <1>1, PhaseMoves
<1>3. SavedTypeOK'
  BY <1>1, <1>2 DEF SavedTypeOK
<1>4. \A q \in Roots, v \in Units : CallStands(q, v)'
  <2> SUFFICES ASSUME NEW q \in Roots, NEW v \in Units PROVE CallStands(q, v)'
    OBVIOUS
  <2>1. CallStands(q, v) /\ (Alive(q) => Alive(q)') /\ (Phase(q) # "new" => Phase(q)' # "new")
    BY <1>2 DEF SavedInv, Alive
  <2> QED
    BY <1>1, <2>1 DEF CallStands
<1>5. Fenced'
  <2>1. \A u \in Units : call[r][u].at # "rename"
    BY <1>1 DEF Free
  <2> SUFFICES ASSUME NEW q \in Roots
               PROVE  /\ (\E u \in Units : call[q][u].at = "rename") => owner' = q \/ q \in held'
                      /\ owner' = q /\ Phase(q)' = "ended" => q \in held'
    BY <1>1 DEF Fenced
  <2>2. CASE q = r
    BY <1>1, <2>1, <2>2, SavedChildAssumption
  <2>3. CASE q # r
    BY <1>1, <1>2, <2>3, SavedChildAssumption DEF Fenced
  <2> QED
    BY <2>2, <2>3
<1>6. ChildrenEarned'
  BY <1>1, <1>2, <1>3, AllEarnedStays DEF SavedTypeOK
<1> QED
  BY <1>2, <1>3, <1>4, <1>5, <1>6 DEF SavedInv

LEMMA ProcessDiesSteps == ASSUME SavedInv, NEW r \in Roots, ProcessDies(r) PROVE SavedInv'
<1> DEFINE left(u) == IF call[r][u].status \in {"completed", "skipped"} THEN [call[r][u] EXCEPT !.at = "done"] ELSE Unsettled
<1>1. /\ SavedTypeOK /\ Fenced /\ Phase(r) = "running" /\ root' = [root EXCEPT ![r].phase = "crashed"]
      /\ call' = [call EXCEPT ![r] = [u \in Units |-> left(u)]]
      /\ UNCHANGED <<source, owner, child, saved, held>>
  BY DEF SavedInv, SavedTypeOK, ProcessDies
<1>2. /\ root' \in [Roots -> RootRecords] /\ Rooted' /\ Phase(r)' = "crashed"
      /\ \A q \in Roots \ {r} : Phase(q)' = Phase(q)
      /\ \A q \in Roots : root'[q].script = root[q].script /\ Lineage(q)' = Lineage(q)
  BY <1>1, PhaseMoves
<1>3. ASSUME NEW u \in Units
      PROVE  /\ left(u) \in CallRecords /\ left(u).at = "done" /\ left(u).status \in {"none", "completed", "skipped"}
             /\ call[r][u].status = "completed" =>
                   left(u).status = "completed" /\ left(u).of = call[r][u].of /\ left(u).source = call[r][u].source
             /\ call[r][u].status = "skipped" => left(u) = call[r][u]
             /\ left(u).status = call[r][u].status \/ left(u).status = "none"
  <2>1. call[r][u] \in CallRecords /\ Unsettled \in CallRecords /\ Unsettled.at = "done" /\ Unsettled.status = "none"
    BY <1>1 DEF SavedTypeOK, CallRecords, Unsettled, Steps
  <2>2. call[r][u].status = "skipped" => call[r][u].at = "done"
    BY DEF SavedInv, CallStands
  <2> QED
    BY <2>1, <2>2 DEF CallRecords, Steps
<1> HIDE DEF left
<1>4. /\ call' \in [Roots -> [Units -> CallRecords]]
      /\ \A v \in Units : call'[r][v] = left(v)
      /\ \A q \in Roots \ {r}, v \in Units : call'[q][v] = call[q][v]
  BY <1>1, <1>3 DEF SavedTypeOK
<1>5. SavedTypeOK'
  BY <1>1, <1>2, <1>4 DEF SavedTypeOK
<1>6. ASSUME NEW q \in Roots, NEW v \in Units PROVE CallStands(q, v)'
  <2>1. CallStands(q, v)
    BY DEF SavedInv
  <2>2. CASE q = r
    <3>1. call'[r][v].at = "done" /\ Phase(r)' # "new" /\ UNCHANGED child
      BY <1>1, <1>2, <1>3, <1>4
    <3>2. /\ call'[r][v].status = "completed" => call[r][v].status = "completed"
          /\ call'[r][v].status = "skipped" => call[r][v].status = "skipped"
      BY <1>3, <1>4
    <3>3. call'[r][v].status = "completed" => call'[r][v].of = call[r][v].of /\ call'[r][v].source = call[r][v].source
      BY <1>3, <1>4, <3>2
    <3>4. call'[r][v].status = "skipped" => call'[r][v] = call[r][v]
      BY <1>3, <1>4, <3>2
    <3> QED
      BY <2>1, <2>2, <3>1, <3>2, <3>3, <3>4 DEF CallStands
  <2>3. CASE q # r
    BY <1>1, <1>2, <1>4, <2>1, <2>3 DEF CallStands, Alive
  <2> QED
    BY <2>2, <2>3
<1>7. Fenced'
  <2>1. \A v \in Units : call'[r][v].at # "rename"
    BY <1>3, <1>4
  <2> QED
    BY <1>1, <1>2, <1>4, <2>1 DEF Fenced
<1>8. ChildrenEarned'
  <2>1. \A q \in Roots, v \in Units :
          /\ call[q][v].status = "completed" => call'[q][v].status = "completed"
          /\ call'[q][v].status = "skipped" => call'[q][v] = call[q][v]
    BY <1>3, <1>4
  <2> QED
    BY <1>1, <1>2, <1>5, <2>1, AllEarnedStays DEF SavedTypeOK
<1> QED
  BY <1>2, <1>5, <1>6, <1>7, <1>8 DEF SavedInv

\* The source changes, or a file is damaged or removed.
LEMMA AroundSteps ==
  ASSUME SavedInv, source' \in Sources, saved' \subseteq Files, UNCHANGED <<owner, root, call, child, held>>,
         \A file \in saved' : file.whole => file \in saved
  PROVE  SavedInv'
<1>1. SavedTypeOK'
  BY DEF SavedInv, SavedTypeOK
<1>2. Rooted' /\ Fenced' /\ \A r \in Roots, u \in Units : CallStands(r, u)'
  BY DEF SavedInv, Rooted, Fenced, CallStands, Alive, Phase
<1>3. ChildrenEarned'
  <2>1. \A q \in Roots : Lineage(q)' = Lineage(q)
    BY DEF Lineage
  <2> QED
    BY <2>1, AllEarnedStays
<1> QED
  BY <1>1, <1>2, <1>3 DEF SavedInv

LEMMA EditSteps == ASSUME SavedInv, Edit PROVE SavedInv'
<1>1. source' \in Sources /\ saved' \subseteq Files /\ saved' = saved
  BY DEF SavedInv, SavedTypeOK, Edit
<1> QED
  BY <1>1, AroundSteps DEF Edit

LEMMA Spoils ==
  ASSUME SavedTypeOK, Spoil
  PROVE  saved' \subseteq Files /\ \A file \in saved' : file.whole => file \in saved
<1>1. PICK file \in saved : saved' = saved \ {file} \/ saved' = (saved \ {file}) \cup {[file EXCEPT !.whole = FALSE]}
  BY DEF Spoil
<1>2. file \in Files
  BY DEF SavedTypeOK
<1>3. [file EXCEPT !.whole = FALSE] \in Files /\ ~[file EXCEPT !.whole = FALSE].whole
  BY <1>2 DEF Files
<1> QED
  BY <1>1, <1>3 DEF SavedTypeOK

LEMMA SpoilSteps == ASSUME SavedInv, Spoil PROVE SavedInv'
<1>1. saved' \subseteq Files /\ \A file \in saved' : file.whole => file \in saved
  BY Spoils DEF SavedInv
<1>2. source' \in Sources
  BY DEF SavedInv, SavedTypeOK, Spoil
<1> QED
  BY <1>1, <1>2, AroundSteps DEF Spoil

-----------------------------------------------------------------------------
LEMMA SavedSteps == SavedInv /\ [Next]_vars => SavedInv'
<1> SUFFICES ASSUME SavedInv, [Next]_vars PROVE SavedInv'
  OBVIOUS
<1>1. ASSUME NEW r \in Roots, Fresh(r) \/ Resume(r) \/ End(r) \/ ProcessDies(r) PROVE SavedInv'
  BY <1>1, FreshSteps, ResumeSteps, EndSteps, ProcessDiesSteps
<1>2. ASSUME NEW r \in Roots, NEW u \in Units,
             \/ Invoke(r, u) \/ Read(r, u) \/ ChildStarts(r, u) \/ ChildEnds(r, u)
             \/ Return(r, u) \/ Fence(r, u) \/ Rename(r, u)
      PROVE  SavedInv'
  BY <1>2, InvokeSteps, ReadSteps, ChildStartsSteps, ChildEndsSteps, ReturnSteps, FenceSteps, RenameSteps
<1>3. CASE UNCHANGED vars
  <2>1. source' \in Sources /\ saved' \subseteq Files /\ saved' = saved
    BY <1>3 DEF SavedInv, SavedTypeOK, vars
  <2> QED
    BY <1>3, <2>1, AroundSteps DEF vars
<1> QED
  BY <1>1, <1>2, <1>3, EditSteps, SpoilSteps DEF Next

LEMMA SavedInvariant == Spec => []SavedInv
BY SavedStarts, SavedSteps, PTL DEF Spec

\* Every variable stays in its type.
THEOREM SavedTypeCorrect == Spec => []SavedTypeOK
<1>1. SavedInv => SavedTypeOK
  BY DEF SavedInv
<1> QED
  BY <1>1, SavedInvariant, PTL

\* A whole checkpoint, and a unit skipped for one, names a child that completed
\* and was recorded so, of that source, in that lineage, by that script
\* (resolveWorkflowCompletedCheckpoint, invokeSavedWorkflow).
THEOREM NothingUnearned == Spec => []ChildrenEarned
<1>1. SavedInv => ChildrenEarned
  BY DEF SavedInv
<1> QED
  BY <1>1, SavedInvariant, PTL

\* Only a rename adds a whole checkpoint.
LEMMA OnlyRenameFiles ==
  ASSUME SavedInv, Next, NEW file \in saved' \ saved, file.whole
  PROVE  owner = file.of \/ file.of \in held
<1>1. ~UNCHANGED saved /\ ~(saved' \subseteq saved)
  OBVIOUS
<1>2. ASSUME NEW r \in Roots PROVE ~(Fresh(r) \/ Resume(r) \/ End(r) \/ ProcessDies(r))
  BY <1>1 DEF Fresh, Resume, Launch, End, ProcessDies
<1>3. ASSUME NEW r \in Roots, NEW u \in Units
      PROVE  ~(Invoke(r, u) \/ ChildStarts(r, u) \/ ChildEnds(r, u) \/ Return(r, u) \/ Fence(r, u))
  BY <1>1 DEF Invoke, ChildStarts, ChildEnds, Return, Fence
<1>4. ASSUME NEW r \in Roots, NEW u \in Units PROVE ~Read(r, u)
  BY <1>1 DEF Read, Skip, Start
<1>5. ~Edit
  BY <1>1 DEF Edit
<1>6. ~Spoil
  BY Spoils DEF SavedInv
<1>7. PICK r \in Roots, u \in Units : Rename(r, u)
  BY <1>2, <1>3, <1>4, <1>5, <1>6 DEF Next
<1>8. file = [id |-> Identity(r, u), of |-> r, whole |-> TRUE] /\ call[r][u].at = "rename"
  BY <1>7 DEF Rename
<1> QED
  BY <1>8 DEF SavedInv, Fenced

\* Whoever files a checkpoint holds the lease, or could not release it
\* (commitWorkflowCompletedCheckpoint asserts the lease before it renames).
THEOREM StaleOwnersFileNothing == Spec => StaleOwnerStops
<1>1. SavedInv /\ [Next]_vars => [\A file \in saved' \ saved : file.whole => owner = file.of \/ file.of \in held]_vars
  BY OnlyRenameFiles
<1> QED
  BY <1>1, SavedInvariant, PTL DEF Spec, StaleOwnerStops

\* Only the reading of the checkpoints starts a child.
LEMMA OnlyReadStarts ==
  ASSUME SavedInv, Next, NEW r \in Roots, NEW u \in Units,
         call[r][u].at = "admission", call'[r][u].at = "launching"
  PROVE  At(r, u, "admission") /\ Admitted(r, u) /\ ~Refused(r, u) /\ ~(root[r].script \in Typed /\ Filed(Identity(r, u)) # {})
<1>1. SavedTypeOK /\ ~UNCHANGED call
  BY DEF SavedInv
<1>2. ~Edit /\ ~Spoil
  BY <1>1 DEF Edit, Spoil
<1>3. ASSUME NEW q \in Roots PROVE ~(Fresh(q) \/ Resume(q) \/ End(q))
  BY <1>1 DEF Fresh, Resume, Launch, End
<1>4. ASSUME NEW q \in Roots, ProcessDies(q) PROVE FALSE
  <2>1. q # r => call'[r] = call[r]
    BY <1>1, <1>4 DEF ProcessDies, SavedTypeOK
  <2>2. q = r => call'[r][u] = Unsettled \/ call'[r][u] = [call[r][u] EXCEPT !.at = "done"]
    BY <1>1, <1>4 DEF ProcessDies, SavedTypeOK
  <2>3. Unsettled.at = "done" /\ [call[r][u] EXCEPT !.at = "done"].at = "done"
    BY <1>1 DEF Unsettled, SavedTypeOK, CallRecords
  <2> QED
    BY <2>1, <2>2, <2>3
<1>5. ASSUME NEW q \in Roots, NEW v \in Units,
             \/ Invoke(q, v) \/ Read(q, v) \/ ChildStarts(q, v) \/ ChildEnds(q, v)
             \/ Return(q, v) \/ Fence(q, v) \/ Rename(q, v)
      PROVE  OtherCalls(q, v)
  <2>1. (\E step \in Steps : Goto(q, v, step)) => OtherCalls(q, v)
    BY <1>1 DEF Goto, OtherCalls, SavedTypeOK
  <2>2. ASSUME NEW step, NEW status, NEW of, Records(q, v, step, status, of) PROVE OtherCalls(q, v)
    BY <1>1, <2>2 DEF Records, OtherCalls, SavedTypeOK
  <2>3. Throws(q, v) => OtherCalls(q, v)
    BY <1>1 DEF Throws, OtherCalls, SavedTypeOK
  <2>4. Invoke(q, v) => OtherCalls(q, v)
    <3>1. call' = [call EXCEPT ![q][v].at = "admission", ![q][v].source = source] => OtherCalls(q, v)
      BY <1>1 DEF OtherCalls, SavedTypeOK
    <3> QED
      BY <2>3, <3>1 DEF Invoke
  <2>5. Read(q, v) => OtherCalls(q, v)
    BY <2>2, <2>3 DEF Read, Skip, Start
  <2>6. ChildStarts(q, v) \/ ChildEnds(q, v) => OtherCalls(q, v)
    BY <2>1 DEF ChildStarts, ChildEnds, Steps
  <2>7. Return(q, v) \/ Fence(q, v) \/ Rename(q, v) => OtherCalls(q, v)
    BY <2>1, <2>2, <2>3 DEF Return, Fence, Rename, Steps
  <2> QED
    BY <1>5, <2>4, <2>5, <2>6, <2>7
<1>6. ASSUME NEW q \in Roots, NEW v \in Units,
             Invoke(q, v) \/ ChildStarts(q, v) \/ ChildEnds(q, v) \/ Return(q, v) \/ Fence(q, v) \/ Rename(q, v)
      PROVE  FALSE
  <2>1. call[q][v].at # "admission"
    BY <1>6 DEF Invoke, ChildStarts, ChildEnds, Return, Fence, Rename, At
  <2>2. OtherCalls(q, v)
    BY <1>5, <1>6
  <2> QED
    BY <2>1, <2>2 DEF OtherCalls
<1>7. PICK q \in Roots, v \in Units : Read(q, v)
  BY <1>2, <1>3, <1>4, <1>6 DEF Next
<1>8. Read(r, u)
  <2>1. OtherCalls(q, v)
    BY <1>5, <1>7
  <2>2. q = r /\ v = u
    BY <2>1 DEF OtherCalls
  <2> QED
    BY <1>7, <2>2
<1>9. ~Throws(r, u)
  BY <1>1, ThrowsMoves
<1>10. ~Skip(r, u)
  <2>1. ASSUME NEW of, Records(r, u, "done", "skipped", of) PROVE FALSE
    BY <1>1, <2>1 DEF Records, SavedTypeOK, CallRecords
  <2> QED
    BY <2>1 DEF Skip
<1>11. At(r, u, "admission") /\ Admitted(r, u) /\ Start(r, u) /\ ~(root[r].script \in Typed /\ Filed(Identity(r, u)) # {})
  BY <1>8, <1>9, <1>10 DEF Read
<1>12. ~Refused(r, u)
  BY <1>9, <1>11 DEF Start
<1> QED
  BY <1>11, <1>12

\* What a typed child answered is not computed again by a run that can know of
\* it (hasPriorCompletedTypedChild, readWorkflowCompletedCheckpoint).
LEMMA StartsUnknowing ==
  ASSUME SavedInv, Next, NEW r \in Roots, NEW u \in Units,
         call[r][u].at = "admission", call'[r][u].at = "launching",
         NEW c \in Roots, call[c][u].status = "completed", child[c][u].source \in Typed
  PROVE  ~Knows(r, c, u)
<1>1. /\ Admitted(r, u) /\ ~(root[r].script \in Typed /\ Filed(Identity(r, u)) # {})
      /\ \A a \in root[r].ancestors : ~CountsOn(a, u)
  BY OnlyReadStarts DEF Refused
<1>2. c \notin root[r].ancestors
  <2>1. call[c][u].of = c
    BY DEF SavedInv, CallStands
  <2> QED
    BY <1>1, <2>1 DEF CountsOn
<1>3. ~\E a \in root[r].ancestors : call[a][u].status = "skipped" /\ call[a][u].of = c
  BY <1>1 DEF CountsOn
<1>4. ~TypedFile(u, Lineage(r))
  <2> SUFFICES ASSUME TypedFile(u, Lineage(r)) PROVE FALSE
    OBVIOUS
  <2>1. root[r].script \in Typed
    BY <1>1 DEF Admitted, Downgrades
  <2>2. PICK file \in saved : file.id.typed /\ file.id.unit = u /\ file.id.lineage = Lineage(r)
    BY DEF TypedFile
  <2>3. file.id.typed \in BOOLEAN
    BY <2>2 DEF SavedInv, SavedTypeOK, Files, Identities
  <2>4. file.id.typed = TRUE /\ Identity(r, u).typed = TRUE
    BY <2>1, <2>2, <2>3 DEF Identity
  <2>5. FiledAs(file.id) = FiledAs(Identity(r, u))
    BY <2>2, <2>4 DEF FiledAs, Identity
  <2> QED
    BY <1>1, <2>1, <2>2, <2>4, <2>5 DEF Filed
<1> QED
  BY <1>2, <1>3, <1>4 DEF Knows

(* What a typed child answered is not computed again by a run that can know *)
(* of it (admission of a saved child by ancestry and checkpoint).           *)
THEOREM TypedAnswersOnce == Spec => TypedOnce
<1>1. SavedInv /\ [Next]_vars =>
        [\A r \in Roots, u \in Units : call[r][u].at = "admission" /\ call'[r][u].at = "launching" =>
           \A c \in Roots \ {r} :
              call[c][u].status = "completed" /\ child[c][u].source \in Typed /\ Lineage(c) = Lineage(r) =>
                 ~Knows(r, c, u)]_vars
  BY StartsUnknowing
<1> QED
  BY <1>1, SavedInvariant, PTL DEF Spec, TypedOnce
=============================================================================
