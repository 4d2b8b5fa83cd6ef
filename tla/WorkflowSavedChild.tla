------------------------- MODULE WorkflowSavedChild -------------------------
(* Saved children of a workflow: the root runs of one workspace, one after  *)
(* another under its lease, each in a process of its own, and for each unit *)
(* of work the invocation of the saved child (workflow-saved-child.ts), the *)
(* checkpoint of its completion (workflow-workspace-state.ts) and what the  *)
(* ancestors of a resumed root say of it (workflow-launch-binding.ts).      *)
(*                                                                          *)
(* A script need not await what it invoked: a run may end, and its lease    *)
(* pass on, under children that work and invocations that go on.            *)
EXTENDS Integers, FiniteSets

CONSTANTS
    Roots,      \* numbers of the root runs, in the order of their launches
    Units,      \* the keys of the work list
    Scripts,    \* versions of the parent script
    Sources,    \* versions of the child's source
    Typed,      \* of these: the scripts that pass an inputValue to the child, the
                \* sources that declare a schema for it
    MaxUpsets,  \* bound: edits of the child's source, checkpoint files damaged or
                \* removed from outside and failed releases of the lease, together
    None

ASSUME SavedChildAssumption ==
    /\ Roots = 1..Cardinality(Roots)
    /\ Typed \subseteq Scripts \cup Sources
    /\ None \notin Roots \cup Scripts \cup Sources

VARIABLES
    source,  \* the child's source file as it is now
    owner,   \* the root in lease.json, or None
    root,    \* per root: its phase ("new", "running", "ended" with a result.json,
             \* "crashed" without), its script, and the runs it resumes
    call,    \* per root and unit: where its invocation stands, the source it
             \* resolved, what the parent recorded ("running", "completed" or
             \* "skipped"; a failure that is recorded is never read) and of
             \* which root's child
    child,   \* per root and unit: the run it started, of which source, its verdict
    saved,   \* the checkpoint files
    upsets,  \* how much of MaxUpsets is spent
    held     \* the roots whose release of the lease failed

vars == <<source, owner, root, call, child, saved, upsets, held>>

Unsettled == [at |-> "done", source |-> None, status |-> "none", of |-> None]

Init ==
    /\ source \in Sources /\ owner = None
    /\ root = [r \in Roots |-> [phase |-> "new", script |-> None, ancestors |-> {}]]
    /\ call = [r \in Roots |-> [u \in Units |-> [Unsettled EXCEPT !.at = "idle"]]]
    /\ child = [r \in Roots |-> [u \in Units |-> [source |-> None, verdict |-> "none"]]]
    /\ saved = {} /\ upsets = 0 /\ held = {}

-----------------------------------------------------------------------------
Phase(r) == root[r].phase

\* The process of a run is there, of one that runs or of what one left behind.
Alive(r) == Phase(r) \in {"running", "ended"}

\* To record and to commit a completion is one synchronous stretch, in which
\* nothing else of the process moves (other processes do).
Free(r) == Alive(r) /\ \A u \in Units : call[r][u].at \notin {"commit", "rename"}

At(r, u, step) == Free(r) /\ call[r][u].at = step

Upset == upsets < MaxUpsets /\ upsets' = upsets + 1

Goto(r, u, step) == call' = [call EXCEPT ![r][u].at = step]

Records(r, u, step, status, of) ==
    call' = [call EXCEPT ![r][u] = [@ EXCEPT !.at = step, !.status = status, !.of = of]]

\* Every fresh root begins a lineage; a run that resumes another keeps it.
Lineage(r) == CHOOSE a \in root[r].ancestors \cup {r} : root[a].ancestors = {}

-----------------------------------------------------------------------------
(* checkpointFile(): a text checkpoint is filed by everything it says, a    *)
(* typed one by lineage and unit; what else it says is compared when read.  *)
Identity(r, u) ==
    [typed |-> root[r].script \in Typed, unit |-> u, lineage |-> Lineage(r),
     script |-> root[r].script, source |-> call[r][u].source]

FiledAs(id) ==
    IF id.typed THEN <<id.unit, id.lineage>> ELSE <<id.unit, id.lineage, id.script, id.source>>

Filed(id) == {file \in saved : file.id.typed = id.typed /\ FiledAs(file.id) = FiledAs(id)}

AnyIdentity(file, id) == file.whole

SameIdentity(file, id) == file.whole /\ file.id = id

\* A text invocation of a unit that has a typed checkpoint.
TypedFile(u, lineage) == \E file \in saved : file.id.typed /\ file.id.unit = u /\ file.id.lineage = lineage

Downgrades(r, u) == root[r].script \notin Typed /\ TypedFile(u, Lineage(r))

(* hasPriorCompletedTypedChild(): the walk over the ancestors and their     *)
(* results and journals finds a typed child that completed or was skipped,  *)
(* or an ancestor that has no result. All of it refuses the invocation. A   *)
(* completion recorded after the result is found in the journal.            *)
CountsOn(a, u) == call[a][u].status \in {"completed", "skipped"} /\ child[call[a][u].of][u].source \in Typed

RefusedByLast(r, u) ==
    \E a \in root[r].ancestors :
       /\ \A b \in root[r].ancestors : b <= a
       /\ (Phase(a) = "crashed" \/ CountsOn(a, u))

Refused(r, u) == \E a \in root[r].ancestors : Phase(a) = "crashed" \/ CountsOn(a, u)

-----------------------------------------------------------------------------
(* Roots                                                                    *)

\* A run with a result may be resumed with any script; one without only with
\* the same, and if no run that is stored with it started a child.
Resumable(a, s) ==
    \/ Phase(a) = "ended"
    \/ /\ Phase(a) = "crashed" /\ s = root[a].script
       /\ \A r \in Roots, u \in Units : Lineage(r) = Lineage(a) => child[r][u].source = None

\* The lease: free, of a dead owner, or (--force) of one with a result.
Acquirable == owner \in {None} \cup {q \in Roots : Phase(q) # "running"}

Launch(r, s, ancestors) ==
    /\ Phase(r) = "new" /\ \A q \in 1..(r - 1) : Phase(q) # "new"
    /\ Acquirable /\ owner' = r
    /\ root' = [root EXCEPT ![r] = [phase |-> "running", script |-> s, ancestors |-> ancestors]]
    /\ UNCHANGED <<source, call, child, saved, upsets, held>>

Fresh(r) == \E s \in Scripts : Launch(r, s, {})

Resume(r) ==
    \E s \in Scripts, a \in Roots : Resumable(a, s) /\ Launch(r, s, {a} \cup root[a].ancestors)

(* The script returned or threw, or something threw out of band: the lease  *)
(* is released, the result written. What it invoked goes on.                *)
End(r) ==
    /\ Free(r) /\ Phase(r) = "running"
    /\ root' = [root EXCEPT ![r].phase = "ended"]
    /\ \/ owner' = (IF owner = r THEN None ELSE owner) /\ UNCHANGED <<held, upsets>>
       \/ owner = r /\ Upset /\ held' = held \cup {r} /\ UNCHANGED owner
    /\ UNCHANGED <<source, call, child, saved>>

\* The process dies under a run. (When it dies under what an ended run left
\* behind, that looks as if it stood still.)
ProcessDies(r) ==
    /\ Phase(r) = "running"
    /\ root' = [root EXCEPT ![r].phase = "crashed"]
    /\ call' = [call EXCEPT ![r] = [u \in Units |->
          IF @[u].status \in {"completed", "skipped"} THEN [@[u] EXCEPT !.at = "done"] ELSE Unsettled]]
    /\ UNCHANGED <<source, owner, child, saved, upsets, held>>

-----------------------------------------------------------------------------
(* One invocation                                                           *)

Throws(r, u) == call' = [call EXCEPT ![r][u] = Unsettled]

\* The source is resolved and hashed; input and schema must agree. (A script
\* that goes on after its run, without the lease, could only throw.)
Invoke(r, u) ==
    /\ At(r, u, "idle") /\ owner = r
    /\ IF (source \in Typed) = (root[r].script \in Typed)
       THEN call' = [call EXCEPT ![r][u].at = "admission", ![r][u].source = source]
       ELSE Throws(r, u)
    /\ UNCHANGED <<source, owner, root, child, saved, upsets, held>>

(* The input is admitted (awaited) and the source still the same, the lease *)
(* held: a checkpoint answers, a bad text one is put aside, anything bad    *)
(* about a typed one refuses; then the ancestors may refuse. What is left   *)
(* starts the child. All of it is one synchronous stretch.                  *)
Admitted(r, u) == source = call[r][u].source /\ owner = r /\ ~Downgrades(r, u)

Skip(r, u) ==
    \E file \in Filed(Identity(r, u)) :
       /\ SameIdentity(file, Identity(r, u))
       /\ Records(r, u, "done", "skipped", file.of)
       /\ UNCHANGED <<child, saved>>

Start(r, u) ==
    /\ saved' = saved \ Filed(Identity(r, u))
    /\ IF Refused(r, u)
       THEN Throws(r, u) /\ UNCHANGED child
       ELSE /\ Records(r, u, "launching", "running", r)
            /\ child' = [child EXCEPT ![r][u].source = source]

Read(r, u) ==
    /\ At(r, u, "admission")
    /\ IF ~Admitted(r, u) THEN Throws(r, u) /\ UNCHANGED <<child, saved>>
       ELSE IF \E file \in Filed(Identity(r, u)) : SameIdentity(file, Identity(r, u)) THEN Skip(r, u)
       ELSE IF root[r].script \in Typed /\ Filed(Identity(r, u)) # {} THEN Throws(r, u) /\ UNCHANGED <<child, saved>>
       ELSE Start(r, u)
    /\ UNCHANGED <<source, owner, root, upsets, held>>

\* The child's admission takes a snapshot of the source, which must be the one
\* its parent resolved; the child is in no need of the lease.
ChildStarts(r, u) ==
    /\ At(r, u, "launching")
    /\ IF source = call[r][u].source
       THEN Goto(r, u, "running") /\ UNCHANGED child
       ELSE Goto(r, u, "returned") /\ child' = [child EXCEPT ![r][u].verdict = "failed"]
    /\ UNCHANGED <<source, owner, root, saved, upsets, held>>

\* "failed" stands for every end that is not a completion.
ChildEnds(r, u) ==
    /\ At(r, u, "running")
    /\ \E verdict \in {"completed", "failed"} : child' = [child EXCEPT ![r][u].verdict = verdict]
    /\ Goto(r, u, "returned")
    /\ UNCHANGED <<source, owner, root, saved, upsets, held>>

\* The parent records a completion only if the source is still the same.
Return(r, u) ==
    /\ At(r, u, "returned")
    /\ IF child[r][u].verdict = "completed" /\ source = call[r][u].source
       THEN Records(r, u, "commit", "completed", r)
       ELSE Throws(r, u)
    /\ UNCHANGED <<source, owner, root, child, saved, upsets, held>>

(* commitWorkflowCompletedCheckpoint(): the temporary file is written and   *)
(* the lease asserted, then the file renamed. The write may fail.           *)
UnfencedCommit(r, u) ==
    /\ Alive(r) /\ call[r][u].at = "commit"
    /\ \E step \in {"rename", "done"} : Goto(r, u, step)
    /\ UNCHANGED <<source, owner, root, child, saved, upsets, held>>

Fence(r, u) ==
    /\ Alive(r) /\ call[r][u].at = "commit"
    /\ \E step \in {"rename", "done"} : (step = "rename" => owner = r) /\ Goto(r, u, step)
    /\ UNCHANGED <<source, owner, root, child, saved, upsets, held>>

Rename(r, u) ==
    /\ Alive(r) /\ call[r][u].at = "rename"
    /\ saved' = (saved \ Filed(Identity(r, u))) \cup {[id |-> Identity(r, u), of |-> r, whole |-> TRUE]}
    /\ Goto(r, u, "done")
    /\ UNCHANGED <<source, owner, root, child, upsets, held>>

-----------------------------------------------------------------------------
(* Around the runs: somebody edits the child, or damages or removes a file. *)
Edit ==
    /\ Upset
    /\ \E s \in Sources \ {source} : source' = s
    /\ UNCHANGED <<owner, root, call, child, saved, held>>

Spoil ==
    /\ Upset
    /\ \E file \in saved :
          saved' = saved \ {file} \/ saved' = (saved \ {file}) \cup {[file EXCEPT !.whole = FALSE]}
    /\ UNCHANGED <<source, owner, root, call, child, held>>

Next ==
    \/ Edit \/ Spoil
    \/ \E r \in Roots : Fresh(r) \/ Resume(r) \/ End(r) \/ ProcessDies(r)
    \/ \E r \in Roots, u \in Units :
          \/ Invoke(r, u) \/ Read(r, u) \/ ChildStarts(r, u) \/ ChildEnds(r, u)
          \/ Return(r, u) \/ Fence(r, u) \/ Rename(r, u)

Spec == Init /\ [][Next]_vars

-----------------------------------------------------------------------------
(* Nothing is answered that was not earned: a whole checkpoint, and a skip  *)
(* that rests on one, names a child that completed, and was recorded so, of *)
(* the very source, in a run of the same lineage by the same script.        *)
Earned(id, of, u) ==
    /\ child[of][u] = [source |-> id.source, verdict |-> "completed"]
    /\ call[of][u].status = "completed"
    /\ root[of].script = id.script /\ Lineage(of) = id.lineage

ChildrenEarned ==
    /\ \A file \in saved : file.whole => Earned(file.id, file.of, file.id.unit)
    /\ \A r \in Roots, u \in Units :
          call[r][u].status = "skipped" => Earned(Identity(r, u), call[r][u].of, u)

(* A checkpoint is written only by the run that holds the lease, whatever   *)
(* ended, crashed or took over in the middle (dsl.md:455-456); except that  *)
(* of a run whose own release failed, which --force may replace.            *)
StaleOwnerStops ==
    [][\A file \in saved' \ saved : file.whole => owner = file.of \/ file.of \in held]_vars

(* What a typed child answered is not computed again by a run that can know *)
(* of it: one that descends from the parent that recorded it, or from a run *)
(* that skipped it, or while its checkpoint is there, be it damaged.        *)
Knows(r, c, u) ==
    \/ c \in root[r].ancestors
    \/ \E a \in root[r].ancestors : call[a][u].status = "skipped" /\ call[a][u].of = c
    \/ TypedFile(u, Lineage(r))

TypedOnce ==
    [][\A r \in Roots, u \in Units : call[r][u].at = "admission" /\ call'[r][u].at = "launching" =>
          \A c \in Roots \ {r} :
             call[c][u].status = "completed" /\ child[c][u].source \in Typed /\ Lineage(c) = Lineage(r) =>
                ~Knows(r, c, u)]_vars
=============================================================================
