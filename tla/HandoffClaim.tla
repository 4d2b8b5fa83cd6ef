--------------------------- MODULE HandoffClaim ---------------------------
(***************************************************************************)
(* The claim that lets one operator continue a run that awaits an answer   *)
(* (extensions/workflows/runtime/workflow-handoff.ts:420-539 and 765-901,   *)
(* launched by operator/operator-handoff-service.ts and bound and released  *)
(* by the runner and its finalizer).                                       *)
(*                                                                         *)
(* Every operator is a Pi process with one continuation run of its own. A   *)
(* transition of the claim takes the lock file, reads the claim, and checks *)
(* the lock again before it renames or unlinks; each file operation is one  *)
(* action, and another process may act between any two of them.            *)
(***************************************************************************)
EXTENDS Naturals

CONSTANTS Operators,
          NoOne              \* no file, no child, nobody

LockFiles == [owner : Operators, old : BOOLEAN]
ClaimFiles == [id : Operators, child : Operators \cup {NoOne}, expired : BOOLEAN]

ASSUME HandoffAssumption == NoOne \notin Operators \cup LockFiles \cup ClaimFiles

VARIABLES lock,        \* the claim-lock file: its owner and its age
          claim,       \* the claim file: claimId, childRunId, age
          pc,          \* where each operator's process stands
          purpose,     \* the transition it is in
          attempt,     \* the try of acquireClaimLock
          written,     \* the transition did what it was for
          child,       \* the state of the operator's continuation run
          workspace,   \* the operator whose run holds the workspace lease
          astray       \* history: a fresh lock was broken, an error was survived

handoffVars == <<lock, claim, pc, purpose, attempt, written, child, workspace, astray>>

InTransition == {"lock", "break", "locked", "unlink", "unlinkNow", "write", "rename", "unlock", "unlockNow"}

HandoffTypeOK ==
    /\ lock \in LockFiles \cup {NoOne}
    /\ claim \in ClaimFiles \cup {NoOne}
    /\ pc \in [Operators -> InTransition \cup {"idle", "claimed", "starting", "running", "done", "crashed"}]
    /\ purpose \in [Operators -> {"claim", "bind", "release"}]
    /\ attempt \in [Operators -> 0..2]
    /\ written \in [Operators -> BOOLEAN]
    /\ child \in [Operators -> {"none", "running", "erring", "completed", "failed"}]
    /\ workspace \in Operators \cup {NoOne}
    /\ astray \subseteq {"lock", "error"}

HandoffInit ==
    /\ lock = NoOne
    /\ claim = NoOne
    /\ pc = [o \in Operators |-> "idle"]
    /\ purpose = [o \in Operators |-> "claim"]
    /\ attempt = [o \in Operators |-> 0]
    /\ written = [o \in Operators |-> FALSE]
    /\ child = [o \in Operators |-> "none"]
    /\ workspace = NoOne
    /\ astray = {}

-----------------------------------------------------------------------------
Goto(o, where) == pc' = [pc EXCEPT ![o] = where]
OwnsLock(o) == lock # NoOne /\ lock.owner = o

Start(o, why) ==
    /\ purpose' = [purpose EXCEPT ![o] = why]
    /\ attempt' = [attempt EXCEPT ![o] = 1]
    /\ written' = [written EXCEPT ![o] = FALSE]
    /\ Goto(o, "lock")

(* Where the operator goes when a transition is over.  The caller of a      *)
(* failed bind lets the finalizer release the unbound claim.               *)
After(o, done) ==
    CASE purpose[o] = "claim" -> IF done THEN "claimed" ELSE "idle"
      [] purpose[o] = "bind" -> IF done THEN "running" ELSE "claimed"
      [] purpose[o] = "release" -> "idle"

(* The run starts working when its claim is bound; a run that could not     *)
(* bind fails and gives the workspace up.                                  *)
TransitionOver(o, done) ==
    /\ Goto(o, After(o, done))
    /\ child' = IF purpose[o] = "bind" /\ done THEN [child EXCEPT ![o] = "running"] ELSE child
    /\ workspace' = IF workspace = o /\ purpose[o] = "bind" /\ ~done THEN NoOne ELSE workspace

(* Mutant: a transition waits until the lock is free or old.               *)
TakeLockPatiently(o) ==
    /\ pc[o] = "lock"
    /\ IF lock = NoOne
       THEN lock' = [owner |-> o, old |-> FALSE] /\ Goto(o, "locked")
       ELSE UNCHANGED lock /\ lock.old /\ Goto(o, "break")
    /\ UNCHANGED <<claim, purpose, attempt, written, child, workspace, astray>>

(* acquireClaimLock(): exclusive creation; a fresh lock of somebody else    *)
(* ends the transition, an old one is broken and the creation tried again.  *)
TakeLock(o) ==
    /\ pc[o] = "lock"
    /\ IF lock = NoOne
       THEN lock' = [owner |-> o, old |-> FALSE] /\ Goto(o, "locked") /\ UNCHANGED <<child, workspace>>
       ELSE /\ UNCHANGED lock
            /\ IF lock.old THEN Goto(o, "break") /\ UNCHANGED <<child, workspace>> ELSE TransitionOver(o, FALSE)
    /\ UNCHANGED <<claim, purpose, attempt, written, astray>>

(* The lock file is removed by its path, whoever's it has become.           *)
BreakLock(o) ==
    /\ pc[o] = "break"
    /\ lock' = NoOne
    /\ astray' = IF lock # NoOne /\ ~lock.old THEN astray \cup {"lock"} ELSE astray
    /\ IF attempt[o] < 2
       THEN attempt' = [attempt EXCEPT ![o] = 2] /\ Goto(o, "lock") /\ UNCHANGED <<child, workspace>>
       ELSE TransitionOver(o, FALSE) /\ UNCHANGED attempt
    /\ UNCHANGED <<claim, purpose, written>>

(* readWorkflowRunSummary(): without a result, an error line reads as a     *)
(* failed run.                                                             *)
ReadsAsFailed(c) == child[c] \in {"failed", "erring"}

Takeable == IF claim.child = NoOne THEN claim.expired ELSE ReadsAsFailed(claim.child)

(* Mutant: bind does not ask whose claim it has read.                      *)
JudgeAnyClaim(o) ==
    /\ pc[o] = "locked"
    /\ Goto(o, CASE purpose[o] = "claim" -> IF claim = NoOne THEN "write" ELSE IF Takeable THEN "unlink" ELSE "unlock"
                 [] purpose[o] = "bind" -> IF claim # NoOne THEN "write" ELSE "unlock"
                 [] purpose[o] = "release" -> IF claim # NoOne /\ claim.id = o THEN "unlink" ELSE "unlock")
    /\ UNCHANGED <<lock, claim, purpose, attempt, written, child, workspace, astray>>

(* Under the lock the claim is read and judged by what the transition is    *)
(* for: a free or takeable claim, or one that is still the operator's own.  *)
Judge(o) ==
    /\ pc[o] = "locked"
    /\ Goto(o, CASE purpose[o] = "claim" -> IF claim = NoOne THEN "write" ELSE IF Takeable THEN "unlink" ELSE "unlock"
                 [] purpose[o] = "bind" -> IF claim # NoOne /\ claim.id = o THEN "write" ELSE "unlock"
                 [] purpose[o] = "release" -> IF claim # NoOne /\ claim.id = o THEN "unlink" ELSE "unlock")
    /\ UNCHANGED <<lock, claim, purpose, attempt, written, child, workspace, astray>>

(* assertClaimLockOwned(), and then the mutation it guards.                *)
CheckLock(o) ==
    /\ \/ pc[o] = "unlink" /\ Goto(o, IF OwnsLock(o) THEN "unlinkNow" ELSE "unlock")
       \/ pc[o] = "write" /\ Goto(o, IF OwnsLock(o) THEN "rename" ELSE "unlock")
    /\ UNCHANGED <<lock, claim, purpose, attempt, written, child, workspace, astray>>

UnlinkClaim(o) ==
    /\ pc[o] = "unlinkNow"
    /\ claim' = NoOne
    /\ IF purpose[o] = "claim" THEN Goto(o, "write") /\ UNCHANGED written
       ELSE Goto(o, "unlock") /\ written' = [written EXCEPT ![o] = TRUE]
    /\ UNCHANGED <<lock, purpose, attempt, child, workspace, astray>>

RenameClaim(o) ==
    /\ pc[o] = "rename"
    /\ claim' = [id |-> o, child |-> IF purpose[o] = "bind" THEN o ELSE NoOne, expired |-> FALSE]
    /\ written' = [written EXCEPT ![o] = TRUE]
    /\ Goto(o, "unlock")
    /\ UNCHANGED <<lock, purpose, attempt, child, workspace, astray>>

(* releaseClaimLock(): the lock is removed only when it reads as its own.   *)
CheckUnlock(o) ==
    /\ pc[o] = "unlock"
    /\ IF OwnsLock(o) THEN Goto(o, "unlockNow") /\ UNCHANGED <<child, workspace>>
                      ELSE TransitionOver(o, written[o])
    /\ UNCHANGED <<lock, claim, purpose, attempt, written, astray>>

Unlock(o) ==
    /\ pc[o] = "unlockNow"
    /\ lock' = NoOne
    /\ TransitionOver(o, written[o])
    /\ UNCHANGED <<claim, purpose, attempt, written, astray>>

-----------------------------------------------------------------------------
(* The operator answers: claimWorkflowOperatorHandoff().                   *)
Claim(o) ==
    /\ pc[o] = "idle"
    /\ Start(o, "claim")
    /\ UNCHANGED <<lock, claim, child, workspace, astray>>

(* The continuation did not start, or its run failed before the bind:       *)
(* releaseWorkflowHandoffClaim().                                          *)
ReleaseUnbound(o) ==
    /\ pc[o] = "claimed"
    /\ Start(o, "release")
    /\ UNCHANGED <<lock, claim, child, workspace, astray>>

(* The run takes the workspace lease before it touches the claim.           *)
TakeWorkspace(o) ==
    /\ pc[o] = "claimed" /\ workspace = NoOne
    /\ workspace' = o
    /\ Goto(o, "starting")
    /\ UNCHANGED <<lock, claim, purpose, attempt, written, child, astray>>

(* bindWorkflowHandoffClaim().                                             *)
Bind(o) ==
    /\ pc[o] = "starting"
    /\ Start(o, "bind")
    /\ UNCHANGED <<lock, claim, child, workspace, astray>>

(* A failed agent call that the script survives journals an error line.     *)
JournalError(o) ==
    /\ child[o] = "running" /\ pc[o] = "running"
    /\ child' = [child EXCEPT ![o] = "erring"]
    /\ astray' = astray \cup {"error"}
    /\ UNCHANGED <<lock, claim, pc, purpose, attempt, written, workspace>>

(* The run settles, gives the workspace up and writes its result.           *)
EndRun(o) ==
    /\ pc[o] = "running"
    /\ \E how \in {"completed", "failed"} : child' = [child EXCEPT ![o] = how]
    /\ workspace' = IF workspace = o THEN NoOne ELSE workspace
    /\ Goto(o, "done")
    /\ UNCHANGED <<lock, claim, purpose, attempt, written, astray>>

-----------------------------------------------------------------------------
(* A process dies; its workspace lease is reclaimable, its files stay.      *)
Crash(o) ==
    /\ pc[o] \notin {"done", "crashed"}
    /\ Goto(o, "crashed")
    /\ workspace' = IF workspace = o THEN NoOne ELSE workspace
    /\ UNCHANGED <<lock, claim, purpose, attempt, written, child, astray>>

(* The claim grows older than its pre-start lease.                         *)
ExpireClaim ==
    /\ claim # NoOne /\ ~claim.expired
    /\ claim' = [claim EXCEPT !.expired = TRUE]
    /\ UNCHANGED <<lock, pc, purpose, attempt, written, child, workspace, astray>>

(* The lock lease runs out.  A transition of a live process takes far less  *)
(* than its 30 seconds, so the owner is dead.                              *)
AgeLock ==
    /\ lock # NoOne /\ ~lock.old
    /\ pc[lock.owner] = "crashed"
    /\ lock' = [lock EXCEPT !.old = TRUE]
    /\ UNCHANGED <<claim, pc, purpose, attempt, written, child, workspace, astray>>

TransitionStep(o) ==
    \/ TakeLock(o) \/ BreakLock(o) \/ Judge(o) \/ CheckLock(o)
    \/ UnlinkClaim(o) \/ RenameClaim(o) \/ CheckUnlock(o) \/ Unlock(o)

HandoffNext ==
    \/ \E o \in Operators :
          \/ TransitionStep(o)
          \/ Claim(o) \/ ReleaseUnbound(o) \/ TakeWorkspace(o) \/ Bind(o)
          \/ JournalError(o) \/ EndRun(o) \/ Crash(o)
    \/ ExpireClaim
    \/ AgeLock

HandoffSpec == HandoffInit /\ [][HandoffNext]_handoffVars

-----------------------------------------------------------------------------
(* "only a `failed` or `cancelled` child releases the claim"                *)
(* (workflow-handoff.ts:86-87): a continuation at work is the one the claim  *)
(* names, and nobody can take the claim from it.                           *)
LiveRunKeepsClaim ==
    \A o \in Operators : pc[o] = "running" => claim # NoOne /\ claim.child = o

(* The answer is given once: whatever operators race, take over and retry, *)
(* at most one continuation that was not killed is at work or has completed *)
(* (the claim is what workflow-handoff.ts:420-470 hands out), and the one at *)
(* work keeps the claim, as long as neither a fresh lock was broken nor an  *)
(* error survived.                                                         *)
AnsweredOnce ==
    astray = {} =>
    /\ LiveRunKeepsClaim
    /\ \A o, q \in Operators :
        child[o] \in {"running", "erring", "completed"} /\ child[q] \in {"running", "erring", "completed"} /\
        pc[o] # "crashed" /\ pc[q] # "crashed" => o = q

(* A transition never waits for a peer, not even for one that died with the *)
(* lock (workflow-handoff.ts:804-831); its tries are bounded by the type.   *)
NeverWaits == \A o \in Operators : pc[o] \in InTransition => ENABLED TransitionStep(o)
=============================================================================
