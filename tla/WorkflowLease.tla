--------------------------- MODULE WorkflowLease ---------------------------
(***************************************************************************)
(* Exclusive workspace leases and serialized same-host reclaim             *)
(* (extensions/workflows/runtime/location-state/workflow-location-lease.ts  *)
(* with workflow-lease-evidence.ts and workflow-state-files.ts).            *)
(*                                                                         *)
(* Each root run of some process wants the one workspace.  lease.json and   *)
(* reclaim.json are created exclusively and filled afterwards, so a file    *)
(* names its run and says whether its JSON is whole.  One action is one     *)
(* file operation.  The code is synchronous: the runs of one process do not *)
(* interleave inside an acquisition.                                       *)
(***************************************************************************)
EXTENDS Integers, FiniteSets

CONSTANTS Runs,          \* root runs, each with a fencing token of its own
          Processes,     \* Pi processes on the host
          HostOf,        \* the process of each run
          MaxAttempts,   \* LEASE_ACQUISITION_ATTEMPTS
          NoFile         \* an absent file

ASSUME LeaseAssumption ==
    /\ HostOf \in [Runs -> Processes]
    /\ MaxAttempts \in Nat \ {0}
    /\ NoFile \notin [run : Runs, whole : BOOLEAN]

VARIABLES lease,     \* lease.json
          guard,     \* reclaim.json
          pc,        \* where each run stands
          attempt,   \* the acquisition attempt it is in
          force,     \* whether it was launched with --force
          outcome,   \* what its guarded reclaim decided
          pid,       \* what kill(pid, 0) says of a process
          result     \* runs with a complete terminal result.json

leaseVars == <<lease, guard, pc, attempt, force, outcome, pid, result>>

File(r, whole) == [run |-> r, whole |-> whole]
Files == [run : Runs, whole : BOOLEAN]

Acquiring == {"create", "write", "read", "guard", "guardWrite", "guardWait", "reread",
              "rename", "replace", "replaceWrite", "winner", "unguard"}
Over == {"refused", "settled", "crashed"}

LeaseTypeOK ==
    /\ lease \in Files \cup {NoFile}
    /\ guard \in Files \cup {NoFile}
    /\ pc \in [Runs -> Acquiring \cup Over \cup {"idle", "held", "closing"}]
    /\ attempt \in [Runs -> 0..MaxAttempts]
    /\ force \in [Runs -> BOOLEAN]
    /\ outcome \in [Runs -> {"none", "held", "retry", "refused"}]
    /\ pid \in [Processes -> {"own", "dead", "reused", "unverifiable"}]
    /\ result \subseteq Runs

LeaseInit ==
    /\ lease = NoFile
    /\ guard = NoFile
    /\ pc = [r \in Runs |-> "idle"]
    /\ attempt = [r \in Runs |-> 0]
    /\ force = [r \in Runs |-> FALSE]
    /\ outcome = [r \in Runs |-> "none"]
    /\ pid = [p \in Processes |-> "own"]
    /\ result = {}

-----------------------------------------------------------------------------
Alive(r) == pid[HostOf[r]] = "own"

\* The process runs, and is not inside another run's acquisition.
Ready(r) ==
    /\ Alive(r)
    /\ \A q \in Runs \ {r} : HostOf[q] = HostOf[r] => pc[q] \notin Acquiring

At(r, where) == Ready(r) /\ pc[r] = where

Goto(r, where) == pc' = [pc EXCEPT ![r] = where]

(* inspectLeaseOwner(): a reused pid looks like a live owner.               *)
Liveness(r) ==
    CASE pid[HostOf[r]] \in {"own", "reused"} -> "alive"
      [] pid[HostOf[r]] = "dead" -> "dead"
      [] OTHER -> "unverifiable"

(* leaseMayBeReclaimed(): from a dead owner, and with --force from a live   *)
(* one whose terminal result is complete.                                  *)
Reclaimable(r, q) == Liveness(q) = "dead" \/ (force[r] /\ Liveness(q) = "alive" /\ q \in result)

(* The next round of the acquisition loop, or the end of its patience.      *)
Retry(r) ==
    IF attempt[r] < MaxAttempts
    THEN attempt' = [attempt EXCEPT ![r] = @ + 1] /\ Goto(r, "create")
    ELSE UNCHANGED attempt /\ Goto(r, "refused")

Begin(r) ==
    /\ At(r, "idle")
    /\ \E f \in BOOLEAN : force' = [force EXCEPT ![r] = f]
    /\ attempt' = [attempt EXCEPT ![r] = 1]
    /\ Goto(r, "create")
    /\ UNCHANGED <<lease, guard, outcome, pid, result>>

(* openSync(file, "wx"): one creator wins, the others find the file.        *)
CreateLease(r) ==
    /\ At(r, "create")
    /\ IF lease = NoFile THEN lease' = File(r, FALSE) /\ Goto(r, "write")
                         ELSE UNCHANGED lease /\ Goto(r, "read")
    /\ UNCHANGED <<guard, attempt, force, outcome, pid, result>>

(* The JSON is written and synced, or the creator removes its own file.     *)
WriteLease(r) ==
    /\ At(r, "write")
    /\ \/ lease' = File(r, TRUE) /\ Goto(r, "held")
       \/ lease' = NoFile /\ Goto(r, "refused")
    /\ UNCHANGED <<guard, attempt, force, outcome, pid, result>>

(* readLeaseRecordDuringAcquisition(): a file that vanished is another      *)
(* round, one that stays unreadable or belongs to an owner ends the launch. *)
ReadLease(r) ==
    /\ At(r, "read")
    /\ IF lease = NoFile THEN Retry(r)
       ELSE /\ Goto(r, IF lease.whole /\ Reclaimable(r, lease.run) THEN "guard" ELSE "refused")
            /\ UNCHANGED attempt
    /\ UNCHANGED <<lease, guard, force, outcome, pid, result>>

CreateGuard(r) ==
    /\ At(r, "guard")
    /\ IF guard = NoFile THEN guard' = File(r, FALSE) /\ Goto(r, "guardWrite")
                         ELSE UNCHANGED guard /\ Goto(r, "guardWait")
    /\ UNCHANGED <<lease, attempt, force, outcome, pid, result>>

(* Mutant: a reclaim waits for the guard without an end.                   *)
WaitForGuardPatiently(r) ==
    /\ At(r, "guardWait")
    /\ guard = NoFile /\ Retry(r)
    /\ UNCHANGED <<lease, guard, force, outcome, pid, result>>

(* waitForReclaimGuard(): a guard that disappears is another round, one     *)
(* that stays is somebody else's reclaim.                                  *)
WaitForGuard(r) ==
    /\ At(r, "guardWait")
    /\ IF guard = NoFile THEN Retry(r) ELSE Goto(r, "refused") /\ UNCHANGED attempt
    /\ UNCHANGED <<lease, guard, force, outcome, pid, result>>

WriteGuard(r) ==
    /\ At(r, "guardWrite")
    /\ \/ guard' = File(r, TRUE) /\ Goto(r, "reread")
       \/ guard' = NoFile /\ Goto(r, "refused")
    /\ UNCHANGED <<lease, attempt, force, outcome, pid, result>>

Decide(r, what) == outcome' = [outcome EXCEPT ![r] = what] /\ Goto(r, "unguard")

(* Mutant: the guard holder trusts what it read before it had the guard.    *)
RereadSkipped(r) ==
    /\ At(r, "reread")
    /\ Goto(r, "rename") /\ UNCHANGED outcome
    /\ UNCHANGED <<lease, guard, attempt, force, pid, result>>

(* Under the guard the lease is read and judged again.                     *)
Reread(r) ==
    /\ At(r, "reread")
    /\ IF lease = NoFile THEN Decide(r, "retry")
       ELSE IF lease.whole /\ Reclaimable(r, lease.run) THEN Goto(r, "rename") /\ UNCHANGED outcome
       ELSE Decide(r, "refused")
    /\ UNCHANGED <<lease, guard, attempt, force, pid, result>>

(* The stale lease is renamed away.  When it is gone, the path check throws *)
(* or the rename itself finds nothing.                                     *)
RenameStale(r) ==
    /\ At(r, "rename")
    /\ IF lease # NoFile THEN lease' = NoFile /\ Goto(r, "replace") /\ UNCHANGED outcome
       ELSE UNCHANGED lease /\ \E what \in {"retry", "refused"} : Decide(r, what)
    /\ UNCHANGED <<guard, attempt, force, pid, result>>

(* The replacement may lose the gap to a normal acquirer.                  *)
CreateReplacement(r) ==
    /\ At(r, "replace")
    /\ IF lease = NoFile THEN lease' = File(r, FALSE) /\ Goto(r, "replaceWrite")
                         ELSE UNCHANGED lease /\ Goto(r, "winner")
    /\ UNCHANGED <<guard, attempt, force, outcome, pid, result>>

(* It becomes durable and the stale file goes, or it is rolled back.        *)
WriteReplacement(r) ==
    /\ At(r, "replaceWrite")
    /\ \/ lease' = File(r, TRUE) /\ Decide(r, "held")
       \/ lease' = NoFile /\ Decide(r, "refused")
    /\ UNCHANGED <<guard, attempt, force, pid, result>>

ReadWinner(r) ==
    /\ At(r, "winner")
    /\ Decide(r, IF lease = NoFile THEN "retry" ELSE "refused")
    /\ UNCHANGED <<lease, guard, attempt, force, pid, result>>

(* The reclaimer removes its own guard and takes the outcome; when that     *)
(* fails it rolls the new lease back and the launch fails.                 *)
RemoveGuard(r) ==
    /\ At(r, "unguard")
    /\ \/ /\ guard' = NoFile
          /\ IF outcome[r] = "retry" THEN Retry(r) ELSE Goto(r, outcome[r]) /\ UNCHANGED attempt
          /\ UNCHANGED lease
       \/ /\ lease' = IF outcome[r] = "held" THEN NoFile ELSE lease
          /\ Goto(r, "refused")
          /\ UNCHANGED <<guard, attempt>>
    /\ UNCHANGED <<force, outcome, pid, result>>

-----------------------------------------------------------------------------
(* assertWorkflowLocationLease(): the fence a holder checks.                *)
Fenced(r) == lease = File(r, TRUE)

(* The finalizer releases the lease of a settled run, or leaks it on an I/O *)
(* error; a lease that is not its own stays.                               *)
Release(r) ==
    /\ At(r, "held")
    /\ Goto(r, "closing")
    /\ lease' \in {lease, IF Fenced(r) THEN NoFile ELSE lease}
    /\ UNCHANGED <<guard, attempt, force, outcome, pid, result>>

(* Only then does it write result.json, which may fail.                    *)
WriteResult(r) ==
    /\ At(r, "closing")
    /\ Goto(r, "settled")
    /\ result' \in {result, result \cup {r}}
    /\ UNCHANGED <<lease, guard, attempt, force, outcome, pid>>

-----------------------------------------------------------------------------
(* A process ends without running its finalizers.                          *)
Crash(p) ==
    /\ pid[p] = "own"
    /\ pid' = [pid EXCEPT ![p] = "dead"]
    /\ pc' = [r \in Runs |-> IF HostOf[r] = p /\ pc[r] \notin Over THEN "crashed" ELSE pc[r]]
    /\ UNCHANGED <<lease, guard, attempt, force, outcome, result>>

(* The number of a dead process is given to another process, which may      *)
(* belong to another user.                                                 *)
PidReused(p) ==
    /\ pid[p] = "dead"
    /\ \E how \in {"reused", "unverifiable"} : pid' = [pid EXCEPT ![p] = how]
    /\ UNCHANGED <<lease, guard, pc, attempt, force, outcome, result>>

(* The recovery of docs/workflows/running.md:223-226: an operator who finds *)
(* that the named process is gone removes exactly the named file, and not   *)
(* while a launch may be starting.                                         *)
OperatorRemoves ==
    /\ \A r \in Runs : pc[r] \notin Acquiring
    /\ \/ lease # NoFile /\ ~Alive(lease.run) /\ lease' = NoFile /\ UNCHANGED guard
       \/ guard # NoFile /\ ~Alive(guard.run) /\ guard' = NoFile /\ UNCHANGED lease
    /\ UNCHANGED <<pc, attempt, force, outcome, pid, result>>

AcquireStep(r) ==
    \/ CreateLease(r) \/ WriteLease(r) \/ ReadLease(r)
    \/ CreateGuard(r) \/ WaitForGuard(r) \/ WriteGuard(r) \/ Reread(r)
    \/ RenameStale(r) \/ CreateReplacement(r) \/ WriteReplacement(r) \/ ReadWinner(r) \/ RemoveGuard(r)

LeaseNext ==
    \/ \E r \in Runs : Begin(r) \/ AcquireStep(r) \/ Release(r) \/ WriteResult(r)
    \/ \E p \in Processes : Crash(p) \/ PidReused(p)
    \/ OperatorRemoves

LeaseSpec == LeaseInit /\ [][LeaseNext]_leaseVars

-----------------------------------------------------------------------------
(* A live owner is never displaced: through reclaims, gaps, crashes of      *)
(* others and --force its fence check succeeds until it lets go.  The fence *)
(* is one file, so the workspace has one owner.                            *)
HolderFenced == \A r \in Runs : pc[r] = "held" => Fenced(r)

(* One reclaim at a time: two runs never judge and rename the lease at once.*)
SingleReclaimer ==
    \A r, q \in Runs :
        pc[r] \in {"reread", "rename", "replace", "replaceWrite", "winner"} /\
        pc[q] \in {"reread", "rename", "replace", "replaceWrite", "winner"} => r = q

(* An acquisition never waits, not for a reclaim guard its owner died with  *)
(* and not for a peer's half-written file; its rounds are bounded by the    *)
(* type, so the workspace is taken or the launch is refused.                *)
NeverWaits == \A r \in Runs : pc[r] \in Acquiring => ENABLED AcquireStep(r)
=============================================================================
