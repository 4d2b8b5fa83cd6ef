--------------------- MODULE WorkflowConcurrency_proofs ---------------------
(***************************************************************************)
(* Proofs about what runs at the same time, in two chapters: the runs that  *)
(* contend for the lease of one workspace, and the groups of branches that  *)
(* one run works on.  The two have no state in common.                     *)
(***************************************************************************)
EXTENDS WorkflowLease, WorkflowGroups, FiniteSetTheorems, WellFoundedInduction, TLAPS

-----------------------------------------------------------------------------
(***************************************************************************)
(* Proofs about the workspace lease, for every set of runs, processes and   *)
(* attempts.                                                               *)
(*                                                                         *)
(* Each file has at any time at most one run that is entitled to touch it:  *)
(* its creator until it lets go, and for a stale lease the run that owns    *)
(* the guard.  A stale lease is one whose run is over, and it stays so,     *)
(* which is why a decision taken before the rename still holds at it.       *)
(***************************************************************************)

\* Who creates the guard owns it until it removes it.
GuardOwned ==
    \A r \in Runs :
       /\ pc[r] = "guardWrite" => guard = File(r, FALSE)
       /\ pc[r] \in {"reread", "rename", "replace", "replaceWrite", "winner", "unguard"} => guard = File(r, TRUE)

\* Who creates the lease owns it until it releases it.
LeaseOwned ==
    \A r \in Runs :
       /\ pc[r] \in {"write", "replaceWrite"} => lease = File(r, FALSE)
       /\ pc[r] = "held" => lease = File(r, TRUE)
       /\ pc[r] = "unguard" /\ outcome[r] = "held" => lease = File(r, TRUE)

\* Who is to remove its guard has decided.
Decided == \A r \in Runs : pc[r] = "unguard" => outcome[r] # "none"

\* The lease that is about to be renamed away belongs to a run that is over.
StaleFound ==
    \A r \in Runs : pc[r] = "rename" => lease # NoFile /\ pc[lease.run] \in Over

\* A run whose process is gone, or that has its result, is over.
GoneEnded == \A r \in Runs : ~Alive(r) \/ r \in result => pc[r] \in Over

LeaseInv == LeaseTypeOK /\ GuardOwned /\ LeaseOwned /\ Decided /\ StaleFound /\ GoneEnded

LEMMA FilesDiffer ==
  /\ \A r \in Runs, w \in BOOLEAN : File(r, w) \in Files /\ File(r, w).run = r /\ File(r, w) # NoFile
  /\ \A r, q \in Runs, v, w \in BOOLEAN : File(r, v) = File(q, w) => r = q /\ v = w
  /\ NoFile \notin Files /\ \A f \in Files : f.run \in Runs
<1>1. \A r \in Runs, w \in BOOLEAN : File(r, w) \in Files /\ File(r, w).run = r /\ File(r, w).whole = w
  BY DEF File, Files
<1> QED
  BY <1>1, LeaseAssumption DEF Files

LEMMA InitLease == LeaseInit => LeaseInv
BY LeaseAssumption DEF LeaseInit, LeaseInv, LeaseTypeOK, GuardOwned, LeaseOwned, Decided, StaleFound, GoneEnded,
                         Alive, Acquiring, Over

-----------------------------------------------------------------------------
Places == Acquiring \cup Over \cup {"idle", "held", "closing"}
Guarding(r) == pc[r] \in {"reread", "rename", "replace", "replaceWrite", "winner", "unguard"}
Owning(r) == pc[r] \in {"write", "replaceWrite", "held"} \/ (pc[r] = "unguard" /\ outcome[r] = "held")

\* One run moves, and what it leaves behind is of the right type.
Moves(r) ==
    /\ pc[r] \notin Over /\ pid' = pid
    /\ pc' \in [Runs -> Places] /\ \A q \in Runs \ {r} : pc'[q] = pc[q] /\ outcome'[q] = outcome[q]
    /\ attempt' \in [Runs -> 0..MaxAttempts] /\ force' \in [Runs -> BOOLEAN]
    /\ outcome' \in [Runs -> {"none", "held", "retry", "refused"}]
    /\ result' = result \/ (result' = result \cup {r} /\ pc'[r] = "settled")
    /\ pc'[r] = "unguard" => outcome'[r] # "none"

\* It creates the guard, fills it, removes it, or leaves it alone.
GuardEffect(r) ==
    \/ guard' = guard /\ (Guarding(r)' => Guarding(r)) /\ pc'[r] # "guardWrite"
    \/ guard = NoFile /\ guard' = File(r, FALSE) /\ pc'[r] = "guardWrite"
    \/ pc[r] = "guardWrite" /\ guard' = File(r, TRUE) /\ pc'[r] = "reread"
    \/ (pc[r] = "guardWrite" \/ Guarding(r)) /\ guard' = NoFile /\ ~Guarding(r)' /\ pc'[r] # "guardWrite"

\* It creates the lease, fills it, removes its own or a stale one, or leaves it alone.
LeaseEffect(r) ==
    \/ lease' = lease /\ (Owning(r)' => pc[r] = "unguard" /\ Owning(r) /\ pc'[r] = "held")
       /\ (pc'[r] = "rename" => lease # NoFile /\ pc[lease.run] \in Over)
    \/ lease = NoFile /\ lease' = File(r, FALSE) /\ pc'[r] \in {"write", "replaceWrite"}
    \/ pc[r] \in {"write", "replaceWrite"} /\ lease' = File(r, TRUE) /\ pc'[r] \in {"held", "unguard"}
    \/ (Owning(r) \/ pc[r] = "rename") /\ lease' = NoFile /\ ~Owning(r)' /\ pc'[r] # "rename"

LEMMA GotoMoves ==
  ASSUME LeaseTypeOK, NEW r \in Runs, NEW to \in Places, Goto(r, to)
  PROVE  pc' \in [Runs -> Places] /\ pc'[r] = to /\ \A q \in Runs \ {r} : pc'[q] = pc[q]
BY DEF LeaseTypeOK, Goto, Places

LEMMA Effects ==
  ASSUME LeaseInv, NEW r \in Runs, Begin(r) \/ AcquireStep(r) \/ Release(r) \/ WriteResult(r)
  PROVE  Moves(r) /\ GuardEffect(r) /\ LeaseEffect(r)
<1>t. /\ LeaseTypeOK /\ pc \in [Runs -> Places] /\ attempt \in [Runs -> 0..MaxAttempts] /\ force \in [Runs -> BOOLEAN]
      /\ outcome \in [Runs -> {"none", "held", "retry", "refused"}] /\ MaxAttempts \in Nat \ {0}
  BY LeaseAssumption DEF LeaseInv, LeaseTypeOK, Places
<1>m. \A to \in Places : Goto(r, to) => pc' \in [Runs -> Places] /\ pc'[r] = to /\ \A q \in Runs \ {r} : pc'[q] = pc[q]
  BY <1>t, GotoMoves
<1>p. Acquiring \subseteq Places /\ Over \subseteq Places /\ {"idle", "held", "closing"} \subseteq Places
  BY DEF Places
<1>r. lease # NoFile /\ Reclaimable(r, lease.run) => pc[lease.run] \in Over
  BY FilesDiffer DEF LeaseInv, LeaseTypeOK, GoneEnded, Alive, Reclaimable, Liveness
<1>1. CASE Begin(r)
  <2>1. pc[r] = "idle" /\ Goto(r, "create") /\ UNCHANGED <<lease, guard, outcome, pid, result>>
    BY <1>1 DEF Begin, At
  <2>2. force' \in [Runs -> BOOLEAN] /\ attempt' \in [Runs -> 0..MaxAttempts]
    BY <1>1, <1>t DEF Begin
  <2>3. pc' \in [Runs -> Places] /\ pc'[r] = "create" /\ \A q \in Runs \ {r} : pc'[q] = pc[q]
    BY <1>m, <1>p, <2>1 DEF Acquiring
  <2> QED
    BY <1>t, <2>1, <2>2, <2>3 DEF Moves, GuardEffect, LeaseEffect, Guarding, Owning, Acquiring, Over
<1>2. CASE CreateLease(r)
  <2> USE <1>2, <1>t DEF CreateLease, At
  <2> QED
    BY <1>m, <1>p, <1>r DEF Moves, GuardEffect, LeaseEffect, Guarding, Owning, Acquiring, Over
<1>3. CASE WriteLease(r)
  <2> USE <1>3, <1>t DEF WriteLease, At
  <2> QED
    BY <1>m, <1>p, <1>r DEF Moves, GuardEffect, LeaseEffect, Guarding, Owning, Acquiring, Over
<1>4. CASE ReadLease(r)
  <2>1. pc[r] = "read" /\ UNCHANGED <<lease, guard, force, outcome, pid, result>>
    BY <1>4 DEF ReadLease, At
  <2>2. attempt' \in [Runs -> 0..MaxAttempts]
    BY <1>4, <1>t DEF ReadLease, Retry
  <2>3. Goto(r, "create") \/ Goto(r, "refused") \/ Goto(r, "guard")
    BY <1>4 DEF ReadLease, Retry
  <2>4. /\ pc' \in [Runs -> Places] /\ pc'[r] \in {"create", "refused", "guard"}
        /\ \A q \in Runs \ {r} : pc'[q] = pc[q]
    BY <1>m, <1>p, <2>3 DEF Acquiring, Over
  <2> QED
    BY <1>t, <2>1, <2>2, <2>4 DEF Moves, GuardEffect, LeaseEffect, Guarding, Owning, Acquiring, Over
<1>5. CASE CreateGuard(r)
  <2>1. pc[r] = "guard" /\ UNCHANGED <<lease, attempt, force, outcome, pid, result>>
    BY <1>5 DEF CreateGuard, At
  <2>2. CASE guard = NoFile /\ guard' = File(r, FALSE) /\ Goto(r, "guardWrite")
    <3>1. pc' \in [Runs -> Places] /\ pc'[r] = "guardWrite" /\ \A q \in Runs \ {r} : pc'[q] = pc[q]
      BY <1>m, <1>p, <2>2 DEF Acquiring
    <3> QED
      BY <1>t, <2>1, <2>2, <3>1 DEF Moves, GuardEffect, LeaseEffect, Guarding, Owning, Acquiring, Over
  <2>3. CASE guard' = guard /\ Goto(r, "guardWait")
    <3>1. pc' \in [Runs -> Places] /\ pc'[r] = "guardWait" /\ \A q \in Runs \ {r} : pc'[q] = pc[q]
      BY <1>m, <1>p, <2>3 DEF Acquiring
    <3> QED
      BY <1>t, <2>1, <2>3, <3>1 DEF Moves, GuardEffect, LeaseEffect, Guarding, Owning, Acquiring, Over
  <2> QED
    BY <1>5, <2>2, <2>3 DEF CreateGuard
<1>6. CASE WaitForGuard(r)
  <2>1. pc[r] = "guardWait" /\ UNCHANGED <<lease, guard, force, outcome, pid, result>>
    BY <1>6 DEF WaitForGuard, At
  <2>2. attempt' \in [Runs -> 0..MaxAttempts]
    BY <1>6, <1>t DEF WaitForGuard, Retry
  <2>3. Goto(r, "create") \/ Goto(r, "refused")
    BY <1>6 DEF WaitForGuard, Retry
  <2>4. /\ pc' \in [Runs -> Places] /\ pc'[r] \in {"create", "refused"}
        /\ \A q \in Runs \ {r} : pc'[q] = pc[q]
    BY <1>m, <1>p, <2>3 DEF Acquiring, Over
  <2> QED
    BY <1>t, <2>1, <2>2, <2>4 DEF Moves, GuardEffect, LeaseEffect, Guarding, Owning, Acquiring, Over
<1>7. CASE WriteGuard(r)
  <2>1. pc[r] = "guardWrite" /\ UNCHANGED <<lease, attempt, force, outcome, pid, result>>
    BY <1>7 DEF WriteGuard, At
  <2>2. CASE guard' = File(r, TRUE) /\ Goto(r, "reread")
    <3>1. pc' \in [Runs -> Places] /\ pc'[r] = "reread" /\ \A q \in Runs \ {r} : pc'[q] = pc[q]
      BY <1>m, <1>p, <2>2 DEF Acquiring
    <3> QED
      BY <1>t, <2>1, <2>2, <3>1 DEF Moves, GuardEffect, LeaseEffect, Guarding, Owning, Acquiring, Over
  <2>3. CASE guard' = NoFile /\ Goto(r, "refused")
    <3>1. pc' \in [Runs -> Places] /\ pc'[r] = "refused" /\ \A q \in Runs \ {r} : pc'[q] = pc[q]
      BY <1>m, <1>p, <2>3 DEF Over
    <3> QED
      BY <1>t, <2>1, <2>3, <3>1 DEF Moves, GuardEffect, LeaseEffect, Guarding, Owning, Acquiring, Over
  <2> QED
    BY <1>7, <2>2, <2>3 DEF WriteGuard
<1>8. CASE Reread(r)
  <2> USE <1>8, <1>t DEF Reread, At, Decide
  <2> QED
    BY <1>m, <1>p, <1>r DEF Moves, GuardEffect, LeaseEffect, Guarding, Owning, Acquiring, Over
<1>9. CASE RenameStale(r)
  <2> USE <1>9, <1>t DEF RenameStale, At, Decide
  <2> QED
    BY <1>m, <1>p, <1>r DEF Moves, GuardEffect, LeaseEffect, Guarding, Owning, Acquiring, Over
<1>10. CASE CreateReplacement(r)
  <2> USE <1>10, <1>t DEF CreateReplacement, At
  <2> QED
    BY <1>m, <1>p, <1>r DEF Moves, GuardEffect, LeaseEffect, Guarding, Owning, Acquiring, Over
<1>11. CASE WriteReplacement(r)
  <2> USE <1>11, <1>t DEF WriteReplacement, At, Decide
  <2> QED
    BY <1>m, <1>p, <1>r DEF Moves, GuardEffect, LeaseEffect, Guarding, Owning, Acquiring, Over
<1>12. CASE ReadWinner(r)
  <2> USE <1>12, <1>t DEF ReadWinner, At, Decide
  <2> QED
    BY <1>m, <1>p, <1>r DEF Moves, GuardEffect, LeaseEffect, Guarding, Owning, Acquiring, Over
<1>13. CASE RemoveGuard(r)
  <2>1. pc[r] = "unguard" /\ UNCHANGED <<force, outcome, pid, result>>
    BY <1>13 DEF RemoveGuard, At
  <2>2. CASE guard' = NoFile /\ outcome[r] = "retry" /\ Retry(r) /\ lease' = lease
    <3>1. attempt' \in [Runs -> 0..MaxAttempts]
      BY <1>t, <2>2 DEF Retry
    <3>2. /\ pc' \in [Runs -> Places] /\ pc'[r] \in {"create", "refused"}
          /\ \A q \in Runs \ {r} : pc'[q] = pc[q]
      BY <1>m, <1>p, <2>2 DEF Retry, Acquiring, Over
    <3> QED
      BY <1>t, <2>1, <2>2, <3>1, <3>2 DEF Moves, GuardEffect, LeaseEffect, Guarding, Owning, Acquiring, Over
  <2>3. CASE guard' = NoFile /\ outcome[r] # "retry" /\ Goto(r, outcome[r]) /\ UNCHANGED <<attempt, lease>>
    <3>1. outcome[r] \in {"held", "refused"}
      BY <1>13, <2>1, <2>3, <1>t DEF LeaseInv, Decided
    <3>2. /\ pc' \in [Runs -> Places] /\ pc'[r] = outcome[r] /\ \A q \in Runs \ {r} : pc'[q] = pc[q]
      BY <1>m, <1>p, <2>3, <3>1 DEF Over
    <3> QED
      BY <1>t, <2>1, <2>3, <3>1, <3>2 DEF Moves, GuardEffect, LeaseEffect, Guarding, Owning, Acquiring, Over
  <2>4. CASE Goto(r, "refused") /\ UNCHANGED <<guard, attempt>> /\ lease' = IF outcome[r] = "held" THEN NoFile ELSE lease
    <3>1. pc' \in [Runs -> Places] /\ pc'[r] = "refused" /\ \A q \in Runs \ {r} : pc'[q] = pc[q]
      BY <1>m, <1>p, <2>4 DEF Over
    <3> QED
      BY <1>t, <2>1, <2>4, <3>1 DEF Moves, GuardEffect, LeaseEffect, Guarding, Owning, Acquiring, Over
  <2> QED
    BY <1>13, <2>2, <2>3, <2>4 DEF RemoveGuard
<1>14. CASE Release(r)
  <2> USE <1>14, <1>t DEF Release, At, Fenced
  <2> QED
    BY <1>m, <1>p, <1>r DEF Moves, GuardEffect, LeaseEffect, Guarding, Owning, Acquiring, Over
<1>15. CASE WriteResult(r)
  <2> USE <1>15, <1>t DEF WriteResult, At
  <2> QED
    BY <1>m, <1>p, <1>r DEF Moves, GuardEffect, LeaseEffect, Guarding, Owning, Acquiring, Over
<1> QED
  BY <1>1, <1>2, <1>3, <1>4, <1>5, <1>6, <1>7, <1>8, <1>9, <1>10, <1>11, <1>12, <1>13, <1>14, <1>15 DEF AcquireStep

-----------------------------------------------------------------------------
\* The other steps: processes end, files are recovered, or nothing happens.
Outside == (\E p \in Processes : Crash(p) \/ PidReused(p)) \/ OperatorRemoves \/ UNCHANGED leaseVars

LEMMA LeaseSteps ==
  ASSUME LeaseInv, [LeaseNext]_leaseVars
  PROVE  Outside \/ \E r \in Runs : Moves(r) /\ GuardEffect(r) /\ LeaseEffect(r)
BY Effects DEF LeaseNext, Outside

\* A process that ends takes its runs along, and a file is removed only under
\* a run that is over.
LEMMA OutsideEffect ==
  ASSUME LeaseInv, Outside
  PROVE  /\ \A r \in Runs : pc'[r] = pc[r] \/ (pc[r] \notin Over /\ pc'[r] = "crashed")
         /\ pc' \in [Runs -> Places] /\ UNCHANGED <<outcome, result, attempt, force>>
         /\ pid' \in [Processes -> {"own", "dead", "reused", "unverifiable"}]
         /\ guard' = guard \/ (guard' = NoFile /\ \A r \in Runs : pc[r] \notin Acquiring)
         /\ lease' = lease \/ (lease' = NoFile /\ lease \in Files /\ pc[lease.run] \in Over
                                 /\ \A r \in Runs : pc[r] \notin Acquiring)
         /\ GoneEnded'
<1>t. pc \in [Runs -> Places] /\ pid \in [Processes -> {"own", "dead", "reused", "unverifiable"}] /\ GoneEnded
      /\ HostOf \in [Runs -> Processes] /\ "crashed" \in Over /\ "crashed" \in Places /\ lease \in Files \cup {NoFile}
  BY LeaseAssumption DEF LeaseInv, LeaseTypeOK, Places, Over
<1>1. ASSUME NEW p \in Processes, Crash(p)
      PROVE  /\ pc' \in [Runs -> Places] /\ GoneEnded'
             /\ pid' \in [Processes -> {"own", "dead", "reused", "unverifiable"}]
             /\ \A r \in Runs : pc'[r] = pc[r] \/ (pc[r] \notin Over /\ pc'[r] = "crashed")
  BY <1>t, <1>1 DEF Crash, GoneEnded, Alive
<1>2. ASSUME NEW p \in Processes, PidReused(p)
      PROVE  GoneEnded' /\ pid' \in [Processes -> {"own", "dead", "reused", "unverifiable"}]
  BY <1>t, <1>2 DEF PidReused, GoneEnded, Alive
<1>3. CASE OperatorRemoves
  <2>1. lease # NoFile /\ ~Alive(lease.run) => pc[lease.run] \in Over
    BY <1>t, FilesDiffer DEF GoneEnded
  <2>2. GoneEnded'
    BY <1>t, <1>3 DEF OperatorRemoves, GoneEnded, Alive
  <2> QED
    BY <1>t, <1>3, <2>1, <2>2 DEF OperatorRemoves
<1>4. CASE UNCHANGED leaseVars
  BY <1>t, <1>4 DEF leaseVars, GoneEnded, Alive
<1> QED
  BY <1>t, <1>1, <1>2, <1>3, <1>4 DEF Outside, Crash, PidReused

LEMMA LeaseTypeStep == LeaseInv /\ [LeaseNext]_leaseVars => LeaseTypeOK'
<1> SUFFICES ASSUME LeaseInv, [LeaseNext]_leaseVars PROVE LeaseTypeOK'
  OBVIOUS
<1>t. LeaseTypeOK
  BY DEF LeaseInv
<1>f. \A r \in Runs, w \in BOOLEAN : File(r, w) \in Files
  BY FilesDiffer
<1>1. ASSUME NEW r \in Runs, Moves(r), GuardEffect(r), LeaseEffect(r) PROVE LeaseTypeOK'
  <2>1. lease' \in Files \cup {NoFile} /\ guard' \in Files \cup {NoFile}
    BY <1>t, <1>f, <1>1 DEF GuardEffect, LeaseEffect, LeaseTypeOK
  <2> QED
    BY <1>t, <1>1, <2>1 DEF Moves, LeaseTypeOK, Places
<1>2. CASE Outside
  BY <1>t, <1>2, OutsideEffect DEF LeaseTypeOK, Places
<1> QED
  BY <1>1, <1>2, LeaseSteps

LEMMA GuardOwnedStep == LeaseInv /\ [LeaseNext]_leaseVars => GuardOwned'
<1> SUFFICES ASSUME LeaseInv, [LeaseNext]_leaseVars PROVE GuardOwned'
  OBVIOUS
<1>t. GuardOwned
  BY DEF LeaseInv
<1>o. \A r \in Runs : pc[r] = "guardWrite" \/ Guarding(r) => guard # NoFile /\ guard.run = r
  BY <1>t, FilesDiffer DEF GuardOwned, Guarding
<1>1. ASSUME NEW r \in Runs, Moves(r), GuardEffect(r) PROVE GuardOwned'
  <2>1. ASSUME NEW q \in Runs \ {r}, pc[q] = "guardWrite" \/ Guarding(q) PROVE guard' = guard
    <3>1. pc[r] # "guardWrite" /\ ~Guarding(r) /\ guard # NoFile
      BY <1>o, <2>1
    <3> QED
      BY <1>1, <3>1 DEF GuardEffect
  <2>2. \A q \in Runs \ {r} : pc'[q] = pc[q]
    BY <1>1 DEF Moves
  <2>3. (pc'[r] = "guardWrite" => guard' = File(r, FALSE)) /\ (Guarding(r)' => guard' = File(r, TRUE))
    BY <1>t, <1>1 DEF GuardEffect, GuardOwned, Guarding
  <2> QED
    BY <1>t, <2>1, <2>2, <2>3 DEF GuardOwned, Guarding
<1>2. CASE Outside
  BY <1>t, <1>2, OutsideEffect DEF GuardOwned, Acquiring
<1> QED
  BY <1>1, <1>2, LeaseSteps

LEMMA LeaseOwnedStep == LeaseInv /\ [LeaseNext]_leaseVars => LeaseOwned'
<1> SUFFICES ASSUME LeaseInv, [LeaseNext]_leaseVars PROVE LeaseOwned'
  OBVIOUS
<1>t. LeaseOwned /\ StaleFound
  BY DEF LeaseInv
<1>o. \A r \in Runs : Owning(r) => lease # NoFile /\ lease.run = r /\ pc[r] \notin Over
  <2> TAKE r \in Runs
  <2>1. Owning(r) => lease = File(r, TRUE) \/ lease = File(r, FALSE)
    BY <1>t DEF LeaseOwned, Owning
  <2>2. Owning(r) => pc[r] \notin Over
    BY DEF Owning, Over
  <2> QED
    BY <2>1, <2>2, FilesDiffer
<1>1. ASSUME NEW r \in Runs, Moves(r), LeaseEffect(r) PROVE LeaseOwned'
  <2>1. ASSUME NEW q \in Runs \ {r}, Owning(q) PROVE lease' = lease
    <3>1. ~Owning(r) /\ pc[r] \notin {"write", "replaceWrite", "rename"} /\ lease # NoFile
      BY <1>t, <1>o, <2>1 DEF StaleFound, Owning
    <3> QED
      BY <1>1, <3>1 DEF LeaseEffect
  <2>2. \A q \in Runs \ {r} : pc'[q] = pc[q] /\ outcome'[q] = outcome[q]
    BY <1>1 DEF Moves
  <2>3. /\ pc'[r] \in {"write", "replaceWrite"} => lease' = File(r, FALSE)
        /\ pc'[r] = "held" => lease' = File(r, TRUE)
        /\ pc'[r] = "unguard" /\ outcome'[r] = "held" => lease' = File(r, TRUE)
    BY <1>t, <1>1 DEF LeaseEffect, LeaseOwned, Owning
  <2> QED
    BY <1>t, <2>1, <2>2, <2>3 DEF LeaseOwned, Owning
<1>2. CASE Outside
  BY <1>t, <1>o, <1>2, OutsideEffect DEF LeaseOwned, Owning, Acquiring
<1> QED
  BY <1>1, <1>2, LeaseSteps

LEMMA StaleFoundStep == LeaseInv /\ [LeaseNext]_leaseVars => StaleFound' /\ Decided'
<1> SUFFICES ASSUME LeaseInv, [LeaseNext]_leaseVars PROVE StaleFound' /\ Decided'
  OBVIOUS
<1>t. LeaseOwned /\ StaleFound /\ GuardOwned /\ Decided /\ LeaseTypeOK
  BY DEF LeaseInv
<1>o. \A r \in Runs : Owning(r) => lease # NoFile /\ lease.run = r /\ pc[r] \notin Over
  <2> TAKE r \in Runs
  <2>1. Owning(r) => lease = File(r, TRUE) \/ lease = File(r, FALSE)
    BY <1>t DEF LeaseOwned, Owning
  <2>2. Owning(r) => pc[r] \notin Over
    BY DEF Owning, Over
  <2> QED
    BY <2>1, <2>2, FilesDiffer
<1>1. ASSUME NEW r \in Runs, Moves(r), LeaseEffect(r) PROVE StaleFound' /\ Decided'
  <2>1. ASSUME NEW q \in Runs \ {r}, pc[q] = "rename" PROVE lease' = lease
    <3>1. pc[r] # "rename"
      BY <1>t, <2>1, FilesDiffer DEF GuardOwned
    <3>2. ~Owning(r) /\ pc[r] \notin {"write", "replaceWrite"} /\ lease # NoFile
      BY <1>t, <1>o, <2>1 DEF StaleFound, Owning
    <3> QED
      BY <1>1, <3>1, <3>2 DEF LeaseEffect
  <2>2. \A q \in Runs \ {r} : pc'[q] = pc[q] /\ outcome'[q] = outcome[q]
    BY <1>1 DEF Moves
  <2>3. lease # NoFile /\ pc[lease.run] \in Over => lease.run \in Runs \ {r}
    BY <1>t, <1>1, FilesDiffer DEF Moves, LeaseTypeOK
  <2>4. pc'[r] = "rename" => lease' = lease /\ lease # NoFile /\ pc[lease.run] \in Over
    BY <1>1 DEF LeaseEffect
  <2>5. StaleFound'
    BY <1>t, <2>1, <2>2, <2>3, <2>4 DEF StaleFound
  <2> QED
    BY <1>t, <1>1, <2>2, <2>5 DEF Decided, Moves
<1>2. CASE Outside
  <2>1. \A r \in Runs : pc'[r] \in {"rename", "unguard"} => pc[r] = pc'[r]
    BY <1>2, OutsideEffect
  <2>2. \A r \in Runs : pc[r] \in Over => pc'[r] = pc[r]
    BY <1>2, OutsideEffect
  <2>3. \A r \in Runs : pc[r] = "rename" => lease' = lease /\ lease.run \in Runs
    BY <1>t, <1>2, OutsideEffect, FilesDiffer DEF Acquiring, StaleFound, LeaseTypeOK
  <2>4. outcome' = outcome
    BY <1>2, OutsideEffect
  <2> QED
    BY <1>t, <2>1, <2>2, <2>3, <2>4 DEF StaleFound, Decided
<1> QED
  BY <1>1, <1>2, LeaseSteps

LEMMA GoneEndedStep == LeaseInv /\ [LeaseNext]_leaseVars => GoneEnded'
<1> SUFFICES ASSUME LeaseInv, [LeaseNext]_leaseVars PROVE GoneEnded'
  OBVIOUS
<1>1. ASSUME NEW r \in Runs, Moves(r) PROVE GoneEnded'
  BY <1>1 DEF LeaseInv, GoneEnded, Moves, Alive, Over
<1>2. CASE Outside
  BY <1>2, OutsideEffect
<1> QED
  BY <1>1, <1>2, LeaseSteps

-----------------------------------------------------------------------------
LEMMA LeaseInvariant == LeaseSpec => []LeaseInv
<1>1. LeaseInv /\ [LeaseNext]_leaseVars => LeaseInv'
  BY LeaseTypeStep, GuardOwnedStep, LeaseOwnedStep, StaleFoundStep, GoneEndedStep DEF LeaseInv
<1> QED
  BY InitLease, <1>1, PTL DEF LeaseSpec

(* Every variable keeps its type, and no run tries more often than allowed. *)
THEOREM LeaseTypeCorrect == LeaseSpec => []LeaseTypeOK
<1>1. LeaseInv => LeaseTypeOK
  BY DEF LeaseInv
<1> QED
  BY LeaseInvariant, <1>1, PTL

(* assertWorkflowLocationLease() succeeds for a live holder until it lets   *)
(* go, whatever the other processes do and wherever they crash.            *)
THEOREM HolderSafe == LeaseSpec => []HolderFenced
<1>1. LeaseInv => HolderFenced
  BY DEF LeaseInv, LeaseOwned, HolderFenced, Fenced
<1> QED
  BY LeaseInvariant, <1>1, PTL

(* No two runs judge and replace a stale lease at the same time.            *)
THEOREM ReclaimersExclude == LeaseSpec => []SingleReclaimer
<1>1. LeaseInv => SingleReclaimer
  BY FilesDiffer DEF LeaseInv, GuardOwned, SingleReclaimer
<1> QED
  BY LeaseInvariant, <1>1, PTL

-----------------------------------------------------------------------------
(***************************************************************************)
(* Proofs about trees of groups, for every tree, width and stage count.     *)
(*                                                                         *)
(* The inductive invariant says who keeps whom open: a running branch keeps *)
(* its group open, a group somebody waits for keeps its host branch         *)
(* running, and so an awaited group keeps everything above it open          *)
(* (KeepsAbove).  A hard failure therefore meets an outermost group that    *)
(* has not settled yet, and the stop record it leaves turns that group's    *)
(* verdict.                                                                *)
(***************************************************************************)

\* Workers exist and branches run only in an open group.
OpenWorks ==
    \A g \in Groups : group[g] # "open" => loops[g] = 0 /\ \A b \in BranchesOf(g) : branch[b] # "running"

\* A group that is waited for keeps its host running.
HostsWait ==
    \A g \in Groups : g \notin Detached /\ Active(g) /\ Host[g] # Script => branch[Host[g]] = "running"

\* If every group around it is waited for, all the branches around it run.
KeepsAbove ==
    \A g \in Groups : Awaited(g) /\ g # Root[g] /\ Active(g) => \A b \in Above[g] : branch[b] = "running"

\* Branches are dispatched in their order, and none is skipped.
InOrder ==
    \A g \in Groups : \A k \in 1..Total[g] : branch[<<g, k>>] = "idle" <=> k > next[g]

\* As long as there is something to dispatch and no failure, somebody will.
Attended ==
    \A g \in Groups : group[g] = "open" /\ failure[g] = None /\ next[g] < Total[g] =>
       loops[g] > 0 \/ \E b \in BranchesOf(g) : branch[b] = "running"

\* A worker that failed left its failure.
FailuresRecorded ==
    /\ \A b \in Branches : branch[b] = "thrown" => failure[GroupOf(b)] # None
    /\ \A g \in Groups : failure[g] \notin {GroupError, ScriptError}

\* What a group reports is what became of its branches.
Reported ==
    \A g \in Groups :
       /\ group[g] \in {"new", "open"} => error[g] = None
       /\ group[g] = "completed" => error[g] = None
       /\ group[g] = "failed" => error[g] # None
       /\ group[g] \notin {"new", "open"} /\ error[g] \in {None, GroupError} =>
             \A b \in BranchesOf(g) : branch[b] \in {"completed", "failed"}
       /\ group[g] \notin {"new", "open"} /\ error[g] = None =>
             \A b \in BranchesOf(g) : branch[b] = "completed"
       /\ error[g] = GroupError => \E b \in BranchesOf(g) : branch[b] = "failed"

\* A hard failure has stopped its tree.
HardStops == \A b \in hard : stop[Root[GroupOf(b)]] # None

\* It met an outermost group that had not settled, and turned its verdict.
HardTurns ==
    \A b \in hard : Awaited(GroupOf(b)) =>
       LET r == Root[GroupOf(b)]
       IN  group[r] = "open" \/ (group[r] # "new" /\ error[r] # None)

GroupsInv ==
    /\ TypeOK /\ OpenWorks /\ HostsWait /\ KeepsAbove /\ InOrder /\ Attended
    /\ FailuresRecorded /\ Reported /\ OneFailure /\ HardStops /\ HardTurns

-----------------------------------------------------------------------------
\* What a branch does when its wrapper ends.
SettlesAs(b, how) ==
    /\ branch[b] = "running" /\ Free(b)
    /\ how \in {"completed", "failed", "thrown"}
    /\ Settled(b, how)
    /\ failure' \in [Groups -> Branches \cup {AbortError, None}]
    /\ \A g \in Groups :
          failure'[g] = failure[g] \/
          (failure[g] = None /\ (failure'[g] \in Branches => failure'[g] = stop'[Root[g]]))
    /\ how = "thrown" => failure'[GroupOf(b)] # None
    /\ stop' \in [Groups -> Branches \cup {None}]
    /\ \A g \in Groups : stop[g] # None => stop'[g] = stop[g]
    /\ hard' = hard \/ (hard' = hard \cup {b} /\ stop'[Root[GroupOf(b)]] # None)
    /\ UNCHANGED <<group, next, stage, error, aborted>>

\* What a branch does when its next stage starts.
StageStarts(b) ==
    /\ DispatchError(GroupOf(b)) = None
    /\ stage' = [stage EXCEPT ![b] = @ + 1]
    /\ UNCHANGED <<group, loops, next, branch, failure, error, stop, aborted, hard>>

LEMMA ErrorsDiffer ==
  /\ None \notin Errors /\ AbortError # GroupError /\ AbortError # ScriptError /\ GroupError # ScriptError
  /\ {AbortError, GroupError, ScriptError} \cap Branches = {}
<1>1. \A x, y, z : Cardinality({x, y, z}) # 4
  <2> TAKE x, y, z
  <2>1. IsFiniteSet({x}) /\ Cardinality({x}) = 1
    BY FS_Singleton
  <2>2. IsFiniteSet({x} \cup {y}) /\ Cardinality({x} \cup {y}) \in {1, 2}
    BY <2>1, FS_AddElement
  <2>3. Cardinality(({x} \cup {y}) \cup {z}) \in {1, 2, 3}
    BY <2>2, FS_AddElement
  <2>4. ({x} \cup {y}) \cup {z} = {x, y, z}
    OBVIOUS
  <2> QED
    BY <2>3, <2>4
<1>2. /\ None # AbortError /\ None # GroupError /\ None # ScriptError
      /\ AbortError # GroupError /\ AbortError # ScriptError /\ GroupError # ScriptError
  <2> DEFINE All == {None, AbortError, GroupError, ScriptError}
  <2>1. Cardinality(All) = 4
    BY ErrorsAssumption
  <2>2. None = AbortError => All = {AbortError, GroupError, ScriptError}
    OBVIOUS
  <2>3. None = GroupError => All = {AbortError, GroupError, ScriptError}
    OBVIOUS
  <2>4. None = ScriptError => All = {AbortError, GroupError, ScriptError}
    OBVIOUS
  <2>5. AbortError = GroupError => All = {None, GroupError, ScriptError}
    OBVIOUS
  <2>6. AbortError = ScriptError => All = {None, GroupError, ScriptError}
    OBVIOUS
  <2>7. GroupError = ScriptError => All = {None, AbortError, ScriptError}
    OBVIOUS
  <2> HIDE DEF All
  <2> QED
    BY <1>1, <2>1, <2>2, <2>3, <2>4, <2>5, <2>6, <2>7
<1> QED
  BY <1>2, ErrorsAssumption DEF Errors

LEMMA BranchesOfGroups ==
  /\ \A b \in Branches : GroupOf(b) \in Groups /\ b = <<GroupOf(b), b[2]>> /\ b[2] \in 1..Total[GroupOf(b)]
  /\ \A g \in Groups : \A k \in 1..Total[g] : <<g, k>> \in Branches /\ GroupOf(<<g, k>>) = g
  /\ \A g \in Groups : BranchesOf(g) \subseteq Branches
  /\ \A g \in Groups : Root[g] \in Groups /\ Root[Root[g]] = Root[g] /\ Above[Root[g]] = {}
<1>1. \A g \in Groups : Root[g] \in Groups /\ Root[Root[g]] = Root[g] /\ Above[Root[g]] = {}
  BY TreeAssumption
<1> QED
  BY <1>1 DEF Branches, GroupOf, BranchesOf

(* A caught error settles its branch, and what it leaves is the first        *)
(* run-level failure of the tree or the abort.                             *)
LEMMA CatchSettles ==
  ASSUME TypeOK, FailuresRecorded, NEW b \in Branches, Free(b), NEW e \in Errors, Catch(b, e),
         hard' = hard \/ (e \in Branches /\ hard' = hard \cup {b})
  PROVE  \E how : SettlesAs(b, how)
<1> DEFINE g == GroupOf(b)
<1> USE ErrorsDiffer, BranchesOfGroups DEF TypeOK, Catch, Thrown, StopOf, Free, FailuresRecorded, Errors
<1>0. g \in Groups /\ Root[g] \in Groups /\ failure \in [Groups -> Branches \cup {AbortError, None}]
  OBVIOUS
<1>1. CASE e \in Branches
  <2>1. stop' = [stop EXCEPT ![Root[g]] = IF @ = None THEN e ELSE @]
    BY <1>1
  <2>2. stop' \in [Groups -> Branches \cup {None}] /\ stop'[Root[g]] # None
        /\ \A c \in Groups : stop[c] # None => stop'[c] = stop[c]
    BY <1>0, <1>1, <2>1
  <2>3. failure' = [failure EXCEPT ![g] = IF @ = None THEN stop'[Root[g]] ELSE @] /\ Settled(b, "thrown")
    BY <1>0, <1>1, <2>1
  <2>4. failure' \in [Groups -> Branches \cup {AbortError, None}] /\ failure'[g] # None
        /\ \A c \in Groups : failure'[c] = failure[c] \/ (failure[c] = None /\ failure'[c] = stop'[Root[c]])
    BY <1>0, <2>2, <2>3
  <2>5. SettlesAs(b, "thrown")
    BY <1>1, <2>2, <2>3, <2>4 DEF SettlesAs
  <2> QED
    BY <2>5
<1>2. CASE e \notin Branches /\ aborted
  <2>1. stop' = stop /\ failure' = [failure EXCEPT ![g] = IF @ = None THEN AbortError ELSE @] /\ Settled(b, "thrown")
    BY <1>0, <1>2
  <2>2. SettlesAs(b, "thrown")
    BY <1>0, <1>2, <2>1 DEF SettlesAs
  <2> QED
    BY <2>2
<1>3. CASE e \notin Branches /\ ~aborted
  <2>1. stop' = stop /\ failure' = failure /\ Settled(b, "failed")
    BY <1>0, <1>3
  <2>2. SettlesAs(b, "failed")
    BY <1>0, <1>3, <2>1 DEF SettlesAs
  <2> QED
    BY <2>2
<1> QED
  BY <1>1, <1>2, <1>3

(* Every step is one of ten kinds.                                         *)
LEMMA StepKinds ==
  ASSUME TypeOK, FailuresRecorded, [Next]_vars
  PROVE  \/ \E g \in Groups : Open(g) \/ Work(g)
         \/ \E b \in Branches : StageStarts(b) \/ \E how : SettlesAs(b, how)
         \/ Abort
         \/ UNCHANGED vars
<1> SUFFICES ASSUME NEW b \in Branches, Thunk(b)
             PROVE  StageStarts(b) \/ \E how : SettlesAs(b, how)
  BY DEF Next
<1>0. failure \in [Groups -> Branches \cup {AbortError, None}] /\ stop \in [Groups -> Branches \cup {None}]
      /\ DispatchError(GroupOf(b)) \in Errors \cup {None} /\ GroupOf(b) \in Groups
  BY BranchesOfGroups DEF TypeOK, FailuresRecorded, DispatchError, StopOf, Errors
<1>1. CASE NextStage(b)
  <2>1. CASE DispatchError(GroupOf(b)) = None
    BY <1>1, <2>1 DEF NextStage, StageStarts
  <2>2. CASE DispatchError(GroupOf(b)) # None
    BY <1>0, <1>1, <2>2, CatchSettles DEF NextStage
  <2> QED
    BY <2>1, <2>2
<1>2. CASE Complete(b)
  <2>1. SettlesAs(b, "completed")
    BY <1>0, <1>2 DEF Complete, SettlesAs, Free, TypeOK
  <2> QED
    BY <2>1
<1>3. CASE ReturnFailure(b)
  <2>1. CASE GroupOf(b) \in Pipelines
    BY <1>3, <2>1, CatchSettles DEF ReturnFailure, Errors
  <2>2. CASE GroupOf(b) \notin Pipelines
    <3>1. SettlesAs(b, "failed")
      BY <1>0, <1>3, <2>2 DEF ReturnFailure, SettlesAs, Free, TypeOK
    <3> QED
      BY <3>1
  <2> QED
    BY <2>1, <2>2
<1>4. ASSUME NEW e \in Errors, Throw(b, e) PROVE \E how : SettlesAs(b, how)
  BY <1>4, CatchSettles DEF Throw
<1> QED
  BY <1>1, <1>2, <1>3, <1>4 DEF Thunk

-----------------------------------------------------------------------------
LEMMA InitGroups == Init => GroupsInv
<1> SUFFICES ASSUME Init PROVE GroupsInv
  OBVIOUS
<1>1. TypeOK
  <2>1. \A g \in Groups : next[g] <= Total[g]
    BY GroupsAssumption DEF Init
  <2>2. loops \in [Groups -> Nat] /\ next \in [Groups -> Nat] /\ stage \in [Branches -> Nat]
    BY DEF Init
  <2>3. group \in [Groups -> GroupStates] /\ branch \in [Branches -> BranchStates]
    BY DEF Init, GroupStates, BranchStates
  <2>4. /\ failure \in [Groups -> Errors \cup {None}] /\ error \in [Groups -> Errors \cup {None}]
        /\ stop \in [Groups -> Branches \cup {None}]
    BY DEF Init
  <2> QED
    BY <2>1, <2>2, <2>3, <2>4 DEF Init, TypeOK
<1> USE BranchesOfGroups, GroupsAssumption DEF Init
<1>2. OpenWorks /\ HostsWait /\ KeepsAbove /\ InOrder /\ Attended
  BY DEF OpenWorks, HostsWait, KeepsAbove, InOrder, Attended, Active, BranchesOf
<1>3. FailuresRecorded /\ Reported /\ OneFailure /\ HardStops /\ HardTurns
  BY ErrorsDiffer, ErrorsAssumption DEF FailuresRecorded, Reported, OneFailure, HardStops, HardTurns, BranchesOf, Errors
<1> QED
  BY <1>1, <1>2, <1>3 DEF GroupsInv

LEMMA TypeStep == GroupsInv /\ [Next]_vars => TypeOK'
<1> SUFFICES ASSUME GroupsInv, [Next]_vars PROVE TypeOK'
  OBVIOUS
<1> USE BranchesOfGroups, GroupsAssumption DEF TypeOK, GroupStates, BranchStates
<1>0. TypeOK /\ FailuresRecorded
  BY DEF GroupsInv
<1>1. ASSUME NEW g \in Groups, Open(g) PROVE TypeOK'
  BY <1>0, <1>1 DEF Open, Workers
<1>2. ASSUME NEW g \in Groups, WorkerLeaves(g) PROVE TypeOK'
  BY <1>0, <1>2 DEF WorkerLeaves
<1>3. ASSUME NEW g \in Groups, WorkerRefused(g) PROVE TypeOK'
  BY <1>0, <1>3 DEF WorkerRefused, DispatchError, StopOf, Errors
<1>4. ASSUME NEW g \in Groups, Dispatch(g) PROVE TypeOK'
  <2>1. next[g] + 1 \in 1..Total[g] /\ next' = [next EXCEPT ![g] = @ + 1]
    BY <1>0, <1>4 DEF Dispatch
  <2>2. next' \in [Groups -> Nat] /\ \A c \in Groups : next'[c] <= Total[c]
    BY <1>0, <2>1
  <2> QED
    BY <1>0, <1>4, <2>1, <2>2 DEF Dispatch
<1>5. ASSUME NEW g \in Groups, Settle(g) PROVE TypeOK'
  BY <1>0, <1>5 DEF Settle, Verdict, DispatchError, StopOf, Errors
<1>6. ASSUME NEW g \in Groups, End(g) PROVE TypeOK'
  BY <1>0, <1>6 DEF End
<1>7. ASSUME NEW b \in Branches, StageStarts(b) PROVE TypeOK'
  BY <1>0, <1>7 DEF StageStarts
<1>8. ASSUME NEW b \in Branches, NEW how, SettlesAs(b, how) PROVE TypeOK'
  BY <1>0, <1>8 DEF SettlesAs, Settled, Errors
<1>9. CASE Abort
  BY <1>0, <1>9 DEF Abort
<1>10. CASE UNCHANGED vars
  BY <1>0, <1>10 DEF vars
<1> QED
  BY <1>0, <1>1, <1>2, <1>3, <1>4, <1>5, <1>6, <1>7, <1>8, <1>9, <1>10, StepKinds DEF Work

LEMMA OpenWorksStep == GroupsInv /\ [Next]_vars => OpenWorks'
<1> SUFFICES ASSUME GroupsInv, [Next]_vars PROVE OpenWorks'
  OBVIOUS
<1> USE BranchesOfGroups DEF TypeOK, OpenWorks, BranchesOf
<1>0. TypeOK /\ FailuresRecorded /\ OpenWorks
  BY DEF GroupsInv
<1>1. ASSUME NEW g \in Groups, Open(g) PROVE OpenWorks'
  BY <1>0, <1>1 DEF Open
<1>2. ASSUME NEW g \in Groups, WorkerLeaves(g) \/ WorkerRefused(g) PROVE OpenWorks'
  BY <1>0, <1>2 DEF WorkerLeaves, WorkerRefused
<1>4. ASSUME NEW g \in Groups, Dispatch(g) PROVE OpenWorks'
  BY <1>0, <1>4 DEF Dispatch
<1>5. ASSUME NEW g \in Groups, Settle(g) PROVE OpenWorks'
  BY <1>0, <1>5 DEF Settle, Drained, In
<1>6. ASSUME NEW g \in Groups, End(g) PROVE OpenWorks'
  BY <1>0, <1>6 DEF End
<1>7. ASSUME NEW b \in Branches, StageStarts(b) PROVE OpenWorks'
  BY <1>0, <1>7 DEF StageStarts
<1>8. ASSUME NEW b \in Branches, NEW how, SettlesAs(b, how) PROVE OpenWorks'
  BY <1>0, <1>8 DEF SettlesAs, Settled
<1>9. CASE Abort \/ UNCHANGED vars
  BY <1>0, <1>9 DEF Abort, vars
<1> QED
  BY <1>0, <1>1, <1>2, <1>4, <1>5, <1>6, <1>7, <1>8, <1>9, StepKinds DEF Work

LEMMA HostsWaitStep == GroupsInv /\ [Next]_vars => HostsWait'
<1> SUFFICES ASSUME GroupsInv, [Next]_vars PROVE HostsWait'
  OBVIOUS
<1> USE BranchesOfGroups, TreeAssumption DEF TypeOK, HostsWait, Active
<1>0. TypeOK /\ FailuresRecorded /\ HostsWait
  BY DEF GroupsInv
<1>1. ASSUME NEW g \in Groups, Open(g) PROVE HostsWait'
  BY <1>0, <1>1 DEF Open
<1>2. ASSUME NEW g \in Groups, WorkerLeaves(g) \/ WorkerRefused(g) PROVE HostsWait'
  BY <1>0, <1>2 DEF WorkerLeaves, WorkerRefused
<1>4. ASSUME NEW g \in Groups, Dispatch(g) PROVE HostsWait'
  BY <1>0, <1>4 DEF Dispatch
<1>5. ASSUME NEW g \in Groups, Settle(g) \/ End(g) PROVE HostsWait'
  BY <1>0, <1>5 DEF Settle, End
<1>7. ASSUME NEW b \in Branches, StageStarts(b) PROVE HostsWait'
  BY <1>0, <1>7 DEF StageStarts
<1>8. ASSUME NEW b \in Branches, NEW how, SettlesAs(b, how) PROVE HostsWait'
  BY <1>0, <1>8 DEF SettlesAs, Settled, Free
<1>9. CASE Abort \/ UNCHANGED vars
  BY <1>0, <1>9 DEF Abort, vars
<1> QED
  BY <1>0, <1>1, <1>2, <1>4, <1>5, <1>7, <1>8, <1>9, StepKinds DEF Work

LEMMA KeepsAboveStep == GroupsInv /\ [Next]_vars => KeepsAbove'
<1> SUFFICES ASSUME GroupsInv, [Next]_vars PROVE KeepsAbove'
  OBVIOUS
<1> USE BranchesOfGroups, TreeAssumption DEF TypeOK, KeepsAbove, Active
<1>0. TypeOK /\ FailuresRecorded /\ KeepsAbove /\ OpenWorks
  BY DEF GroupsInv
<1>a. \A c \in Groups : Above[c] \subseteq Branches
  OBVIOUS
<1>1. ASSUME NEW g \in Groups, Open(g) PROVE KeepsAbove'
  <2>1. ASSUME Awaited(g), g # Root[g], NEW b \in Above[g] PROVE branch[b] = "running"
    <3>1. Host[g] # Script /\ g \notin Detached
      BY <2>1 DEF Awaited
    <3> DEFINE c == GroupOf(Host[g])
    <3>2. branch[Host[g]] = "running" /\ c \in Groups /\ Root[c] = Root[g] /\ Above[g] = {Host[g]} \cup Above[c]
      BY <1>1, <3>1 DEF Open
    <3>3. group[c] = "open"
      BY <1>0, <3>1, <3>2 DEF OpenWorks, BranchesOf
    <3>4. c # Root[g] => Awaited(c)
      BY <2>1, <3>2 DEF Awaited
    <3>5. c = Root[g] => Above[c] = {}
      OBVIOUS
    <3> HIDE DEF c
    <3> QED
      BY <1>0, <2>1, <3>2, <3>3, <3>4, <3>5
  <2> QED
    BY <1>0, <1>1, <2>1 DEF Open
<1>2. ASSUME NEW g \in Groups, WorkerLeaves(g) \/ WorkerRefused(g) PROVE KeepsAbove'
  BY <1>0, <1>2 DEF WorkerLeaves, WorkerRefused
<1>4. ASSUME NEW g \in Groups, Dispatch(g) PROVE KeepsAbove'
  BY <1>0, <1>4, <1>a DEF Dispatch
<1>5. ASSUME NEW g \in Groups, Settle(g) \/ End(g) PROVE KeepsAbove'
  <2>1. branch' = branch /\ \A c \in Groups : group'[c] \in {"open", "settling"} => Active(c)
    BY <1>0, <1>5 DEF Settle, End
  <2> QED
    BY <1>0, <2>1
<1>7. ASSUME NEW b \in Branches, StageStarts(b) PROVE KeepsAbove'
  BY <1>0, <1>7 DEF StageStarts
<1>8. ASSUME NEW b \in Branches, NEW how, SettlesAs(b, how) PROVE KeepsAbove'
  <2>1. ASSUME NEW g \in Groups, Awaited(g), g # Root[g], Active(g) PROVE b \notin Above[g]
    <3> SUFFICES ASSUME b \in Above[g] PROVE FALSE
      OBVIOUS
    <3>1. PICK c \in Groups : Host[c] = b /\ (c = g \/ \E d \in Above[g] : GroupOf(d) = c)
      <4>1. Host[g] # Script
        BY <2>1
      <4> QED
        BY <4>1
    <3>2. c = g \/ group[c] = "open"
      <4>1. ASSUME NEW d \in Above[g], GroupOf(d) = c PROVE group[c] = "open"
        BY <1>0, <1>a, <2>1, <4>1 DEF OpenWorks, BranchesOf
      <4> QED
        BY <3>1, <4>1
    <3>3. c \notin Detached
      BY <2>1, <3>1 DEF Awaited
    <3> QED
      BY <1>8, <2>1, <3>1, <3>2, <3>3 DEF SettlesAs, Free
  <2> QED
    BY <1>0, <1>8, <1>a, <2>1 DEF SettlesAs, Settled
<1>9. CASE Abort \/ UNCHANGED vars
  BY <1>0, <1>9 DEF Abort, vars
<1> QED
  BY <1>0, <1>1, <1>2, <1>4, <1>5, <1>7, <1>8, <1>9, StepKinds DEF Work

LEMMA InOrderStep == GroupsInv /\ [Next]_vars => InOrder'
<1> SUFFICES ASSUME GroupsInv, [Next]_vars PROVE InOrder'
  OBVIOUS
<1> USE BranchesOfGroups, GroupsAssumption DEF TypeOK, InOrder
<1>0. TypeOK /\ FailuresRecorded /\ InOrder
  BY DEF GroupsInv
<1>k. ASSUME NEW c \in Groups, NEW k \in 1..Total[c] PROVE <<c, k>> \in Branches /\ (branch[<<c, k>>] = "idle" <=> k > next[c])
  BY <1>0
<1>u. ASSUME next' = next, \A c \in Branches : branch'[c] = "idle" <=> branch[c] = "idle" PROVE InOrder'
  <2> SUFFICES ASSUME NEW c \in Groups, NEW k \in 1..Total[c]
               PROVE  (branch'[<<c, k>>] = "idle") <=> k > next'[c]
    OBVIOUS
  <2> QED
    BY <1>k, <1>u
<1>1. ASSUME NEW g \in Groups, Open(g) \/ WorkerLeaves(g) \/ WorkerRefused(g) PROVE InOrder'
  BY <1>1, <1>u DEF Open, WorkerLeaves, WorkerRefused
<1>4. ASSUME NEW g \in Groups, Dispatch(g) PROVE InOrder'
  <2> DEFINE b == <<g, next[g] + 1>>
  <2>1. next[g] \in Nat /\ b \in Branches
    BY <1>0, <1>4 DEF Dispatch
  <2>2. next' = [next EXCEPT ![g] = @ + 1] /\ branch' = [branch EXCEPT ![b] = "running"]
    BY <1>4 DEF Dispatch
  <2>3. ASSUME NEW c \in Groups, NEW k \in 1..Total[c] PROVE (branch'[<<c, k>>] = "idle") <=> k > next'[c]
    <3>1. <<c, k>> \in Branches /\ k \in Nat
      OBVIOUS
    <3>2. CASE c = g /\ k = next[g] + 1
      BY <1>0, <2>1, <2>2, <3>1, <3>2
    <3>3. CASE c = g /\ k # next[g] + 1
      BY <1>0, <2>1, <2>2, <3>1, <3>3
    <3>4. CASE c # g
      BY <1>0, <2>1, <2>2, <3>1, <3>4
    <3> QED
      BY <3>2, <3>3, <3>4
  <2> QED
    BY <2>3
<1>5. ASSUME NEW g \in Groups, Settle(g) \/ End(g) PROVE InOrder'
  BY <1>5, <1>u DEF Settle, End
<1>7. ASSUME NEW b \in Branches, StageStarts(b) PROVE InOrder'
  BY <1>7, <1>u DEF StageStarts
<1>8. ASSUME NEW b \in Branches, NEW how, SettlesAs(b, how) PROVE InOrder'
  <2>1. next' = next /\ branch[b] = "running" /\ how # "idle" /\ branch' = [branch EXCEPT ![b] = how]
    BY <1>8 DEF SettlesAs, Settled
  <2>2. \A c \in Branches : branch'[c] = "idle" <=> branch[c] = "idle"
    BY <1>0, <2>1
  <2> QED
    BY <1>u, <2>1, <2>2
<1>9. CASE Abort \/ UNCHANGED vars
  BY <1>9, <1>u DEF Abort, vars
<1> QED
  BY <1>0, <1>1, <1>4, <1>5, <1>7, <1>8, <1>9, StepKinds DEF Work

LEMMA AttendedStep == GroupsInv /\ [Next]_vars => Attended'
<1> SUFFICES ASSUME GroupsInv, [Next]_vars PROVE Attended'
  OBVIOUS
<1> USE BranchesOfGroups, GroupsAssumption DEF TypeOK, Attended, BranchesOf
<1>0. TypeOK /\ FailuresRecorded /\ Attended /\ None \notin Errors
  BY ErrorsDiffer DEF GroupsInv
<1>1. ASSUME NEW g \in Groups, Open(g) PROVE Attended'
  BY <1>0, <1>1 DEF Open, Workers
<1>2. ASSUME NEW g \in Groups, WorkerLeaves(g) PROVE Attended'
  BY <1>0, <1>2 DEF WorkerLeaves
<1>3. ASSUME NEW g \in Groups, WorkerRefused(g) PROVE Attended'
  BY <1>0, <1>3 DEF WorkerRefused
<1>4. ASSUME NEW g \in Groups, Dispatch(g) PROVE Attended'
  <2> DEFINE b == <<g, next[g] + 1>>
  <2>1. b \in Branches /\ GroupOf(b) = g
    BY <1>0, <1>4 DEF Dispatch
  <2>2. branch' = [branch EXCEPT ![b] = "running"] /\ UNCHANGED <<group, failure>>
        /\ loops' = [loops EXCEPT ![g] = @ - 1] /\ next' = [next EXCEPT ![g] = @ + 1]
    BY <1>4 DEF Dispatch
  <2>3. branch'[b] = "running" /\ \A c \in Branches : branch[c] = "running" => branch'[c] = "running"
    BY <1>0, <2>1, <2>2
  <2>4. \A c \in Groups : c # g => loops'[c] = loops[c] /\ next'[c] = next[c]
    BY <1>0, <2>2
  <2> HIDE DEF b
  <2> QED
    BY <1>0, <2>1, <2>2, <2>3, <2>4
<1>5. ASSUME NEW g \in Groups, Settle(g) \/ End(g) PROVE Attended'
  <2>1. \A f \in Groups : group'[f] = "open" => group[f] = "open"
    BY <1>0, <1>5 DEF Settle, End
  <2>2. UNCHANGED <<next, loops, branch, failure>>
    BY <1>5 DEF Settle, End
  <2> QED
    BY <1>0, <2>1, <2>2
<1>7. ASSUME NEW b \in Branches, StageStarts(b) PROVE Attended'
  BY <1>0, <1>7 DEF StageStarts
<1>8. ASSUME NEW b \in Branches, NEW how, SettlesAs(b, how) PROVE Attended'
  <2>1. loops' = [loops EXCEPT ![GroupOf(b)] = @ + 1] /\ branch' = [branch EXCEPT ![b] = how]
        /\ UNCHANGED <<group, next>> /\ \A g \in Groups : failure'[g] = None => failure[g] = None
    BY <1>0, <1>8 DEF SettlesAs, Settled
  <2>2. loops'[GroupOf(b)] > 0
    BY <1>0, <2>1
  <2>3. \A g \in Groups : g # GroupOf(b) =>
           loops'[g] = loops[g] /\ \A c \in Branches : GroupOf(c) = g => branch'[c] = branch[c]
    BY <1>0, <2>1
  <2> QED
    BY <1>0, <2>1, <2>2, <2>3
<1>9. CASE Abort \/ UNCHANGED vars
  BY <1>0, <1>9 DEF Abort, vars
<1> QED
  BY <1>0, <1>1, <1>2, <1>3, <1>4, <1>5, <1>7, <1>8, <1>9, StepKinds DEF Work

LEMMA FailuresRecordedStep == GroupsInv /\ [Next]_vars => FailuresRecorded'
<1> SUFFICES ASSUME GroupsInv, [Next]_vars PROVE FailuresRecorded'
  OBVIOUS
<1> USE BranchesOfGroups, ErrorsDiffer DEF TypeOK, FailuresRecorded
<1>0. TypeOK /\ FailuresRecorded
  BY DEF GroupsInv
<1>1. ASSUME NEW g \in Groups, Open(g) \/ WorkerLeaves(g) PROVE FailuresRecorded'
  BY <1>0, <1>1 DEF Open, WorkerLeaves
<1>3. ASSUME NEW g \in Groups, WorkerRefused(g) PROVE FailuresRecorded'
  BY <1>0, <1>3, ErrorsAssumption DEF WorkerRefused, DispatchError, StopOf
<1>4. ASSUME NEW g \in Groups, Dispatch(g) PROVE FailuresRecorded'
  BY <1>0, <1>4 DEF Dispatch
<1>5. ASSUME NEW g \in Groups, Settle(g) \/ End(g) PROVE FailuresRecorded'
  BY <1>0, <1>5 DEF Settle, End
<1>7. ASSUME NEW b \in Branches, StageStarts(b) PROVE FailuresRecorded'
  BY <1>0, <1>7 DEF StageStarts
<1>8. ASSUME NEW b \in Branches, NEW how, SettlesAs(b, how) PROVE FailuresRecorded'
  BY <1>0, <1>8, ErrorsAssumption DEF SettlesAs, Settled
<1>9. CASE Abort \/ UNCHANGED vars
  BY <1>0, <1>9 DEF Abort, vars
<1> QED
  BY <1>0, <1>1, <1>3, <1>4, <1>5, <1>7, <1>8, <1>9, StepKinds DEF Work

LEMMA ReportedStep == GroupsInv /\ [Next]_vars => Reported'
<1> SUFFICES ASSUME GroupsInv, [Next]_vars PROVE Reported'
  OBVIOUS
<1> USE BranchesOfGroups, GroupsAssumption, ErrorsDiffer DEF TypeOK, Reported, OpenWorks, GroupStates, Errors
<1>0. TypeOK /\ FailuresRecorded /\ Reported /\ OpenWorks
  BY DEF GroupsInv
<1>u. branch' = branch /\ group' = group /\ error' = error => Reported'
  BY <1>0 DEF BranchesOf
\* While a group is open, its branches may change.
<1>o. ASSUME NEW g \in Groups, group[g] = "open", group' = group, error' = error,
             \A b \in Branches : GroupOf(b) # g => branch'[b] = branch[b]
      PROVE  Reported'
  <2>1. error[g] = None
    BY <1>0, <1>o
  <2>2. \A c \in Groups : c # g => \A b \in BranchesOf(c) : branch'[b] = branch[b]
    BY <1>o DEF BranchesOf
  <2>3. \A c \in Groups : BranchesOf(c)' = BranchesOf(c)
    BY DEF BranchesOf
  <2>4. GroupError # None
    OBVIOUS
  <2> SUFFICES ASSUME NEW c \in Groups
               PROVE  /\ group[c] \in {"new", "open"} => error[c] = None
                      /\ group[c] = "completed" => error[c] = None
                      /\ group[c] = "failed" => error[c] # None
                      /\ group[c] \notin {"new", "open"} /\ error[c] \in {None, GroupError} =>
                            \A b \in BranchesOf(c) : branch'[b] \in {"completed", "failed"}
                      /\ group[c] \notin {"new", "open"} /\ error[c] = None =>
                            \A b \in BranchesOf(c) : branch'[b] = "completed"
                      /\ error[c] = GroupError => \E b \in BranchesOf(c) : branch'[b] = "failed"
    BY <1>o, <2>3
  <2>5. CASE c = g
    BY <1>o, <2>1, <2>4, <2>5
  <2>6. CASE c # g
    BY <1>0, <2>2, <2>6
  <2> QED
    BY <2>5, <2>6
<1>1. ASSUME NEW g \in Groups, Open(g) PROVE Reported'
  BY <1>0, <1>1 DEF Open, BranchesOf
<1>2. ASSUME NEW g \in Groups, WorkerLeaves(g) \/ WorkerRefused(g) PROVE Reported'
  BY <1>2, <1>u DEF WorkerLeaves, WorkerRefused
<1>4. ASSUME NEW g \in Groups, Dispatch(g) PROVE Reported'
  <2>1. group[g] = "open"
    BY <1>0, <1>4 DEF Dispatch
  <2>2. \A b \in Branches : GroupOf(b) # g => branch'[b] = branch[b]
    BY <1>0, <1>4 DEF Dispatch
  <2> QED
    BY <1>4, <1>o, <2>1, <2>2 DEF Dispatch
<1>5. ASSUME NEW g \in Groups, Settle(g) PROVE Reported'
  <2>1. ASSUME Verdict(g) \in {None, GroupError}, NEW b \in BranchesOf(g)
        PROVE  branch[b] \in {"completed", "failed"}
    <3>1. failure[g] = None /\ DispatchError(g) = None
      BY <1>0, <2>1, ErrorsAssumption DEF Verdict, FailuresRecorded, DispatchError, StopOf
    <3>2. loops[g] = 0 /\ \A c \in BranchesOf(g) : branch[c] # "running"
      BY <1>5 DEF Settle, Drained, In
    <3>3. next[g] = Total[g]
      <4>0. group[g] = "open" /\ Attended
        BY <1>5 DEF GroupsInv, Settle
      <4>1. ~(next[g] < Total[g])
        BY <3>1, <3>2, <4>0 DEF Attended
      <4>2. next[g] \in Nat /\ Total[g] \in Nat /\ next[g] <= Total[g]
        BY <1>0
      <4> QED
        BY <4>1, <4>2
    <3>4. b \in Branches /\ GroupOf(b) = g /\ b[2] \in 1..Total[g] /\ b = <<g, b[2]>>
      BY DEF BranchesOf
    <3>5. branch[b] # "idle"
      BY <1>0, <3>3, <3>4 DEF GroupsInv, InOrder
    <3>6. branch[b] # "thrown"
      BY <1>0, <3>1, <3>4 DEF FailuresRecorded
    <3> QED
      BY <1>0, <3>2, <3>4, <3>5, <3>6 DEF BranchStates
  <2>2. Verdict(g) = None => \A b \in BranchesOf(g) : branch[b] = "completed"
    BY <2>1 DEF Verdict, In
  <2>3. Verdict(g) = GroupError => \E b \in BranchesOf(g) : branch[b] = "failed"
    BY <1>0, ErrorsAssumption DEF Verdict, In, FailuresRecorded, DispatchError, StopOf
  <2>4. branch' = branch /\ group' = [group EXCEPT ![g] = "settling"] /\ error' = [error EXCEPT ![g] = Verdict(g)]
    BY <1>5 DEF Settle
  <2>5. \A c \in Groups : BranchesOf(c)' = BranchesOf(c)
    BY DEF BranchesOf
  <2> QED
    BY <1>0, <2>1, <2>2, <2>3, <2>4, <2>5
<1>6. ASSUME NEW g \in Groups, End(g) PROVE Reported'
  <2>1. \A c \in Groups : BranchesOf(c)' = BranchesOf(c)
    BY DEF BranchesOf
  <2> QED
    BY <1>0, <1>6, <2>1 DEF End
<1>7. ASSUME NEW b \in Branches, StageStarts(b) PROVE Reported'
  BY <1>7, <1>u DEF StageStarts
<1>8. ASSUME NEW b \in Branches, NEW how, SettlesAs(b, how) PROVE Reported'
  <2>1. group[GroupOf(b)] = "open"
    BY <1>0, <1>8 DEF SettlesAs, BranchesOf
  <2>2. \A c \in Branches : GroupOf(c) # GroupOf(b) => branch'[c] = branch[c]
    BY <1>0, <1>8 DEF SettlesAs, Settled
  <2> QED
    BY <1>8, <1>o, <2>1, <2>2 DEF SettlesAs
<1>9. CASE Abort \/ UNCHANGED vars
  BY <1>9, <1>u DEF Abort, vars
<1> QED
  BY <1>0, <1>1, <1>2, <1>4, <1>5, <1>6, <1>7, <1>8, <1>9, StepKinds DEF Work

LEMMA OneFailureStep == GroupsInv /\ [Next]_vars => OneFailure'
<1> SUFFICES ASSUME GroupsInv, [Next]_vars PROVE OneFailure'
  OBVIOUS
<1> USE BranchesOfGroups, ErrorsDiffer, ErrorsAssumption DEF TypeOK, OneFailure
<1>0. TypeOK /\ FailuresRecorded /\ OneFailure
  BY DEF GroupsInv
<1>u. failure' = failure /\ error' = error /\ stop' = stop => OneFailure'
  BY <1>0
<1>1. ASSUME NEW g \in Groups, Open(g) \/ WorkerLeaves(g) \/ Dispatch(g) \/ End(g) PROVE OneFailure'
  BY <1>1, <1>u DEF Open, WorkerLeaves, Dispatch, End
<1>3. ASSUME NEW g \in Groups, WorkerRefused(g) PROVE OneFailure'
  BY <1>0, <1>3 DEF WorkerRefused, DispatchError, StopOf
<1>5. ASSUME NEW g \in Groups, Settle(g) PROVE OneFailure'
  <2>1. Verdict(g) \in Branches => Verdict(g) = stop[Root[g]]
    BY <1>0 DEF Verdict, DispatchError, StopOf
  <2> QED
    BY <1>0, <1>5, <2>1 DEF Settle
<1>7. ASSUME NEW b \in Branches, StageStarts(b) PROVE OneFailure'
  BY <1>7, <1>u DEF StageStarts
<1>8. ASSUME NEW b \in Branches, NEW how, SettlesAs(b, how) PROVE OneFailure'
  <2>1. ASSUME NEW g \in Groups, failure'[g] \in Branches PROVE failure'[g] = stop'[Root[g]]
    BY <1>0, <1>8, <2>1 DEF SettlesAs
  <2>2. ASSUME NEW g \in Groups, error'[g] \in Branches PROVE error'[g] = stop'[Root[g]]
    BY <1>0, <1>8, <2>2 DEF SettlesAs
  <2> QED
    BY <2>1, <2>2
<1>9. CASE Abort \/ UNCHANGED vars
  BY <1>9, <1>u DEF Abort, vars
<1> QED
  BY <1>0, <1>1, <1>3, <1>5, <1>7, <1>8, <1>9, StepKinds DEF Work

LEMMA HardStopsStep == GroupsInv /\ [Next]_vars => HardStops'
<1> SUFFICES ASSUME GroupsInv, [Next]_vars PROVE HardStops'
  OBVIOUS
<1> USE BranchesOfGroups DEF TypeOK, HardStops
<1>0. TypeOK /\ FailuresRecorded /\ HardStops
  BY DEF GroupsInv
<1>u. stop' = stop /\ hard' = hard => HardStops'
  BY <1>0
<1>1. ASSUME NEW g \in Groups, Open(g) \/ Work(g) PROVE HardStops'
  BY <1>1, <1>u DEF Open, Work, WorkerLeaves, WorkerRefused, Dispatch, Settle, End
<1>7. ASSUME NEW b \in Branches, StageStarts(b) PROVE HardStops'
  BY <1>7, <1>u DEF StageStarts
<1>8. ASSUME NEW b \in Branches, NEW how, SettlesAs(b, how) PROVE HardStops'
  <2>1. \A c \in hard : stop'[Root[GroupOf(c)]] # None
    BY <1>0, <1>8 DEF SettlesAs
  <2> QED
    BY <1>8, <2>1 DEF SettlesAs
<1>9. CASE Abort \/ UNCHANGED vars
  BY <1>9, <1>u DEF Abort, vars
<1> QED
  BY <1>0, <1>1, <1>7, <1>8, <1>9, StepKinds

LEMMA HardTurnsStep == GroupsInv /\ [Next]_vars => HardTurns'
<1> SUFFICES ASSUME GroupsInv, [Next]_vars PROVE HardTurns'
  OBVIOUS
<1> USE BranchesOfGroups, ErrorsDiffer DEF TypeOK, HardTurns
<1>0. TypeOK /\ FailuresRecorded /\ HardTurns /\ HardStops
  BY DEF GroupsInv
<1>u. group' = group /\ error' = error /\ hard' = hard => HardTurns'
  BY <1>0
<1>1. ASSUME NEW g \in Groups, Open(g) PROVE HardTurns'
  BY <1>0, <1>1 DEF Open
<1>2. ASSUME NEW g \in Groups, WorkerLeaves(g) \/ WorkerRefused(g) \/ Dispatch(g) PROVE HardTurns'
  BY <1>2, <1>u DEF WorkerLeaves, WorkerRefused, Dispatch
<1>5. ASSUME NEW g \in Groups, Settle(g) PROVE HardTurns'
  <2>1. \A b \in hard : Root[GroupOf(b)] = g => Verdict(g) # None
    BY <1>0 DEF HardStops, Verdict, DispatchError, StopOf
  <2> QED
    BY <1>0, <1>5, <2>1 DEF Settle
<1>6. ASSUME NEW g \in Groups, End(g) PROVE HardTurns'
  BY <1>0, <1>6 DEF End
<1>7. ASSUME NEW b \in Branches, StageStarts(b) PROVE HardTurns'
  BY <1>7, <1>u DEF StageStarts
<1>8. ASSUME NEW b \in Branches, NEW how, SettlesAs(b, how) PROVE HardTurns'
  <2> DEFINE g == GroupOf(b)
  <2>1. g \in Groups /\ group[g] = "open" /\ branch[b] = "running"
    BY <1>8 DEF SettlesAs, GroupsInv, OpenWorks, BranchesOf
  <2>2. ASSUME Awaited(g), g # Root[g] PROVE group[Root[g]] = "open"
    <3>1. PICK d \in Above[g] : GroupOf(d) = Root[g]
      BY <2>1, <2>2, TreeAssumption
    <3>2. d \in Branches /\ branch[d] = "running"
      BY <2>1, <2>2, TreeAssumption DEF GroupsInv, KeepsAbove, Active
    <3> QED
      BY <2>1, <3>1, <3>2 DEF GroupsInv, OpenWorks, BranchesOf
  <2>3. Awaited(g) => group[Root[g]] = "open"
    BY <2>1, <2>2
  <2> HIDE DEF g
  <2>4. hard' = hard \/ hard' = hard \cup {b}
    BY <1>8 DEF SettlesAs
  <2>5. UNCHANGED <<group, error>>
    BY <1>8 DEF SettlesAs
  <2> QED
    BY <1>0, <2>3, <2>4, <2>5 DEF g
<1>9. CASE Abort \/ UNCHANGED vars
  BY <1>9, <1>u DEF Abort, vars
<1> QED
  BY <1>0, <1>1, <1>2, <1>5, <1>6, <1>7, <1>8, <1>9, StepKinds DEF Work

-----------------------------------------------------------------------------
LEMMA GroupsInvariant == Spec => []GroupsInv
<1>1. GroupsInv /\ [Next]_vars => GroupsInv'
  BY TypeStep, OpenWorksStep, HostsWaitStep, KeepsAboveStep, InOrderStep, AttendedStep,
     FailuresRecordedStep, ReportedStep, OneFailureStep, HardStopsStep, HardTurnsStep DEF GroupsInv
<1> QED
  BY InitGroups, <1>1, PTL DEF Spec

(* Every variable keeps its type; no group dispatches more branches than it *)
(* has.                                                                    *)
THEOREM GroupsTypeCorrect == Spec => []TypeOK
<1>1. GroupsInv => TypeOK
  BY DEF GroupsInv
<1> QED
  BY GroupsInvariant, <1>1, PTL

(* runGrouped(): when a group settles, its branches have, and so have the   *)
(* groups they opened and wait for.                                        *)
THEOREM BranchesJoin == Spec => []GroupsJoin
<1>1. GroupsInv => GroupsJoin
  BY BranchesOfGroups, TreeAssumption DEF GroupsInv, GroupsJoin, OpenWorks, HostsWait, In, BranchesOf, Active
<1> QED
  BY GroupsInvariant, <1>1, PTL

(* runGroupBranches(): a reported group accounts for every branch, and a    *)
(* completed one has none that failed.                                     *)
THEOREM SlotsCorrect == Spec => []SlotsAccounted
<1>1. GroupsInv => SlotsAccounted
  <2> SUFFICES ASSUME GroupsInv, NEW g \in Groups
               PROVE  /\ group[g] = "completed" => BranchesOf(g) = In(g, "completed")
                      /\ error[g] = GroupError =>
                            /\ BranchesOf(g) = In(g, "completed") \cup In(g, "failed")
                            /\ In(g, "failed") # {}
    BY DEF SlotsAccounted
  <2>1. Reported /\ GroupError # None
    BY ErrorsDiffer DEF GroupsInv, Errors
  <2> QED
    BY <2>1 DEF Reported, In
<1> QED
  BY GroupsInvariant, <1>1, PTL

(* The shared stop record: every group of a tree that reports a run-level   *)
(* failure reports the first one.                                          *)
THEOREM FailureIsOne == Spec => []OneFailure
<1>1. GroupsInv => OneFailure
  BY DEF GroupsInv
<1> QED
  BY GroupsInvariant, <1>1, PTL

(* A run-level failure of a nested branch fails the outermost group even if *)
(* every script in between swallows it.                                    *)
THEOREM FailureSurfaces == Spec => []HardFailureSurfaces
<1>1. GroupsInv => HardFailureSurfaces
  BY BranchesOfGroups DEF GroupsInv, TypeOK, HardTurns, Reported, HardFailureSurfaces
<1> QED
  BY GroupsInvariant, <1>1, PTL

(* assertDispatch() before every branch and stage: nothing starts in a tree *)
(* that has failed or in a run that is aborted.                            *)
THEOREM NothingLate == Spec => NoLateDispatch
<1> DEFINE Late == \E b \in Branches : stage'[b] > stage[b] /\
                      ~(~aborted /\ \A h \in hard : Root[GroupOf(h)] # Root[GroupOf(b)])
<1>1. GroupsInv /\ [Next]_vars => ~Late
  <2> SUFFICES ASSUME GroupsInv, [Next]_vars, NEW b \in Branches, stage'[b] > stage[b]
               PROVE  ~aborted /\ \A h \in hard : Root[GroupOf(h)] # Root[GroupOf(b)]
    OBVIOUS
  <2> USE BranchesOfGroups, ErrorsDiffer DEF TypeOK
  <2>0. TypeOK /\ FailuresRecorded /\ HardStops
    BY DEF GroupsInv
  <2>1. DispatchError(GroupOf(b)) = None
    <3>0. stage'[b] # stage[b]
      BY <2>0
    <3>1. ASSUME NEW g \in Groups, Open(g) \/ WorkerLeaves(g) \/ WorkerRefused(g) \/ Settle(g) \/ End(g) PROVE FALSE
      BY <3>0, <3>1 DEF Open, WorkerLeaves, WorkerRefused, Settle, End
    <3>2. ASSUME NEW g \in Groups, Dispatch(g) PROVE DispatchError(GroupOf(b)) = None
      <4>1. next[g] + 1 \in 1..Total[g]
        BY <2>0, <3>2, GroupsAssumption DEF Dispatch
      <4>2. b = <<g, next[g] + 1>>
        BY <2>0, <3>0, <3>2 DEF Dispatch
      <4> QED
        BY <3>2, <4>1, <4>2 DEF Dispatch
    <3>3. ASSUME NEW c \in Branches, StageStarts(c) PROVE DispatchError(GroupOf(b)) = None
      BY <2>0, <3>0, <3>3 DEF StageStarts
    <3>4. ASSUME NEW c \in Branches, NEW how, SettlesAs(c, how) PROVE FALSE
      BY <3>0, <3>4 DEF SettlesAs
    <3>5. CASE Abort \/ UNCHANGED vars
      BY <3>0, <3>5 DEF Abort, vars
    <3> QED
      BY <2>0, <3>1, <3>2, <3>3, <3>4, <3>5, StepKinds DEF Work
  <2> QED
    BY <2>0, <2>1 DEF DispatchError, StopOf, HardStops, Errors
<1>2. ~Late => \A b \in Branches : stage'[b] > stage[b] =>
                  ~aborted /\ \A h \in hard : Root[GroupOf(h)] # Root[GroupOf(b)]
  OBVIOUS
<1> QED
  BY GroupsInvariant, <1>1, <1>2, PTL DEF Spec, NoLateDispatch

-----------------------------------------------------------------------------
(* Nested groups never wait for each other                                 *)

\* A worker is at the head of its loop, a group can settle or end, or a thunk can return.
CanWork(g) == loops[g] > 0 \/ (group[g] = "open" /\ Drained(g)) \/ group[g] = "settling"
Unstuck == (\E g \in Groups : Active(g)) =>
              (\E g \in Groups : CanWork(g)) \/ \E b \in Branches : Free(b)

LEMMA FiniteBranches == IsFiniteSet(Branches)
<1> DEFINE Rows == {{g} \X (1..Total[g]) : g \in Groups}
           f == [g \in Groups |-> {g} \X (1..Total[g])]
<1>1. IsFiniteSet(Groups)
  BY GroupsAssumption
<1>2. f \in Surjection(Groups, Rows)
  BY DEF Surjection
<1>3. IsFiniteSet(Rows)
  <2> HIDE DEF Rows, f
  <2> QED
    BY <1>1, <1>2, FS_Surjection
<1>4. ASSUME NEW R \in Rows PROVE IsFiniteSet(R)
  <2>1. PICK g \in Groups : R = {g} \X (1..Total[g])
    OBVIOUS
  <2>2. Total[g] \in Nat
    BY GroupsAssumption
  <2>3. IsFiniteSet(1..Total[g])
    BY <2>2, FS_Interval
  <2>4. IsFiniteSet({g})
    BY FS_Singleton
  <2>5. IsFiniteSet({g} \X (1..Total[g]))
    BY <2>3, <2>4, FS_Product
  <2> QED
    BY <2>1, <2>5
<1>5. IsFiniteSet(UNION Rows)
  <2> HIDE DEF Rows
  <2> QED
    BY <1>3, <1>4, FS_UNION
<1> QED
  BY <1>5 DEF Branches

(* An active group that cannot work has a running branch that waits for a   *)
(* group deeper in the tree.                                               *)
LEMMA WaitsBelow ==
  ASSUME GroupsInv, NEW g \in Groups, Active(g), ~CanWork(g), \A b \in Branches : ~Free(b)
  PROVE  \E n \in Groups : Active(n) /\ \E b \in Branches : Above[n] = {b} \cup Above[g] /\ b \notin Above[g]
<1>1. group[g] = "open" /\ loops[g] = 0
  BY DEF GroupsInv, TypeOK, Active, CanWork
<1>2. PICK b \in Branches : GroupOf(b) = g /\ branch[b] = "running"
  BY <1>1 DEF CanWork, Drained, In, BranchesOf
<1>3. PICK n \in Groups : Host[n] = b /\ Active(n)
  BY <1>2 DEF Free
<1>4. Host[n] # Script
  BY <1>3, TreeAssumption
<1> QED
  BY <1>2, <1>3, <1>4, TreeAssumption, NestingAssumption

(* runScheduled() keeps no worker for a branch that waits: whatever the      *)
(* tree, the widths and the failures, while a group is open or settling a   *)
(* worker or a thunk somewhere has a step to take.                         *)
THEOREM GroupsNeverStick == Spec => []Unstuck
<1>1. ASSUME GroupsInv PROVE Unstuck
  <2> SUFFICES ASSUME NEW a \in Groups, Active(a),
                      \A g \in Groups : ~CanWork(g), \A b \in Branches : ~Free(b)
               PROVE  FALSE
    BY DEF Unstuck
  <2> DEFINE Busy == {g \in Groups : Active(g)}
             Rest(g) == Branches \ Above[g]
             T == {Rest(g) : g \in Busy}
  <2>1. IsWellFoundedOn(StrictSubsetOrdering(Branches), SUBSET Branches)
    <3>1. FiniteSubsetsOf(Branches) = SUBSET Branches
      BY FiniteBranches, FS_FiniteSubsetsOfFinite
    <3> QED
      BY <3>1, FiniteBranches, FS_StrictSubsetOrderingWellFounded
  <2>2. T \subseteq SUBSET Branches /\ T # {}
    OBVIOUS
  <2>3. PICK x \in T : \A y \in T : ~ (<<y, x>> \in StrictSubsetOrdering(Branches))
    BY <2>1, <2>2, WFMin
  <2>4. PICK g \in Busy : x = Rest(g)
    BY <2>3
  <2>5. PICK n \in Groups : Active(n) /\ \E b \in Branches : Above[n] = {b} \cup Above[g] /\ b \notin Above[g]
    BY <1>1, <2>4, WaitsBelow
  <2>6. Rest(n) \in T /\ Rest(n) \subseteq x /\ Rest(n) # x
    BY <2>4, <2>5
  <2> HIDE DEF T, Rest
  <2>7. <<Rest(n), x>> \in StrictSubsetOrdering(Branches)
    BY <2>2, <2>3, <2>6 DEF StrictSubsetOrdering
  <2> QED
    BY <2>3, <2>6, <2>7
<1> QED
  BY <1>1, GroupsInvariant, PTL
=============================================================================
