-------------------------- MODULE WorkflowRun_proofs --------------------------
(***************************************************************************)
(* Proofs about the life of root runs, for every finite set of runs and     *)
(* continuations.                                                          *)
(*                                                                         *)
(* What a run holds, and what its script did, is told by where its runner   *)
(* stands; a verdict that is still a success at one step of the terminal    *)
(* sequence has kept everything it rests on up to that step.               *)
(***************************************************************************)
EXTENDS WorkflowRun, FiniteSetTheorems, TLAPS

Unadmitted == {"new", "admission", "leasing"}
Prepared == {"preparing", "binding", "loading"}
Undecided == Unadmitted \cup Prepared \cup {"script", "finish", "evidence", "deciding", "thrown"}
Decided == {"claim", "text", "release", "report", "persisting", "ended"}
LetGo == {"report", "persisting", "ended"}
Unclaimed == Decided \ {"claim"}

RunTypeOK ==
    /\ at \in [Runs -> Waiting \cup Turn]
    /\ owner \in Runs \cup {NoRun}
    /\ lease \in [Runs -> {"none", "held", "lost", "released", "kept"}]
    /\ claim \in [Runs -> {"none", "held", "bound", "released", "kept"}]
    /\ script \in [Runs -> {"idle", "running", "settled"}]
    /\ work \in [Runs -> {"none", "running"}]
    /\ declared \in [Runs -> BOOLEAN] /\ aborted \in [Runs -> BOOLEAN] /\ ok \in [Runs -> BOOLEAN]
    /\ disposition \in [Runs -> Dispositions]
    /\ result \in [Runs -> Dispositions] /\ told \in [Runs -> Dispositions]
    /\ alive \in BOOLEAN /\ disturbed \in BOOLEAN

\* One run at a time is inside a turn.
OneTurn == \A q, r \in Runs : at[q] \in Turn /\ at[r] \in Turn => q = r

\* The lease of a run, by where its runner stands.
LeaseStands(r) ==
    /\ at[r] \in Unadmitted => lease[r] = "none"
    /\ at[r] \in Prepared \cup {"script"} => lease[r] = "held"
    /\ at[r] \in LetGo => lease[r] # "held"
    /\ lease[r] \in {"released", "kept"} => at[r] \in LetGo
    /\ owner = r => lease[r] \in {"held", "kept"}
    /\ lease[r] = "held" /\ ~disturbed => owner = r
    /\ lease[r] = "kept" => disposition[r] = "failed"

\* Its handoff claim.
ClaimStands(r) ==
    r \in Continuations =>
       /\ at[r] = "script" \/ script[r] # "idle" => claim[r] = "bound"
       /\ at[r] = "loading" => claim[r] = "bound"
       /\ at[r] \in Unclaimed => claim[r] # "held"
       /\ claim[r] = "kept" => at[r] \in Unclaimed /\ disposition[r] = "failed"

\* Its script, and the work that this started.
ScriptStands(r) ==
    /\ at[r] \in Unadmitted \cup Prepared \cup {"thrown"} => script[r] = "idle"
    /\ at[r] = "script" => script[r] = "running"
    /\ script[r] = "running" /\ ~disturbed => at[r] = "script"
    /\ script[r] = "idle" => work[r] = "none"

\* Its verdict: a success rests on a script that settled and a lease that is held.
VerdictStands(r) ==
    /\ at[r] \in Undecided => disposition[r] = "none"
    /\ at[r] \in {"finish", "evidence", "deciding"} /\ ok[r] => script[r] = "settled" /\ lease[r] = "held"
    /\ disposition[r] \in Success =>
         script[r] = "settled" /\ ~aborted[r] /\ lease[r] = (IF at[r] \in LetGo THEN "released" ELSE "held")
    /\ at[r] # "ended" => result[r] = "none" /\ told[r] = "none"
    /\ result[r] \in {"none", disposition[r]}
    /\ told[r] \in Success => told[r] = disposition[r]

RunStands(r) == LeaseStands(r) /\ ClaimStands(r) /\ ScriptStands(r) /\ VerdictStands(r)

RunInv == RunTypeOK /\ OneTurn /\ \A r \in Runs : RunStands(r)

LEMMA RunInit == Init => RunInv
<1> SUFFICES ASSUME Init PROVE RunInv
  OBVIOUS
<1>1. RunTypeOK
  BY RunsAssumption DEF Init, RunTypeOK, Waiting, Dispositions
<1>2. OneTurn
  BY DEF Init, OneTurn, Turn
<1>3. ASSUME NEW r \in Runs PROVE RunStands(r)
  BY RunsAssumption DEF Init, RunStands, LeaseStands, ClaimStands, ScriptStands, VerdictStands, Success, Prepared,
     Decided, Unclaimed
<1> QED
  BY <1>1, <1>2, <1>3 DEF RunInv

-----------------------------------------------------------------------------
\* What a step of run r leaves alone.
OnlyRun(r) ==
    /\ \A q \in Runs \ {r} :
          /\ at'[q] = at[q] /\ lease'[q] = lease[q] /\ claim'[q] = claim[q] /\ script'[q] = script[q]
          /\ work'[q] = work[q]
          /\ aborted'[q] = aborted[q] /\ ok'[q] = ok[q]
          /\ disposition'[q] = disposition[q] /\ result'[q] = result[q] /\ told'[q] = told[q]
    /\ owner' = owner \/ (owner = NoRun /\ owner' = r) \/ (owner = r /\ owner' = NoRun)
    /\ disturbed' = disturbed
    /\ at[r] \in Turn \/ \A q \in Runs : at[q] \notin Turn

\* Such a step keeps the invariant if it keeps it of run r.
LEMMA OneRunMoves ==
  ASSUME RunInv, NEW r \in Runs, OnlyRun(r), RunTypeOK', RunStands(r)'
  PROVE  RunInv'
<1>1. OneTurn'
  BY DEF RunInv, OneTurn, OnlyRun
<1>2. ASSUME NEW q \in Runs \ {r} PROVE RunStands(q)'
  <2>1. RunStands(q) /\ q # r /\ q # NoRun
    BY RunsAssumption DEF RunInv
  <2>2. LeaseStands(q)'
    BY <2>1 DEF RunStands, LeaseStands, OnlyRun
  <2>3. ClaimStands(q)' /\ ScriptStands(q)'
    BY <2>1 DEF RunStands, ClaimStands, ScriptStands, OnlyRun
  <2>4. VerdictStands(q)'
    BY <2>1 DEF RunStands, VerdictStands, OnlyRun
  <2> QED
    BY <2>2, <2>3, <2>4 DEF RunStands
<1> QED
  BY <1>1, <1>2 DEF RunInv

LEMMA LaunchKeeps == ASSUME RunInv, NEW r \in Runs, Launch(r) PROVE RunInv'
<1>0. RunTypeOK /\ RunStands(r) /\ r # NoRun
  BY RunsAssumption DEF RunInv
<1>1. RunTypeOK'
  BY <1>0 DEF Launch, Goto, Fail, Escape, RunTypeOK, Waiting
<1>2. OnlyRun(r)
  BY <1>0 DEF Launch, Goto, Fail, Escape, Awaited, Between, RunTypeOK, OnlyRun
<1>3. LeaseStands(r)'
  BY <1>0 DEF Launch, Goto, Fail, Escape, Awaited, Between, RunTypeOK, RunStands, LeaseStands, Unadmitted, Prepared
<1>4. ClaimStands(r)' /\ ScriptStands(r)'
  BY <1>0 DEF Launch, Goto, Fail, Escape, Awaited, Between, RunTypeOK, RunStands, ClaimStands, ScriptStands, Unadmitted, Decided,
     Unclaimed
<1>5. VerdictStands(r)'
  BY <1>0 DEF Launch, Goto, Fail, Escape, Awaited, Between, RunTypeOK, RunStands, ScriptStands, VerdictStands, Unadmitted, Undecided
<1> QED
  BY <1>2, <1>1, <1>3, <1>4, <1>5, OneRunMoves DEF RunStands

LEMMA AdmitKeeps == ASSUME RunInv, NEW r \in Runs, Admit(r) PROVE RunInv'
<1>0. RunTypeOK /\ RunStands(r) /\ r # NoRun
  BY RunsAssumption DEF RunInv
<1>1. RunTypeOK'
  BY <1>0 DEF Admit, Goto, Fail, RunTypeOK, Waiting, Turn
<1>2. OnlyRun(r)
  BY <1>0 DEF Admit, Goto, Fail, Awaited, Between, RunTypeOK, OnlyRun
<1>3. LeaseStands(r)'
  BY <1>0 DEF Admit, Goto, Fail, Awaited, Between, RunTypeOK, RunStands, LeaseStands, Unadmitted, Prepared
<1>4. ClaimStands(r)' /\ ScriptStands(r)'
  BY <1>0 DEF Admit, Goto, Fail, Awaited, Between, RunTypeOK, RunStands, ClaimStands, ScriptStands, Unadmitted, Decided,
     Unclaimed
<1>5. VerdictStands(r)'
  BY <1>0 DEF Admit, Goto, Fail, Awaited, Between, RunTypeOK, RunStands, ScriptStands, VerdictStands, Unadmitted, Undecided
<1> QED
  BY <1>2, <1>1, <1>3, <1>4, <1>5, OneRunMoves DEF RunStands

LEMMA AcquireLeaseKeeps == ASSUME RunInv, NEW r \in Runs, AcquireLease(r) PROVE RunInv'
<1>0. RunTypeOK /\ RunStands(r) /\ r # NoRun
  BY RunsAssumption DEF RunInv
<1>1. RunTypeOK'
  BY <1>0 DEF AcquireLease, Goto, Fail, RunTypeOK, Waiting, Turn
<1>2. OnlyRun(r)
  BY <1>0 DEF AcquireLease, Goto, Fail, InTurn, RunTypeOK, OnlyRun, Turn
<1>3. LeaseStands(r)'
  BY <1>0 DEF AcquireLease, Goto, Fail, InTurn, RunTypeOK, RunStands, LeaseStands, Unadmitted, Prepared, LetGo
<1>4. ClaimStands(r)' /\ ScriptStands(r)'
  BY <1>0 DEF AcquireLease, Goto, Fail, InTurn, RunTypeOK, RunStands, ClaimStands, ScriptStands, Unadmitted, Decided,
     Unclaimed
<1>5. VerdictStands(r)'
  BY <1>0 DEF AcquireLease, Goto, Fail, InTurn, RunTypeOK, RunStands, ScriptStands, VerdictStands, Unadmitted,
     Undecided
<1> QED
  BY <1>2, <1>1, <1>3, <1>4, <1>5, OneRunMoves DEF RunStands

LEMMA PrepareKeeps == ASSUME RunInv, NEW r \in Runs, Prepare(r) PROVE RunInv'
<1>0. RunTypeOK /\ RunStands(r) /\ r # NoRun
  BY RunsAssumption DEF RunInv
<1>1. RunTypeOK'
  BY <1>0 DEF Prepare, Goto, Fail, Escape, RunTypeOK, Waiting, Turn
<1>2. OnlyRun(r)
  BY <1>0 DEF Prepare, Goto, Fail, Escape, InTurn, RunTypeOK, OnlyRun, Turn
<1>3. LeaseStands(r)'
  BY <1>0 DEF Prepare, Goto, Fail, Escape, InTurn, RunTypeOK, RunStands, LeaseStands, Unadmitted, Prepared, LetGo
<1>4. ClaimStands(r)' /\ ScriptStands(r)'
  BY <1>0 DEF Prepare, Goto, Fail, Escape, InTurn, RunTypeOK, RunStands, ClaimStands, ScriptStands, Prepared, Decided,
     Unclaimed
<1>5. VerdictStands(r)'
  BY <1>0 DEF Prepare, Goto, Fail, Escape, InTurn, RunTypeOK, RunStands, ScriptStands, VerdictStands, Prepared, Undecided
<1> QED
  BY <1>2, <1>1, <1>3, <1>4, <1>5, OneRunMoves DEF RunStands

LEMMA BindClaimKeeps == ASSUME RunInv, NEW r \in Runs, BindClaim(r) PROVE RunInv'
<1>0. RunTypeOK /\ RunStands(r) /\ r # NoRun
  BY RunsAssumption DEF RunInv
<1>1. RunTypeOK'
  BY <1>0 DEF BindClaim, Goto, Fail, Escape, RunTypeOK, Waiting
<1>2. OnlyRun(r)
  BY <1>0 DEF BindClaim, Goto, Fail, Escape, InTurn, RunTypeOK, OnlyRun, Turn
<1>3. LeaseStands(r)'
  BY <1>0 DEF BindClaim, Goto, Fail, Escape, InTurn, RunTypeOK, RunStands, LeaseStands, Unadmitted, Prepared, LetGo
<1>4. ClaimStands(r)' /\ ScriptStands(r)'
  BY <1>0 DEF BindClaim, Goto, Fail, Escape, InTurn, RunTypeOK, RunStands, ClaimStands, ScriptStands, Prepared, Decided,
     Unclaimed
<1>5. VerdictStands(r)'
  BY <1>0 DEF BindClaim, Goto, Fail, Escape, InTurn, RunTypeOK, RunStands, ScriptStands, VerdictStands, Prepared, Undecided
<1> QED
  BY <1>2, <1>1, <1>3, <1>4, <1>5, OneRunMoves DEF RunStands

LEMMA EnterKeeps == ASSUME RunInv, NEW r \in Runs, Enter(r) PROVE RunInv'
<1>0. RunTypeOK /\ RunStands(r) /\ r # NoRun
  BY RunsAssumption DEF RunInv
<1>1. RunTypeOK'
  BY <1>0 DEF Enter, Goto, Fail, RunTypeOK, Waiting
<1>2. OnlyRun(r)
  BY <1>0 DEF Enter, Goto, Fail, Awaited, Between, RunTypeOK, OnlyRun
<1>3. LeaseStands(r)'
  BY <1>0 DEF Enter, Goto, Fail, Awaited, Between, RunTypeOK, RunStands, LeaseStands, Unadmitted, Prepared, LetGo
<1>4. ClaimStands(r)' /\ ScriptStands(r)'
  BY <1>0 DEF Enter, Goto, Fail, Awaited, Between, RunTypeOK, RunStands, ClaimStands, ScriptStands, Unadmitted, Prepared
<1>5. VerdictStands(r)'
  BY <1>0 DEF Enter, Goto, Fail, Awaited, Between, RunTypeOK, RunStands, ScriptStands, VerdictStands, Prepared, Undecided
<1> QED
  BY <1>2, <1>1, <1>3, <1>4, <1>5, OneRunMoves DEF RunStands

LEMMA DeclareAwaitKeeps == ASSUME RunInv, NEW r \in Runs, DeclareAwait(r) PROVE RunInv'
<1>0. RunTypeOK /\ RunStands(r) /\ r # NoRun
  BY RunsAssumption DEF RunInv
<1>1. RunTypeOK'
  BY <1>0 DEF DeclareAwait, RunTypeOK
<1>2. OnlyRun(r)
  BY <1>0 DEF Between, DeclareAwait, OnlyRun
<1>3. LeaseStands(r)'
  BY <1>0 DEF DeclareAwait, RunStands, LeaseStands
<1>4. ClaimStands(r)' /\ ScriptStands(r)'
  BY <1>0 DEF DeclareAwait, RunStands, ClaimStands, ScriptStands
<1>5. VerdictStands(r)'
  BY <1>0 DEF DeclareAwait, RunStands, VerdictStands
<1> QED
  BY <1>2, <1>1, <1>3, <1>4, <1>5, OneRunMoves DEF RunStands

LEMMA StartWorkKeeps == ASSUME RunInv, NEW r \in Runs, StartWork(r) PROVE RunInv'
<1>0. RunTypeOK /\ RunStands(r) /\ r # NoRun
  BY RunsAssumption DEF RunInv
<1>1. RunTypeOK'
  BY <1>0 DEF StartWork, RunTypeOK
<1>2. OnlyRun(r)
  BY <1>0 DEF Between, StartWork, OnlyRun, RunTypeOK
<1>3. LeaseStands(r)'
  BY <1>0 DEF StartWork, RunStands, LeaseStands
<1>4. ClaimStands(r)' /\ ScriptStands(r)'
  BY <1>0 DEF StartWork, RunTypeOK, RunStands, ClaimStands, ScriptStands
<1>5. VerdictStands(r)'
  BY <1>0 DEF StartWork, RunStands, VerdictStands
<1> QED
  BY <1>2, <1>1, <1>3, <1>4, <1>5, OneRunMoves DEF RunStands

LEMMA WorkSettlesKeeps == ASSUME RunInv, NEW r \in Runs, WorkSettles(r) PROVE RunInv'
<1>0. RunTypeOK /\ RunStands(r) /\ r # NoRun
  BY RunsAssumption DEF RunInv
<1>1. RunTypeOK'
  BY <1>0 DEF WorkSettles, RunTypeOK
<1>2. OnlyRun(r)
  BY <1>0 DEF Between, WorkSettles, OnlyRun, RunTypeOK
<1>3. LeaseStands(r)'
  BY <1>0 DEF WorkSettles, RunStands, LeaseStands
<1>4. ClaimStands(r)' /\ ScriptStands(r)'
  BY <1>0 DEF WorkSettles, RunTypeOK, RunStands, ClaimStands, ScriptStands
<1>5. VerdictStands(r)'
  BY <1>0 DEF WorkSettles, RunStands, VerdictStands
<1> QED
  BY <1>2, <1>1, <1>3, <1>4, <1>5, OneRunMoves DEF RunStands

LEMMA ScriptSettlesKeeps == ASSUME RunInv, NEW r \in Runs, ScriptSettles(r) PROVE RunInv'
<1>0. RunTypeOK /\ RunStands(r) /\ r # NoRun
  BY RunsAssumption DEF RunInv
<1>1. RunTypeOK'
  BY <1>0 DEF ScriptSettles, Goto, RunTypeOK, Waiting
<1>2. OnlyRun(r)
  BY <1>0 DEF Between, ScriptSettles, Goto, RunTypeOK, OnlyRun
<1>3. LeaseStands(r)'
  BY <1>0 DEF ScriptSettles, Goto, RunTypeOK, RunStands, LeaseStands, Unadmitted, LetGo
<1>4. ClaimStands(r)' /\ ScriptStands(r)'
  BY <1>0 DEF ScriptSettles, Goto, RunTypeOK, RunStands, ClaimStands, ScriptStands, Unadmitted, Prepared
<1>5. VerdictStands(r)'
  BY <1>0 DEF ScriptSettles, Goto, RunTypeOK, RunStands, LeaseStands, VerdictStands, Undecided
<1> QED
  BY <1>2, <1>1, <1>3, <1>4, <1>5, OneRunMoves DEF RunStands

LEMMA AbortKeeps == ASSUME RunInv, NEW r \in Runs, Abort(r) PROVE RunInv'
<1>0. RunTypeOK /\ RunStands(r) /\ r # NoRun
  BY RunsAssumption DEF RunInv
<1>1. RunTypeOK'
  BY <1>0 DEF Abort, RunTypeOK
<1>2. OnlyRun(r)
  BY <1>0 DEF Between, Abort, OnlyRun
<1>3. LeaseStands(r)'
  BY <1>0 DEF Abort, RunStands, LeaseStands
<1>4. ClaimStands(r)' /\ ScriptStands(r)'
  BY <1>0 DEF Abort, RunStands, ClaimStands, ScriptStands
<1>5. VerdictStands(r)'
  BY <1>0 DEF Abort, Between, RunTypeOK, RunStands, VerdictStands, Waiting, Unadmitted, Prepared, Undecided, Success
<1> QED
  BY <1>2, <1>1, <1>3, <1>4, <1>5, OneRunMoves DEF RunStands

LEMMA CheckFenceKeeps == ASSUME RunInv, NEW r \in Runs, CheckFence(r) PROVE RunInv'
<1>0. RunTypeOK /\ RunStands(r) /\ r # NoRun
  BY RunsAssumption DEF RunInv
<1>1. RunTypeOK'
  BY <1>0 DEF CheckFence, Goto, RunTypeOK, Turn
<1>2. OnlyRun(r)
  BY <1>0 DEF CheckFence, Goto, Awaited, Between, RunTypeOK, OnlyRun
<1>3. LeaseStands(r)'
  BY <1>0 DEF CheckFence, Goto, Awaited, Between, RunTypeOK, RunStands, LeaseStands, Unadmitted, Prepared, LetGo
<1>4. ClaimStands(r)' /\ ScriptStands(r)'
  BY <1>0 DEF CheckFence, Goto, Awaited, Between, RunStands, ClaimStands, ScriptStands, Unadmitted, Prepared, Decided,
     Unclaimed
<1>5. VerdictStands(r)'
  BY <1>0 DEF CheckFence, Goto, Awaited, Between, RunTypeOK, RunStands, VerdictStands, Undecided, Success
<1> QED
  BY <1>2, <1>1, <1>3, <1>4, <1>5, OneRunMoves DEF RunStands

LEMMA EvidenceKeeps == ASSUME RunInv, NEW r \in Runs, Evidence(r) PROVE RunInv'
<1>0. RunTypeOK /\ RunStands(r) /\ r # NoRun
  BY RunsAssumption DEF RunInv
<1>1. RunTypeOK'
  <2>1. PICK verdict \in BOOLEAN : ok' = [ok EXCEPT ![r] = verdict]
    BY <1>0 DEF Evidence, RunTypeOK
  <2>2. ok' \in [Runs -> BOOLEAN]
    BY <1>0, <2>1 DEF RunTypeOK
  <2>3. at' \in [Runs -> Waiting \cup Turn]
    BY <1>0 DEF Evidence, Goto, RunTypeOK, Turn
  <2> QED
    BY <1>0, <2>2, <2>3 DEF Evidence, RunTypeOK
<1>2. OnlyRun(r)
  BY <1>0 DEF Evidence, Goto, InTurn, OnlyRun, Turn
<1>3. LeaseStands(r)'
  BY <1>0 DEF Evidence, Goto, InTurn, RunStands, LeaseStands, Unadmitted, Prepared, LetGo
<1>4. ClaimStands(r)' /\ ScriptStands(r)'
  BY <1>0 DEF Evidence, Goto, InTurn, RunStands, ClaimStands, ScriptStands, Unadmitted, Prepared, Decided, Unclaimed
<1>5. VerdictStands(r)'
  BY <1>0 DEF Evidence, Goto, InTurn, RunTypeOK, RunStands, VerdictStands, Undecided, Success
<1> QED
  BY <1>2, <1>1, <1>3, <1>4, <1>5, OneRunMoves DEF RunStands

LEMMA DecideKeeps == ASSUME RunInv, NEW r \in Runs, Decide(r) PROVE RunInv'
<1>0. RunTypeOK /\ RunStands(r) /\ r # NoRun
  BY RunsAssumption DEF RunInv
<1>1. RunTypeOK'
  BY <1>0 DEF Decide, Goto, Disposition, RunTypeOK, Turn, Dispositions, Success, Failure
<1>2. OnlyRun(r)
  BY <1>0 DEF Decide, Goto, InTurn, Disposition, OnlyRun, Turn
<1>3. LeaseStands(r)'
  BY <1>0 DEF Decide, Goto, InTurn, Disposition, RunStands, LeaseStands, Unadmitted, Prepared, LetGo
<1>4. ClaimStands(r)' /\ ScriptStands(r)'
  BY <1>0 DEF Decide, Goto, InTurn, Disposition, RunStands, ClaimStands, ScriptStands, Unadmitted, Prepared, Decided,
     Unclaimed
<1>5. VerdictStands(r)'
  BY <1>0 DEF Decide, Goto, InTurn, Disposition, RunTypeOK, RunStands, VerdictStands, Unadmitted, Prepared, Undecided,
     LetGo, Success
<1> QED
  BY <1>2, <1>1, <1>3, <1>4, <1>5, OneRunMoves DEF RunStands

LEMMA ReleaseClaimKeeps == ASSUME RunInv, NEW r \in Runs, ReleaseClaim(r) PROVE RunInv'
<1>0. RunTypeOK /\ RunStands(r) /\ r # NoRun
  BY RunsAssumption DEF RunInv
<1>1. RunTypeOK'
  BY <1>0 DEF ReleaseClaim, Goto, InTurn, Overrule, RunTypeOK, Turn, Dispositions, Failure
<1>2. OnlyRun(r)
  BY <1>0 DEF ReleaseClaim, Goto, InTurn, Overrule, RunTypeOK, OnlyRun, Turn
<1>3. LeaseStands(r)'
  BY <1>0 DEF ReleaseClaim, Goto, InTurn, Overrule, RunStands, LeaseStands, Unadmitted, Prepared, LetGo
<1>4. ClaimStands(r)' /\ ScriptStands(r)'
  BY <1>0 DEF ReleaseClaim, Goto, InTurn, Overrule, RunTypeOK, RunStands, ClaimStands, ScriptStands, Unadmitted,
     Prepared, Decided, Unclaimed
<1>5. VerdictStands(r)'
  BY <1>0 DEF ReleaseClaim, Goto, InTurn, Overrule, RunTypeOK, RunStands, VerdictStands, Unadmitted, Prepared,
     Undecided, LetGo, Success
<1> QED
  BY <1>2, <1>1, <1>3, <1>4, <1>5, OneRunMoves DEF RunStands

LEMMA WriteTextKeeps == ASSUME RunInv, NEW r \in Runs, WriteText(r) PROVE RunInv'
<1>0. RunTypeOK /\ RunStands(r) /\ r # NoRun
  BY RunsAssumption DEF RunInv
<1>1. RunTypeOK'
  <2>1. disposition' \in [Runs -> Dispositions] /\ ok' \in [Runs -> BOOLEAN]
    <3>1. CASE UNCHANGED <<disposition, ok>>
      BY <1>0, <3>1 DEF RunTypeOK
    <3>2. CASE Overrule(r)
      BY <1>0, <3>2 DEF Overrule, RunTypeOK, Dispositions, Failure
    <3> QED
      BY <3>1, <3>2 DEF WriteText
  <2>2. at' \in [Runs -> Waiting \cup Turn]
    BY <1>0 DEF WriteText, Goto, RunTypeOK, Turn
  <2> QED
    BY <1>0, <2>1, <2>2 DEF WriteText, RunTypeOK
<1>2. OnlyRun(r)
  BY <1>0 DEF WriteText, Goto, InTurn, Overrule, RunTypeOK, OnlyRun, Turn
<1>3. LeaseStands(r)'
  BY <1>0 DEF WriteText, Goto, InTurn, Overrule, RunStands, LeaseStands, Unadmitted, Prepared, LetGo
<1>4. ClaimStands(r)' /\ ScriptStands(r)'
  BY <1>0 DEF WriteText, Goto, InTurn, Overrule, RunTypeOK, RunStands, ClaimStands, ScriptStands, Unadmitted, Prepared,
     Decided, Unclaimed
<1>5. VerdictStands(r)'
  BY <1>0 DEF WriteText, Goto, InTurn, Overrule, RunTypeOK, RunStands, VerdictStands, Unadmitted, Prepared, Undecided,
     LetGo, Success
<1> QED
  BY <1>2, <1>1, <1>3, <1>4, <1>5, OneRunMoves DEF RunStands

LEMMA ReleaseLeaseKeeps == ASSUME RunInv, NEW r \in Runs, ReleaseLease(r) PROVE RunInv'
<1>0. RunTypeOK /\ RunStands(r) /\ r # NoRun
  BY RunsAssumption DEF RunInv
<1>1. RunTypeOK'
  <2>1. at' \in [Runs -> Waiting \cup Turn]
    BY <1>0 DEF ReleaseLease, Goto, RunTypeOK, Turn
  <2>2. disposition' \in [Runs -> Dispositions] /\ ok' \in [Runs -> BOOLEAN]
    BY <1>0 DEF ReleaseLease, Overrule, RunTypeOK, Dispositions, Failure
  <2>3. lease' \in [Runs -> {"none", "held", "lost", "released", "kept"}] /\ owner' \in Runs \cup {NoRun}
    BY <1>0 DEF ReleaseLease, RunTypeOK
  <2> QED
    BY <1>0, <2>1, <2>2, <2>3 DEF ReleaseLease, RunTypeOK
<1>2. OnlyRun(r)
  BY <1>0 DEF ReleaseLease, Goto, InTurn, Overrule, RunTypeOK, OnlyRun, Turn
<1>3. LeaseStands(r)'
  BY <1>0 DEF ReleaseLease, Goto, Overrule, RunTypeOK, RunStands, LeaseStands, Unadmitted, Prepared, LetGo
<1>4. ClaimStands(r)' /\ ScriptStands(r)'
  BY <1>0 DEF ReleaseLease, Goto, InTurn, Overrule, RunTypeOK, RunStands, ClaimStands, ScriptStands, Unadmitted,
     Prepared, Decided, Unclaimed
<1>5. VerdictStands(r)'
  BY <1>0 DEF ReleaseLease, Goto, InTurn, Overrule, RunTypeOK, RunStands, VerdictStands, Unadmitted, Prepared,
     Undecided, LetGo, Success
<1> QED
  BY <1>2, <1>1, <1>3, <1>4, <1>5, OneRunMoves DEF RunStands

LEMMA WriteReportKeeps == ASSUME RunInv, NEW r \in Runs, WriteReport(r) PROVE RunInv'
<1>0. RunTypeOK /\ RunStands(r) /\ r # NoRun
  BY RunsAssumption DEF RunInv
<1>1. RunTypeOK'
  BY <1>0 DEF WriteReport, Goto, RunTypeOK, Turn
<1>2. OnlyRun(r)
  BY <1>0 DEF WriteReport, Goto, InTurn, OnlyRun, Turn
<1>3. LeaseStands(r)'
  BY <1>0 DEF WriteReport, Goto, InTurn, RunStands, LeaseStands, Unadmitted, Prepared, LetGo
<1>4. ClaimStands(r)' /\ ScriptStands(r)'
  BY <1>0 DEF WriteReport, Goto, InTurn, RunStands, ClaimStands, ScriptStands, Unadmitted, Prepared, Decided,
     Unclaimed
<1>5. VerdictStands(r)'
  BY <1>0 DEF WriteReport, Goto, InTurn, RunStands, VerdictStands, Unadmitted, Prepared, Undecided, LetGo
<1> QED
  BY <1>2, <1>1, <1>3, <1>4, <1>5, OneRunMoves DEF RunStands

LEMMA PersistKeeps == ASSUME RunInv, NEW r \in Runs, Persist(r) PROVE RunInv'
<1>0. RunTypeOK /\ RunStands(r) /\ r # NoRun
  BY RunsAssumption DEF RunInv
<1>1. RunTypeOK'
  BY <1>0 DEF Persist, Goto, Disposition, RunTypeOK, Waiting, Dispositions, Failure
<1>2. OnlyRun(r)
  BY <1>0 DEF Persist, Goto, InTurn, Disposition, RunTypeOK, OnlyRun, Turn
<1>3. LeaseStands(r)'
  BY <1>0 DEF Persist, Goto, InTurn, Disposition, RunStands, LeaseStands, Unadmitted, Prepared, LetGo
<1>4. ClaimStands(r)' /\ ScriptStands(r)'
  BY <1>0 DEF Persist, Goto, InTurn, Disposition, RunStands, ClaimStands, ScriptStands, Unadmitted, Prepared, Decided,
     Unclaimed
<1>5. VerdictStands(r)'
  BY <1>0 DEF Persist, Goto, InTurn, Disposition, RunTypeOK, RunStands, VerdictStands, Unadmitted, Prepared, Undecided,
     LetGo, Success
<1> QED
  BY <1>2, <1>1, <1>3, <1>4, <1>5, OneRunMoves DEF RunStands
LEMMA OutOfBandFailureKeeps == ASSUME RunInv, OutOfBandFailure PROVE RunInv'
<1>1. RunTypeOK /\ OneTurn
  BY DEF RunInv
<1>2. RunTypeOK' /\ OneTurn'
  <2>1. /\ at' = [r \in Runs |-> IF r \in Guarded THEN "finish" ELSE at[r]]
        /\ ok' = [r \in Runs |-> IF r \in Guarded THEN FALSE ELSE ok[r]]
        /\ disturbed' = TRUE
        /\ UNCHANGED <<owner, lease, claim, script, work, declared, aborted, disposition, result, told, alive>>
    BY DEF OutOfBandFailure
  <2>2. at' \in [Runs -> Waiting \cup Turn]
    BY <1>1, <2>1 DEF RunTypeOK, Waiting
  <2>3. ok' \in [Runs -> BOOLEAN]
    BY <1>1, <2>1 DEF RunTypeOK
  <2>4. RunTypeOK'
    BY <1>1, <2>1, <2>2, <2>3 DEF RunTypeOK
  <2>5. \A r \in Runs : at'[r] \in Turn => at[r] \in Turn
    BY <2>1 DEF Turn
  <2> QED
    BY <1>1, <2>4, <2>5 DEF OneTurn
<1>3. ASSUME NEW r \in Runs PROVE RunStands(r)'
  <2>1. RunStands(r)
    BY DEF RunInv
  <2>2. /\ disturbed' /\ (at[r] = "script" => at'[r] = "finish" /\ ok'[r] = FALSE)
        /\ (at[r] # "script" => at'[r] = at[r] /\ ok'[r] = ok[r])
        /\ UNCHANGED <<owner, lease, claim, script, work, declared, aborted, disposition, result, told>>
    BY DEF OutOfBandFailure, Guarded
  <2>3. LeaseStands(r)'
    BY <2>1, <2>2 DEF RunStands, LeaseStands, Unadmitted, LetGo
  <2>4. ClaimStands(r)' /\ ScriptStands(r)'
    BY <2>1, <2>2 DEF RunStands, ClaimStands, ScriptStands, Unadmitted, Prepared
  <2>5. VerdictStands(r)'
    BY <2>1, <2>2 DEF RunStands, VerdictStands, Undecided, LetGo
  <2> QED
    BY <2>3, <2>4, <2>5 DEF RunStands
<1> QED
  BY <1>2, <1>3 DEF RunInv

LEMMA LeaseRemovedKeeps == ASSUME RunInv, LeaseRemoved PROVE RunInv'
BY RunsAssumption DEF LeaseRemoved, RunInv, RunTypeOK, OneTurn, RunStands, LeaseStands, ClaimStands, ScriptStands,
   VerdictStands

-----------------------------------------------------------------------------
\* Every step keeps the invariant.
LEMMA RunNext == RunInv /\ [Next]_vars => RunInv'
<1> SUFFICES ASSUME RunInv, [Next]_vars PROVE RunInv'
  OBVIOUS
<1>1. ASSUME NEW r \in Runs, Start(r) PROVE RunInv'
  BY <1>1, LaunchKeeps, AdmitKeeps, AcquireLeaseKeeps, PrepareKeeps, BindClaimKeeps, EnterKeeps DEF Start
<1>2. ASSUME NEW r \in Runs, Finish(r) PROVE RunInv'
  BY <1>2, CheckFenceKeeps, EvidenceKeeps, DecideKeeps, ReleaseClaimKeeps, WriteTextKeeps, ReleaseLeaseKeeps,
     WriteReportKeeps, PersistKeeps DEF Finish
<1>3. ASSUME NEW r \in Runs, Script(r) \/ Abort(r) PROVE RunInv'
  BY <1>3, DeclareAwaitKeeps, StartWorkKeeps, WorkSettlesKeeps, ScriptSettlesKeeps, AbortKeeps DEF Script
<1>4. ASSUME OutOfBandFailure \/ LeaseRemoved PROVE RunInv'
  BY <1>4, OutOfBandFailureKeeps, LeaseRemovedKeeps
<1>5. CASE Crash \/ UNCHANGED vars
  <2>1. /\ UNCHANGED <<at, owner, lease, claim, script, work, declared, aborted, ok, disposition, result, told, disturbed>>
        /\ alive' \in BOOLEAN
    BY <1>5 DEF Crash, vars, RunInv, RunTypeOK
  <2>2. RunTypeOK' /\ OneTurn'
    BY <2>1 DEF RunInv, RunTypeOK, OneTurn
  <2>3. ASSUME NEW r \in Runs PROVE RunStands(r)'
    BY <2>1 DEF RunInv, RunStands, LeaseStands, ClaimStands, ScriptStands, VerdictStands
  <2> QED
    BY <2>2, <2>3 DEF RunInv
<1> QED
  BY <1>1, <1>2, <1>3, <1>4, <1>5 DEF Next

LEMMA RunInvariant == Spec => []RunInv
BY RunInit, RunNext, PTL DEF Spec

\* The variables keep their types, and never are two runs inside their turns.
THEOREM RunTypeCorrect == Spec => []TypeOK
<1>1. RunInv => TypeOK
  <2> SUFFICES ASSUME RunInv PROVE Cardinality({r \in Runs : at[r] \in Turn}) <= 1
    BY DEF RunInv, RunTypeOK, TypeOK
  <2> DEFINE Busy == {r \in Runs : at[r] \in Turn}
  <2>1. CASE Busy = {}
    BY <2>1, FS_EmptySet
  <2>2. CASE Busy # {}
    <3>1. PICK r \in Busy : TRUE
      BY <2>2
    <3>2. Busy = {r}
      BY <3>1 DEF RunInv, OneTurn
    <3>3. Cardinality({r}) = 1
      BY FS_Singleton
    <3> QED
      BY <3>2, <3>3
  <2> QED
    BY <2>1, <2>2
<1> QED
  BY <1>1, RunInvariant, PTL

(* What a run takes, the workspace lease and the handoff claim, it gives    *)
(* back or its result says why not (finishRun), whatever fails on the way   *)
(* inside the runner's tries.  A run whose runner threw outside of them may *)
(* keep both; it never came to its script and claims no outcome.           *)
THEOREM HoldingsStand == Spec => []HoldingsAccounted
<1>1. RunInv => HoldingsAccounted
  <2> SUFFICES ASSUME RunInv PROVE HoldingsAccounted
    OBVIOUS
  <2>1. ASSUME NEW r \in Runs PROVE RunStands(r) /\ at[r] \in Waiting \cup Turn
    BY <2>1 DEF RunInv, RunTypeOK
  <2>2. LeaseAccounted
    BY <2>1 DEF LeaseAccounted, RunStands, LeaseStands, VerdictStands, LetGo
  <2>3. ClaimAccounted
    BY <2>1, RunsAssumption DEF ClaimAccounted, RunStands, ClaimStands, VerdictStands, Decided, Unclaimed
  <2>4. EscapesAccounted
    BY <2>1 DEF EscapesAccounted, RunStands, ScriptStands, VerdictStands
  <2> QED
    BY <2>2, <2>3, <2>4 DEF HoldingsAccounted
<1> QED
  BY <1>1, RunInvariant, PTL

(* A run that is told a success, or has one on disk, had a script that      *)
(* settled and a lease that was its own until it gave it back.              *)
THEOREM SuccessIsEarned == Spec => []SuccessEarned
<1>1. RunInv => SuccessEarned
  BY DEF RunInv, RunStands, VerdictStands, SuccessEarned, Success, LetGo
<1> QED
  BY <1>1, RunInvariant, PTL

(* Undisturbed, no two entries run in one workspace, and no entry outlives  *)
(* the lease of its run.  What an entry started and did not await may.     *)
THEOREM ScriptsAreExclusive == Spec => []ScriptsExclude
<1>1. RunInv => ScriptsExclude
  BY DEF RunInv, RunStands, LeaseStands, ScriptStands, ScriptsExclude
<1> QED
  BY <1>1, RunInvariant, PTL
=============================================================================
