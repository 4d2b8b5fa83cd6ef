----------------------- MODULE WorkflowOperator_proofs -----------------------
(***************************************************************************)
(* Proofs about the operator's side of the workflows, in two chapters: one  *)
(* Pi session, with its background runs, its surface and the continuations  *)
(* it starts; and the claim of a handoff, which several operators contend   *)
(* for.  The two have no state in common.                                  *)
(***************************************************************************)
EXTENDS WorkflowSession, HandoffClaim, FiniteSetTheorems, TLAPS

-----------------------------------------------------------------------------
(***************************************************************************)
(* One Pi session, for every number of runs, generations and requests.      *)
(*                                                                         *)
(* The three parts are proved one by one, each about its own steps; a step  *)
(* of the session is a step of the registry or leaves it alone, and a step  *)
(* of the surface or leaves it alone.                                      *)
(***************************************************************************)
RegistryTypeOK ==
    /\ current \in Nat /\ generation \in Nat /\ lease \in Nat /\ callback \in Nat
    /\ closed \in BOOLEAN
    /\ started \in 0..MaxRuns
    /\ state \in [Runs -> {"new", "running", "stopping", "settled"}]
    /\ leaseOf \in [Runs -> Nat]
    /\ exclusive \subseteq Runs
    /\ receipt \in [Runs -> {"none", "due", "publishing", "done"}]
    /\ awaited = Idle \/ awaited \subseteq Runs

\* The launcher's lease is the newest; it is current until shutdown.
LeaseCurrent ==
    /\ lease = generation /\ current = (IF closed THEN None ELSE lease)
    /\ \A r \in Runs : leaseOf[r] <= generation

\* What has not started has no record.
Recorded ==
    \A r \in Runs :
       /\ state[r] = "new" <=> r > started
       /\ r \in exclusive <=> receipt[r] # "none"
       /\ r \in exclusive => r <= started

\* A command run whose callbacks are due holds the slot of its generation.
CallbackHeld ==
    \A r \in exclusive : IsCurrent(leaseOf[r]) /\ receipt[r] # "done" => callback = leaseOf[r]

\* A shutdown awaits every run that works.
AllAwaited == awaited # Idle => closed /\ Unsettled \subseteq awaited

RegistryInv ==
    RegistryTypeOK /\ LeaseCurrent /\ Recorded /\ CallbackHeld /\ OneCommandRun /\ AllAwaited /\ ShutdownWaits

RegistryNext ==
    \/ awaited = Idle /\ StartSession
    \/ Shutdown \/ ShutdownReturns
    \/ \E r \in Runs : Launch(r) \/ Attach(r) \/ Stop(r) \/ Settle(r) \/ BeginReceipt(r) \/ EndReceipt(r)
    \/ UNCHANGED registryVars

LEMMA RegistryStarts == RegistryInit => RegistryInv
<1> SUFFICES ASSUME RegistryInit PROVE RegistryInv
  OBVIOUS
<1>1. RegistryTypeOK
  <2>1. None \in Nat /\ 0 \in 0..MaxRuns
    BY SessionAssumption DEF None
  <2> QED
    BY <2>1 DEF RegistryInit, RegistryTypeOK
<1>2. LeaseCurrent /\ Recorded
  BY SessionAssumption DEF RegistryInit, LeaseCurrent, Recorded, None, Runs
<1>3. CallbackHeld /\ OneCommandRun /\ AllAwaited /\ ShutdownWaits
  BY DEF RegistryInit, CallbackHeld, OneCommandRun, AllAwaited, ShutdownWaits
<1> QED
  BY <1>1, <1>2, <1>3 DEF RegistryInv

\* Stopping the runs of a generation settles none and starts none.
LEMMA Revoked ==
  ASSUME RegistryTypeOK, NEW g, RevokeGeneration(g)
  PROVE  /\ state' \in [Runs -> {"new", "running", "stopping", "settled"}]
         /\ Unsettled' = Unsettled
         /\ \A r \in Runs : (state'[r] = "settled" <=> state[r] = "settled") /\ (state'[r] = "new" <=> state[r] = "new")
BY DEF RegistryTypeOK, RevokeGeneration, Unsettled

LEMMA StartSessionKeeps == ASSUME RegistryInv, awaited = Idle, StartSession PROVE RegistryInv'
<1> USE DEF RegistryInv
<1>1. /\ generation' = generation + 1 /\ current' = generation + 1 /\ lease' = generation + 1 /\ closed' = FALSE
      /\ UNCHANGED <<callback, started, leaseOf, exclusive, receipt, awaited>>
  BY DEF StartSession
<1>2. /\ state' \in [Runs -> {"new", "running", "stopping", "settled"}] /\ Unsettled' = Unsettled
      /\ \A r \in Runs : (state'[r] = "settled" <=> state[r] = "settled") /\ (state'[r] = "new" <=> state[r] = "new")
  BY Revoked DEF StartSession
<1>3. RegistryTypeOK'
  <2>1. generation + 1 \in Nat
    BY DEF RegistryTypeOK
  <2>2. closed' \in BOOLEAN
    BY <1>1
  <2> QED
    BY <1>1, <1>2, <2>1, <2>2 DEF RegistryTypeOK
<1>4. LeaseCurrent' /\ \A r \in Runs : ~IsCurrent(leaseOf[r])'
  BY <1>1 DEF RegistryTypeOK, LeaseCurrent, IsCurrent
<1>5. Recorded'
  BY <1>1, <1>2 DEF Recorded
<1>6. CallbackHeld' /\ OneCommandRun'
  BY <1>1, <1>2, <1>4 DEF RegistryTypeOK, CallbackHeld, OneCommandRun, IsCurrent
<1>7. AllAwaited' /\ ShutdownWaits'
  BY <1>1 DEF AllAwaited, ShutdownWaits, Idle, None
<1> QED
  BY <1>3, <1>4, <1>5, <1>6, <1>7

LEMMA ShutdownKeeps == ASSUME RegistryInv, Shutdown PROVE RegistryInv'
<1> USE DEF RegistryInv
<1>1. /\ ~closed /\ closed' = TRUE /\ lease # None /\ IsCurrent(lease) /\ awaited = Idle
      /\ UNCHANGED <<generation, lease, callback, started, leaseOf, exclusive, receipt>>
  BY DEF Shutdown, LeaseCurrent, IsCurrent, RegistryTypeOK
<1>2. RevokeGeneration(lease) /\ current' = None /\ awaited' = Unsettled
  BY <1>1 DEF Shutdown
<1>3. /\ state' \in [Runs -> {"new", "running", "stopping", "settled"}] /\ Unsettled' = Unsettled
      /\ \A r \in Runs : (state'[r] = "settled" <=> state[r] = "settled") /\ (state'[r] = "new" <=> state[r] = "new")
  BY <1>2, Revoked
<1>4. RegistryTypeOK'
  BY <1>1, <1>2, <1>3 DEF RegistryTypeOK, None, Unsettled
<1>5. LeaseCurrent' /\ Recorded' /\ CallbackHeld'
  BY <1>1, <1>2, <1>3 DEF LeaseCurrent, Recorded, CallbackHeld, IsCurrent
<1>6. OneCommandRun'
  BY <1>1, <1>2, <1>3 DEF RegistryTypeOK, OneCommandRun, IsCurrent
<1>7. AllAwaited' /\ ShutdownWaits'
  <2>1. None \notin Runs
    BY DEF None, Runs
  <2> QED
    BY <1>1, <1>2, <1>3, <2>1 DEF AllAwaited, ShutdownWaits, Idle, Unsettled
<1> QED
  BY <1>4, <1>5, <1>6, <1>7

LEMMA ShutdownReturnsKeeps == ASSUME RegistryInv, ShutdownReturns PROVE RegistryInv'
BY DEF RegistryInv, ShutdownReturns, RegistryTypeOK, LeaseCurrent, Recorded, CallbackHeld, OneCommandRun, IsCurrent,
   AllAwaited, ShutdownWaits, Unsettled, Idle

\* A run that starts under the current lease.
LEMMA StartRunKeeps ==
  ASSUME RegistryInv, NEW r \in Runs, HasLease, StartRun(r), UNCHANGED <<current, generation, lease, closed, awaited>>
  PROVE  /\ r = started + 1 /\ started' = r /\ leaseOf'[r] = lease /\ state'[r] = "running"
         /\ \A q \in Runs \ {r} : state'[q] = state[q] /\ leaseOf'[q] = leaseOf[q]
         /\ state' \in [Runs -> {"new", "running", "stopping", "settled"}] /\ leaseOf' \in [Runs -> Nat] /\ started' \in 0..MaxRuns
         /\ LeaseCurrent' /\ AllAwaited' /\ ShutdownWaits'
         /\ \A q \in Runs : state'[q] = "new" <=> q > started'
<1> USE SessionAssumption DEF RegistryInv
<1>1. /\ r = started + 1 /\ started' = r
      /\ state' = [state EXCEPT ![r] = "running"] /\ leaseOf' = [leaseOf EXCEPT ![r] = lease]
  BY DEF StartRun
<1>2. /\ leaseOf'[r] = lease /\ state'[r] = "running"
      /\ \A q \in Runs \ {r} : state'[q] = state[q] /\ leaseOf'[q] = leaseOf[q]
      /\ state' \in [Runs -> {"new", "running", "stopping", "settled"}] /\ leaseOf' \in [Runs -> Nat] /\ started' \in 0..MaxRuns
  BY <1>1 DEF RegistryTypeOK, Runs
<1>3. LeaseCurrent'
  BY <1>2 DEF LeaseCurrent, RegistryTypeOK
<1>4. ~closed /\ closed' = FALSE /\ awaited' = Idle
  BY DEF HasLease, AllAwaited, RegistryTypeOK
<1>5. AllAwaited' /\ ShutdownWaits'
  BY <1>4 DEF AllAwaited, ShutdownWaits, Idle, None
<1>6. \A q \in Runs : state'[q] = "new" <=> q > started'
  BY <1>1, <1>2 DEF Recorded, RegistryTypeOK, Runs
<1> QED
  BY <1>1, <1>2, <1>3, <1>5, <1>6

LEMMA LaunchKeeps == ASSUME RegistryInv, NEW r \in Runs, Launch(r) PROVE RegistryInv'
<1> USE DEF RegistryInv
<1>1. /\ HasLease /\ SlotFree /\ StartRun(r)
      /\ exclusive' = exclusive \cup {r} /\ callback' = lease /\ receipt' = [receipt EXCEPT ![r] = "due"]
      /\ UNCHANGED <<current, generation, lease, closed, awaited>>
  BY DEF Launch
<1>2. /\ r = started + 1 /\ started' = r /\ leaseOf'[r] = lease /\ state'[r] = "running"
      /\ \A q \in Runs \ {r} : state'[q] = state[q] /\ leaseOf'[q] = leaseOf[q]
      /\ state' \in [Runs -> {"new", "running", "stopping", "settled"}] /\ leaseOf' \in [Runs -> Nat] /\ started' \in 0..MaxRuns
      /\ LeaseCurrent' /\ AllAwaited' /\ ShutdownWaits'
      /\ \A q \in Runs : state'[q] = "new" <=> q > started'
  BY <1>1, StartRunKeeps
<1>3. RegistryTypeOK'
  BY <1>1, <1>2 DEF RegistryTypeOK
<1>4. \A q \in exclusive : q <= started /\ q # r
  BY <1>2 DEF Recorded, RegistryTypeOK, Runs
<1>5. Recorded'
  BY <1>1, <1>2, <1>4 DEF Recorded, RegistryTypeOK, Runs
<1>6. \A q \in exclusive : state[q] = "settled" /\ (IsCurrent(leaseOf[q]) => receipt[q] = "done")
  BY <1>1, <1>4 DEF SlotFree, Active, Unsettled, CallbackHeld, RegistryTypeOK, Recorded, Runs
<1>7. CallbackHeld'
  BY <1>1, <1>2, <1>4, <1>6 DEF CallbackHeld, RegistryTypeOK, IsCurrent
<1>8. OneCommandRun'
  BY <1>1, <1>2, <1>4, <1>6 DEF OneCommandRun, RegistryTypeOK, IsCurrent, Runs
<1> QED
  BY <1>2, <1>3, <1>5, <1>7, <1>8

LEMMA AttachKeeps == ASSUME RegistryInv, NEW r \in Runs, Attach(r) PROVE RegistryInv'
<1> USE DEF RegistryInv
<1>1. HasLease /\ StartRun(r) /\ UNCHANGED <<current, generation, lease, closed, callback, exclusive, receipt, awaited>>
  BY DEF Attach
<1>2. /\ r = started + 1 /\ started' = r /\ leaseOf'[r] = lease /\ state'[r] = "running"
      /\ \A q \in Runs \ {r} : state'[q] = state[q] /\ leaseOf'[q] = leaseOf[q]
      /\ state' \in [Runs -> {"new", "running", "stopping", "settled"}] /\ leaseOf' \in [Runs -> Nat] /\ started' \in 0..MaxRuns
      /\ LeaseCurrent' /\ AllAwaited' /\ ShutdownWaits'
      /\ \A q \in Runs : state'[q] = "new" <=> q > started'
  BY <1>1, StartRunKeeps
<1>3. RegistryTypeOK'
  BY <1>1, <1>2 DEF RegistryTypeOK
<1>4. \A q \in exclusive : q <= started /\ q # r /\ q \in Runs
  BY <1>2 DEF Recorded, RegistryTypeOK, Runs
<1>5. Recorded'
  BY <1>1, <1>2, <1>4 DEF Recorded, RegistryTypeOK, Runs
<1>6. CallbackHeld'
  BY <1>1, <1>2, <1>4 DEF CallbackHeld, IsCurrent
<1>7. OneCommandRun'
  <2>1. \A q \in exclusive : state'[q] = state[q] /\ leaseOf'[q] = leaseOf[q]
    BY <1>2, <1>4
  <2>2. exclusive' = exclusive /\ receipt' = receipt /\ current' = current
    BY <1>1
  <2> QED
    BY <2>1, <2>2 DEF OneCommandRun, IsCurrent
<1> QED
  BY <1>2, <1>3, <1>5, <1>6, <1>7

LEMMA StopKeeps == ASSUME RegistryInv, NEW r \in Runs, Stop(r) \/ Settle(r) PROVE RegistryInv'
<1> USE DEF RegistryInv
<1>1. /\ r \in Unsettled /\ UNCHANGED <<current, generation, lease, closed, callback, started, leaseOf, exclusive, receipt, awaited>>
      /\ state' = [state EXCEPT ![r] = "stopping"] \/ state' = [state EXCEPT ![r] = "settled"]
  BY DEF Stop, Settle, Unsettled
<1>2. /\ state' \in [Runs -> {"new", "running", "stopping", "settled"}] /\ Unsettled' \subseteq Unsettled
      /\ \A q \in Runs : (state[q] = "settled" => state'[q] = "settled") /\ (state'[q] = "new" <=> state[q] = "new")
  BY <1>1 DEF RegistryTypeOK, Unsettled
<1>3. RegistryTypeOK' /\ LeaseCurrent' /\ Recorded'
  BY <1>1, <1>2 DEF RegistryTypeOK, LeaseCurrent, Recorded
<1>4. CallbackHeld' /\ OneCommandRun'
  BY <1>1, <1>2 DEF RegistryTypeOK, CallbackHeld, OneCommandRun, IsCurrent
<1>5. AllAwaited' /\ ShutdownWaits'
  BY <1>1, <1>2 DEF AllAwaited, ShutdownWaits, Idle
<1> QED
  BY <1>3, <1>4, <1>5

LEMMA ReceiptsKeep == ASSUME RegistryInv, NEW r \in Runs, BeginReceipt(r) \/ EndReceipt(r) PROVE RegistryInv'
<1> USE DEF RegistryInv
<1>1. /\ receipt[r] \in {"due", "publishing"}
      /\ UNCHANGED <<current, generation, lease, closed, started, state, leaseOf, exclusive, awaited>>
      /\ \/ receipt' = [receipt EXCEPT ![r] = "publishing"] /\ callback' = callback
         \/ receipt' = [receipt EXCEPT ![r] = "done"] /\ callback' = (IF callback = leaseOf[r] THEN None ELSE callback)
      /\ receipt' = [receipt EXCEPT ![r] = "publishing"] => receipt[r] = "due"
  BY DEF BeginReceipt, EndReceipt, CallbacksOver, RegistryTypeOK
<1>2. /\ RegistryTypeOK' /\ \A q \in Runs \ {r} : receipt'[q] = receipt[q]
      /\ receipt'[r] # "none"
  BY <1>1 DEF RegistryTypeOK, None
<1>3. LeaseCurrent' /\ Recorded'
  BY <1>1, <1>2 DEF LeaseCurrent, Recorded, RegistryTypeOK
<1>4. OneCommandRun'
  BY <1>1, <1>2 DEF OneCommandRun, IsCurrent, RegistryTypeOK
<1>5. CallbackHeld'
  <2> SUFFICES ASSUME NEW q \in exclusive, IsCurrent(leaseOf[q]), receipt'[q] # "done" PROVE callback' = leaseOf[q]
    BY <1>1 DEF CallbackHeld, IsCurrent
  <2>1. callback = leaseOf[q]
    BY <1>1, <1>2 DEF CallbackHeld, RegistryTypeOK
  <2>2. CASE q = r
    BY <1>1, <2>1, <2>2 DEF RegistryTypeOK
  <2>3. CASE q # r
    <3>1. receipt[q] # "done" /\ receipt[r] # "done" /\ r \in exclusive /\ q \in Runs
      BY <1>1, <1>2, <2>3 DEF Recorded, RegistryTypeOK
    <3>2. leaseOf[r] # leaseOf[q]
      <4>1. r < q \/ q < r
        BY <2>3, <3>1 DEF Runs
      <4> QED
        BY <3>1, <4>1 DEF OneCommandRun
    <3> QED
      BY <1>1, <2>1, <3>2
  <2> QED
    BY <2>2, <2>3
<1>6. AllAwaited' /\ ShutdownWaits'
  BY <1>1 DEF AllAwaited, ShutdownWaits, Unsettled
<1> QED
  BY <1>2, <1>3, <1>4, <1>5, <1>6

LEMMA RegistrySteps == RegistryInv /\ RegistryNext => RegistryInv'
<1> SUFFICES ASSUME RegistryInv, RegistryNext PROVE RegistryInv'
  OBVIOUS
<1>1. CASE UNCHANGED registryVars
  BY <1>1 DEF registryVars, RegistryInv, RegistryTypeOK, LeaseCurrent, Recorded, CallbackHeld, OneCommandRun, IsCurrent,
     AllAwaited, ShutdownWaits, Unsettled, Idle
<1> QED
  BY <1>1, StartSessionKeeps, ShutdownKeeps, ShutdownReturnsKeeps, LaunchKeeps, AttachKeeps, StopKeeps, ReceiptsKeep
     DEF RegistryNext

-----------------------------------------------------------------------------
Stages == {"new", "queued", "waiting", "mounting", "shown"} \cup Over
Early == {"new", "queued", "waiting", "mounting"}

SurfaceTypeOK ==
    /\ stage \in [Requests -> Stages]
    /\ owns \in [Requests -> BOOLEAN] /\ released \in [Requests -> BOOLEAN]
    /\ queue \in [Requests -> Requests \cup {Nobody}] /\ tail \in Requests \cup {Nobody}
    /\ holder \in [Requests -> Requests \cup {Nobody}]
    /\ building \subseteq Requests /\ built \in [Requests -> Nat]
    /\ live \subseteq Requests \X Nat /\ silent \subseteq Requests \X Nat
    /\ strayed \in BOOLEAN

\* All who wait, wait in the one queue that is not dropped.
OneQueue ==
    \A r \in Requests : stage[r] # "new" =>
       tail \in Requests /\ queue[r] \in Requests /\ (~released[r] => queue[r] = queue[tail])

\* A request that has not built anything has lost nothing; who builds, holds or may report has come up.
ComeUp ==
    /\ \A r \in Requests : stage[r] \in Early => built[r] = 0 /\ owns[r] /\ ~released[r]
    /\ \A r \in building : stage[r] \notin {"new", "queued", "waiting"}
    /\ \A f \in Requests : holder[f] # Nobody => stage[holder[f]] \notin Early
    /\ \A c \in live : stage[c[1]] \notin Early

\* A late report for a caller that was failed is dropped.
LateReports == \A c \in live : stage[c[1]] = "failed" => ~owns[c[1]]

\* One request is shown: it holds the slot of its queue and has the screen.
OneShown == \A r, q \in Requests : stage[r] = "shown" /\ stage[q] = "shown" => r = q
HolderShown ==
    \A r \in Requests : stage[r] = "shown" =>
       owns[r] /\ (silent = {} => ~released[r] /\ holder[queue[r]] = r /\ (r \notin building => screen = Current(r)))

\* The microtask of a disposal finds the last component of the one that is shown, or none is.
DisposedLast == \A c \in silent, r \in Requests : stage[r] = "shown" => c = Current(r) /\ c \in live /\ r \notin building

SurfaceKept == LateReports /\ OneShown /\ HolderShown /\ DisposedLast

SurfaceInv == SurfaceTypeOK /\ OneQueue /\ ComeUp /\ (~strayed => SurfaceKept)

SurfaceNext == InteractionNext \/ UNCHANGED interactionVars

LEMMA SurfaceStarts == InteractionInit => SurfaceInv
<1> SUFFICES ASSUME InteractionInit PROVE SurfaceInv
  OBVIOUS
<1>1. SurfaceTypeOK
  BY DEF InteractionInit, SurfaceTypeOK, Stages
<1>2. OneQueue /\ ComeUp
  BY DEF InteractionInit, OneQueue, ComeUp
<1>3. SurfaceKept
  BY DEF InteractionInit, SurfaceKept, LateReports, OneShown, HolderShown, DisposedLast
<1> QED
  BY <1>1, <1>2, <1>3 DEF SurfaceInv

\* Flags stay flags.
LEMMA FlagTypes ==
  ASSUME SurfaceTypeOK, NEW S
  PROVE  /\ Retire(S) => owns' \in [Requests -> BOOLEAN] /\ \A r \in Requests : owns'[r] = (owns[r] /\ r \notin S)
         /\ Released(S) => released' \in [Requests -> BOOLEAN] /\ \A r \in Requests : released'[r] = (released[r] \/ r \in S)
<1>1. ASSUME Retire(S) PROVE owns' \in [Requests -> BOOLEAN] /\ \A r \in Requests : owns'[r] = (owns[r] /\ r \notin S)
  <2>1. owns' = [r \in Requests |-> owns[r] /\ r \notin S]
    BY <1>1 DEF Retire
  <2>2. \A r \in Requests : (owns[r] /\ r \notin S) \in BOOLEAN
    OBVIOUS
  <2> QED
    BY <2>1, <2>2
<1>2. ASSUME Released(S) PROVE released' \in [Requests -> BOOLEAN] /\ \A r \in Requests : released'[r] = (released[r] \/ r \in S)
  <2>1. released' = [r \in Requests |-> released[r] \/ r \in S]
    BY <1>2 DEF Released
  <2>2. \A r \in Requests : (released[r] \/ r \in S) \in BOOLEAN
    OBVIOUS
  <2> QED
    BY <2>1, <2>2
<1> QED
  BY <1>1, <1>2

\* A request joins the queue.
LEMMA RequestKeeps == ASSUME SurfaceInv, NEW r \in Requests, Request(r) PROVE SurfaceInv'
<1> USE InteractionAssumption DEF SurfaceInv
<1>1. /\ stage[r] = "new" /\ silent = {} /\ tail' = r
      /\ UNCHANGED <<owns, released, holder, building, built, live, silent, screen, strayed>>
      /\ \A q \in Requests : stage'[q] = IF q = r THEN "queued" ELSE stage[q]
      /\ \A q \in Requests : queue'[q] = IF q = r THEN (IF Pending = {} THEN r ELSE queue[tail]) ELSE queue[q]
  BY DEF Request, SurfaceTypeOK
<1>2. Pending # {} => queue[tail] \in Requests
  BY DEF OneQueue, Pending
<1>3. SurfaceTypeOK'
  <2>1. stage' \in [Requests -> Stages]
    BY <1>1 DEF SurfaceTypeOK, Request, Stages
  <2>2. queue' \in [Requests -> Requests \cup {Nobody}]
    BY <1>2 DEF SurfaceTypeOK, Request
  <2> QED
    BY <1>1, <2>1, <2>2 DEF SurfaceTypeOK
<1>4. OneQueue'
  <2> SUFFICES ASSUME NEW q \in Requests, stage'[q] # "new"
               PROVE  queue'[q] \in Requests /\ (~released'[q] => queue'[q] = queue'[r])
    BY <1>1 DEF OneQueue
  <2>1. CASE q = r
    BY <1>1, <1>2, <2>1
  <2>2. CASE q # r /\ released[q]
    BY <1>1, <2>2 DEF OneQueue
  <2>3. CASE q # r /\ ~released[q]
    BY <1>1, <2>3 DEF OneQueue, Pending
  <2> QED
    BY <2>1, <2>2, <2>3
<1>5. ComeUp'
  <2>1. \A c \in live : c[1] \in Requests
    BY DEF SurfaceTypeOK
  <2>2. \A q \in Requests : (stage'[q] \in Early => stage[q] \in Early) /\ (q # r => stage'[q] = stage[q])
    BY <1>1 DEF Early
  <2>3. r \notin building /\ (\A f \in Requests : holder[f] # r) /\ \A c \in live : c[1] # r
    BY <1>1 DEF ComeUp, Early
  <2> QED
    BY <1>1, <2>1, <2>2, <2>3 DEF ComeUp, SurfaceTypeOK
<1>6. ASSUME ~strayed' PROVE SurfaceKept'
  <2>1. SurfaceKept
    BY <1>1, <1>6
  <2>2. \A q \in Requests : stage'[q] = "shown" => stage[q] = "shown" /\ q # r /\ queue'[q] = queue[q]
    BY <1>1
  <2>3. LateReports'
    BY <1>1, <2>1 DEF SurfaceKept, LateReports, SurfaceTypeOK
  <2>4. OneShown' /\ HolderShown' /\ DisposedLast'
    BY <1>1, <2>1, <2>2 DEF SurfaceKept, OneShown, HolderShown, DisposedLast, Current
  <2> QED
    BY <2>3, <2>4 DEF SurfaceKept
<1> QED
  BY <1>3, <1>4, <1>5, <1>6

\* A request waits, or comes up.
LEMMA WaitingKeeps ==
  ASSUME SurfaceInv, NEW r \in Requests, Wait(r) \/ \E ready \in BOOLEAN : Enter(r, ready)
  PROVE  SurfaceInv'
<1> USE InteractionAssumption DEF SurfaceInv
<1>1. /\ stage[r] \in {"queued", "waiting"}
      /\ UNCHANGED <<owns, queue, tail, holder, built, live, silent, screen, strayed>>
      /\ building' = building \/ (building' = building \cup {r} /\ stage'[r] = "mounting")
      /\ \A q \in Requests \ {r} : stage'[q] = stage[q] /\ released'[q] = released[q]
      /\ \/ stage'[r] \in {"waiting", "mounting"} /\ released'[r] = released[r]
         \/ stage'[r] = "failed" /\ released'[r]
  <2>1. CASE Wait(r)
    BY <2>1 DEF Wait, SurfaceTypeOK, queueVars
  <2>2. CASE Enter(r, TRUE)
    <3>1. \A q \in Requests : released'[q] = released[q]
      BY <2>2, FlagTypes DEF Enter, SurfaceTypeOK
    <3> QED
      BY <2>2, <3>1 DEF Enter, ComesUp, SurfaceTypeOK
  <2>3. CASE Enter(r, FALSE)
    <3>1. \A q \in Requests : released'[q] = (released[q] \/ q = r)
      BY <2>3, FlagTypes DEF Enter, SurfaceTypeOK
    <3> QED
      BY <2>3, <3>1 DEF Enter, ComesUp, SurfaceTypeOK
  <2> QED
    BY <2>1, <2>2, <2>3
<1>2. stage' \in [Requests -> Stages] /\ released' \in [Requests -> BOOLEAN]
  <2>1. released' \in [Requests -> BOOLEAN]
    <3>1. CASE Wait(r)
      BY <3>1 DEF Wait, SurfaceTypeOK
    <3>2. CASE \E S : Released(S)
      BY <3>2, FlagTypes
    <3> QED
      BY <3>1, <3>2 DEF Enter
  <2> QED
    BY <2>1 DEF Wait, Enter, SurfaceTypeOK, Stages, Over
<1>3. SurfaceTypeOK'
  BY <1>1, <1>2 DEF SurfaceTypeOK
<1>4. OneQueue'
  BY <1>1 DEF OneQueue
<1>5. ComeUp'
  <2>1. r \notin building /\ (\A f \in Requests : holder[f] # r) /\ \A c \in live : c[1] # r /\ c[1] \in Requests
    BY <1>1 DEF ComeUp, Early, SurfaceTypeOK
  <2> QED
    BY <1>1, <2>1 DEF ComeUp, Early, SurfaceTypeOK
<1>6. ASSUME ~strayed' PROVE SurfaceKept'
  <2>1. SurfaceKept
    BY <1>1, <1>6
  <2>2. \A q \in Requests : stage'[q] = "shown" => stage[q] = "shown" /\ q # r
    BY <1>1
  <2>3. \A c \in live : c[1] \in Requests \ {r}
    BY <1>1 DEF ComeUp, Early, SurfaceTypeOK
  <2>4. LateReports'
    BY <1>1, <2>1, <2>3 DEF SurfaceKept, LateReports
  <2>5. OneShown' /\ HolderShown' /\ DisposedLast'
    BY <1>1, <2>1, <2>2 DEF SurfaceKept, OneShown, HolderShown, DisposedLast, Current
  <2> QED
    BY <2>4, <2>5 DEF SurfaceKept
<1> QED
  BY <1>3, <1>4, <1>5, <1>6

\* A run of the factory of r ends, not after its caller was failed: who is shown beside it is its incumbent.
LEMMA OthersAreIncumbents ==
  ASSUME SurfaceInv, ~strayed, silent = {}, NEW r \in building, NEW q \in Requests \ {r}, stage[q] = "shown"
  PROVE  /\ stage[r] = "mounting" \/ stage[r] \in Over
         /\ stage[r] \notin Over => built[r] = 0 /\ owns[r]
         /\ queue[q] = queue[r] => q \in Incumbent(r)
         /\ stage[r] \notin Over => queue[q] = queue[r]
<1> USE InteractionAssumption DEF SurfaceInv
<1>1. r \in Requests /\ SurfaceKept
  BY DEF SurfaceTypeOK
<1>2. stage[r] = "mounting" \/ stage[r] \in Over
  BY <1>1 DEF SurfaceKept, OneShown, ComeUp, SurfaceTypeOK, Stages
<1>3. stage[r] \notin Over => built[r] = 0 /\ owns[r] /\ ~released[r]
  BY <1>1, <1>2 DEF ComeUp, Early
<1>4. ~released[q] /\ holder[queue[q]] = q
  BY <1>1 DEF SurfaceKept, HolderShown
<1>5. queue[q] = queue[r] => q \in Incumbent(r)
  BY <1>1, <1>4 DEF Incumbent
<1>6. stage[r] \notin Over => queue[q] = queue[r]
  BY <1>1, <1>2, <1>3, <1>4 DEF OneQueue
<1> QED
  BY <1>2, <1>3, <1>5, <1>6

\* Who is retired has come up.
LEMMA RetiredHaveComeUp ==
  ASSUME SurfaceInv, NEW r \in building, NEW q \in Incumbent(r)
  PROVE  q \in Requests \ {r} /\ stage[q] \in {"shown"} \cup Over
<1> USE InteractionAssumption DEF SurfaceInv
<1>1. r \in Requests /\ stage[r] # "new"
  BY DEF SurfaceTypeOK, ComeUp
<1>2. queue[r] \in Requests
  BY <1>1 DEF OneQueue
<1>3. q \in Requests \ {r} /\ stage[q] \notin Early
  BY <1>1, <1>2 DEF Incumbent, SurfaceTypeOK, ComeUp
<1> QED
  BY <1>3 DEF SurfaceTypeOK, Stages, Early

\* A run of a factory ends: its request gets an outcome, and others are failed and retired.
Ends(r, retired, to) ==
    /\ retired \subseteq Incumbent(r) /\ to \in {"answered", "shown", "rejected"}
    /\ stage' = [q \in Requests |-> CASE q = r -> Outcome(r, to) [] q \in retired -> Outcome(q, "failed") [] OTHER -> stage[q]]
    /\ Retire(retired) /\ UNCHANGED <<queue, tail, silent>> /\ building' = building \ {r}
    /\ built' \in [Requests -> Nat] /\ \A q \in Requests \ {r} : built'[q] = built[q]
    /\ \/ Released(retired)
       \/ Released(retired \cup {r})

LEMMA EndsKeep ==
  ASSUME SurfaceInv, NEW r \in building, NEW retired, NEW to, Ends(r, retired, to)
  PROVE  /\ stage' \in [Requests -> Stages] /\ owns' \in [Requests -> BOOLEAN] /\ released' \in [Requests -> BOOLEAN]
         /\ r \in Requests /\ retired \subseteq Requests \ {r}
         /\ stage[r] \in {"mounting", "shown"} \cup Over
         /\ stage[r] \in Over => stage'[r] = stage[r]
         /\ stage[r] \notin Over => stage'[r] = to
         /\ \A q \in retired : stage'[q] \in Over /\ ~owns'[q]
         /\ \A q \in Requests \ (retired \cup {r}) : stage'[q] = stage[q]
         /\ \A q \in Requests \ retired : owns'[q] = owns[q] /\ (q # r => released'[q] = released[q])
         /\ OneQueue'
         /\ \A q \in Requests : stage'[q] \in Early => stage[q] \in Early /\ q # r /\ q \notin retired
<1> USE InteractionAssumption DEF SurfaceInv
<1>1. r \in Requests /\ stage[r] \in {"mounting", "shown"} \cup Over
  BY DEF SurfaceTypeOK, ComeUp, Stages
<1>2. \A q \in retired : q \in Requests \ {r} /\ stage[q] \in {"shown"} \cup Over
  BY RetiredHaveComeUp DEF Ends
<1>3. /\ stage[r] \in Over => stage'[r] = stage[r]
      /\ stage[r] \notin Over => stage'[r] = to
      /\ \A q \in retired : stage'[q] \in Over
      /\ \A q \in Requests \ (retired \cup {r}) : stage'[q] = stage[q]
  BY <1>1, <1>2 DEF Ends, Outcome, Over
<1>4. to \in {"answered", "shown", "rejected"}
  BY DEF Ends
<1>5. \A q \in Requests : stage'[q] \in Stages
  BY <1>1, <1>2, <1>3, <1>4 DEF SurfaceTypeOK, Stages, Over, Closed
<1>6. stage' \in [Requests -> Stages]
  BY <1>5 DEF Ends
<1>7. owns' \in [Requests -> BOOLEAN] /\ \A q \in Requests : owns'[q] = (owns[q] /\ q \notin retired)
  BY FlagTypes DEF Ends
<1>f. released' \in [Requests -> BOOLEAN] /\ \A q \in Requests \ (retired \cup {r}) : released'[q] = released[q]
  <2>1. ASSUME NEW S, Released(S), S \subseteq retired \cup {r}
        PROVE  released' \in [Requests -> BOOLEAN] /\ \A q \in Requests \ (retired \cup {r}) : released'[q] = released[q]
    BY <2>1, FlagTypes DEF SurfaceTypeOK
  <2> QED
    BY <2>1 DEF Ends
<1>8. \A q \in retired : ~owns'[q]
  BY <1>2, <1>7
<1>9. \A q \in Requests \ retired : owns'[q] = owns[q] /\ (q # r => released'[q] = released[q])
  BY <1>7, <1>f DEF SurfaceTypeOK
<1>10. \A q \in Requests : stage'[q] \in Early => stage[q] \in Early /\ q # r /\ q \notin retired
  BY <1>1, <1>2, <1>3, <1>4 DEF Early, Over, Closed
<1>11. OneQueue'
  <2>1. \A q \in Requests : ~released'[q] => ~released[q]
    BY DEF Ends, Released
  <2>2. \A q \in Requests : stage'[q] # "new" => stage[q] # "new"
    BY <1>1, <1>2, <1>3 DEF Over, Closed
  <2>3. queue' = queue /\ tail' = tail
    BY DEF Ends
  <2> QED
    BY <2>1, <2>2, <2>3 DEF OneQueue
<1> QED
  BY <1>1, <1>2, <1>3, <1>6, <1>7, <1>f, <1>8, <1>9, <1>10, <1>11

\* The second half of ComeUp and the late reports, when a run of the factory ends.
LEMMA EndsComeUp ==
  ASSUME SurfaceInv, NEW r \in building, NEW retired, NEW to, Ends(r, retired, to),
         \A f \in Requests : holder'[f] \in {holder[f], r, Nobody}, \A c \in live' : c \in live \/ c[1] = r
  PROVE  ComeUp'
<1> USE InteractionAssumption DEF SurfaceInv
<1>1. \A q \in Requests : stage'[q] \in Early => stage[q] \in Early /\ q # r /\ q \notin retired
  BY EndsKeep
<1>2. /\ r \in Requests /\ retired \subseteq Requests \ {r}
      /\ \A q \in Requests \ (retired \cup {r}) : stage'[q] = stage[q]
      /\ \A q \in Requests \ retired : owns'[q] = owns[q] /\ (q # r => released'[q] = released[q])
      /\ \A q \in retired : stage'[q] \in Over
  BY EndsKeep
<1>b. building' = building \ {r} /\ \A q \in Requests \ {r} : built'[q] = built[q]
  BY DEF Ends
<1>3. \A q \in Requests : stage'[q] \in Early => built'[q] = 0 /\ owns'[q] /\ ~released'[q]
  BY <1>1, <1>2, <1>b DEF ComeUp
<1>4. \A q \in building' : stage'[q] \notin {"new", "queued", "waiting"}
  BY <1>2, <1>b DEF ComeUp, Over, Closed, SurfaceTypeOK
<1>5. \A f \in Requests : holder'[f] # Nobody => stage'[holder'[f]] \notin Early
  BY <1>1, <1>2 DEF ComeUp, SurfaceTypeOK
<1>6. \A c \in live' : stage'[c[1]] \notin Early
  <2> SUFFICES ASSUME NEW c \in live', stage'[c[1]] \in Early PROVE FALSE
    OBVIOUS
  <2>1. CASE c \in live
    BY <1>1, <2>1 DEF ComeUp, SurfaceTypeOK
  <2>2. CASE c[1] = r
    BY <1>1, <1>2, <2>2
  <2> QED
    BY <2>1, <2>2
<1> QED
  BY <1>3, <1>4, <1>5, <1>6 DEF ComeUp

LEMMA EndsLate ==
  ASSUME SurfaceInv, ~strayed, NEW r \in building, NEW retired, NEW to, Ends(r, retired, to),
         stage[r] # "failed", \A c \in live' : c \in live \/ c[1] = r
  PROVE  LateReports'
<1> USE InteractionAssumption DEF SurfaceInv
<1> SUFFICES ASSUME NEW c \in live', stage'[c[1]] = "failed" PROVE ~owns'[c[1]]
  BY DEF LateReports
<1>1. to # "failed"
  BY DEF Ends
<1>2. stage'[r] # "failed" /\ r \in Requests
  BY <1>1, EndsKeep
<1>3. c \in live /\ c[1] \in Requests \ {r}
  BY <1>2 DEF SurfaceTypeOK
<1>4. CASE c[1] \in retired
  BY <1>4, EndsKeep
<1>5. CASE c[1] \notin retired
  <2>1. stage'[c[1]] = stage[c[1]] /\ owns'[c[1]] = owns[c[1]]
    BY <1>3, <1>5, EndsKeep
  <2> QED
    BY <1>3, <2>1 DEF SurfaceKept, LateReports
<1> QED
  BY <1>4, <1>5

\* A component is built.
LEMMA MountKeeps == ASSUME SurfaceInv, NEW r \in Requests, Mount(r) PROVE SurfaceInv'
<1> USE InteractionAssumption DEF SurfaceInv
<1> DEFINE retired == IF owns[r] THEN Incumbent(r) ELSE {}
           c == <<r, built[r] + 1>>
<1>e. PICK early \in BOOLEAN :
        LET reports == early /\ owns[r] /\ stage[r] \notin Over
        IN  /\ stage' = [q \in Requests |-> CASE q = r -> Outcome(r, IF reports THEN "answered" ELSE "shown")
                                              [] q \in retired -> Outcome(q, "failed") [] OTHER -> stage[q]]
            /\ Released(retired \cup (IF reports THEN {r} ELSE {}))
            /\ holder' = [f \in Requests |->
                  IF f # queue[r] \/ ~owns[r] THEN holder[f] ELSE IF reports /\ ~released[r] THEN Nobody ELSE r]
            /\ live' = IF early THEN live ELSE live \cup {c}
            /\ screen' = CASE stage[r] \in Closed -> screen [] reports -> Nobody [] OTHER -> c
  BY DEF Mount
<1> DEFINE reports == early /\ owns[r] /\ stage[r] \notin Over
<1>1.   /\ stage' = [q \in Requests |-> CASE q = r -> Outcome(r, IF reports THEN "answered" ELSE "shown")
                                          [] q \in retired -> Outcome(q, "failed") [] OTHER -> stage[q]]
        /\ Released(retired \cup (IF reports THEN {r} ELSE {}))
        /\ holder' = [f \in Requests |->
              IF f # queue[r] \/ ~owns[r] THEN holder[f] ELSE IF reports /\ ~released[r] THEN Nobody ELSE r]
        /\ live' = IF early THEN live ELSE live \cup {c}
        /\ screen' = CASE stage[r] \in Closed -> screen [] reports -> Nobody [] OTHER -> c
  BY <1>e
<1>2. /\ silent = {} /\ r \in building /\ building' = building \ {r} /\ built' = [built EXCEPT ![r] = @ + 1]
      /\ Retire(retired) /\ UNCHANGED <<queue, tail, silent>> /\ strayed' = Strays(r)
  BY DEF Mount, queueVars
<1>3. built[r] \in Nat /\ built'[r] = built[r] + 1 /\ built' \in [Requests -> Nat]
      /\ \A q \in Requests \ {r} : built'[q] = built[q]
  BY <1>2 DEF SurfaceTypeOK
<1> DEFINE to == IF reports THEN "answered" ELSE "shown"
<1>4. Ends(r, retired, to)
  <2>1. Released(retired) \/ Released(retired \cup {r})
    <3>1. retired \cup {} = retired
      OBVIOUS
    <3> QED
      BY <1>1, <3>1
  <2> QED
    BY <1>1, <1>2, <1>3, <2>1 DEF Ends
<1>5. r \in building /\ to \in {"answered", "shown"}
  BY <1>2
<1>6. /\ \A f \in Requests : holder'[f] = IF f # queue[r] \/ ~owns[r] THEN holder[f] ELSE IF reports /\ ~released[r] THEN Nobody ELSE r
      /\ \A e \in live' : e \in live \/ e[1] = r
  BY <1>1
<1>7. SurfaceTypeOK'
  <2>1. stage' \in [Requests -> Stages] /\ owns' \in [Requests -> BOOLEAN] /\ released' \in [Requests -> BOOLEAN]
    <3> HIDE DEF retired, to
    <3> QED
      BY <1>4, <1>5, EndsKeep
  <2>2. holder' \in [Requests -> Requests \cup {Nobody}]
    BY <1>1 DEF SurfaceTypeOK
  <2>3. live' \subseteq Requests \X Nat
    BY <1>1, <1>3 DEF SurfaceTypeOK
  <2>4. strayed' \in BOOLEAN
    BY <1>2 DEF Strays, SurfaceTypeOK
  <2>5. UNCHANGED <<queue, tail, silent>> /\ building' \subseteq building
    BY <1>2
  <2> QED
    BY <1>3, <2>1, <2>2, <2>3, <2>4, <2>5 DEF SurfaceTypeOK
<1>8. retired = IF owns[r] THEN Incumbent(r) ELSE {}
  OBVIOUS
<1>9. to = IF reports THEN "answered" ELSE "shown"
  OBVIOUS
<1>10. screen' = CASE stage[r] \in Closed -> screen [] reports -> Nobody [] OTHER -> <<r, built[r] + 1>>
  BY <1>1
<1>11. reports => owns[r] /\ stage[r] \notin Over
  OBVIOUS
<1>12. released'[r] = (released[r] \/ r \in retired \/ reports)
  BY <1>1 DEF Released
<1> HIDE DEF retired, to, c, reports
<1>13. OneQueue'
  BY <1>4, <1>5, EndsKeep
<1>14. ComeUp'
  <2>1. \A f \in Requests : holder'[f] \in {holder[f], r, Nobody}
    BY <1>6
  <2> QED
    BY <1>4, <1>5, <1>6, <2>1, EndsComeUp
<1>15. ASSUME ~strayed' PROVE SurfaceKept'
  <2>1. ~strayed /\ stage[r] # "failed" /\ SurfaceKept
    BY <1>2, <1>15 DEF Strays
  <2>2. LateReports'
    BY <1>4, <1>5, <1>6, <2>1, EndsLate
  <2>3. /\ r \in Requests /\ retired \subseteq Requests \ {r}
        /\ stage[r] \in {"mounting", "shown"} \cup Over
        /\ stage[r] \in Over => stage'[r] = stage[r]
        /\ stage[r] \notin Over => stage'[r] = to
        /\ \A q \in retired : stage'[q] \in Over /\ ~owns'[q]
        /\ \A q \in Requests \ (retired \cup {r}) : stage'[q] = stage[q]
        /\ \A q \in Requests \ retired : owns'[q] = owns[q] /\ (q # r => released'[q] = released[q])
    BY <1>4, <1>5, EndsKeep
  <2>4. "shown" \notin Over
    BY DEF Over, Closed
  <2>5. \A q \in Requests \ {r} : stage'[q] = "shown" => stage[q] = "shown" /\ q \notin retired
    BY <2>3, <2>4
  <2>6. \A q \in Requests \ {r} : stage'[q] = "shown" =>
           stage[r] \in Closed /\ (owns[r] => queue[q] # queue[r]) /\ stage'[r] = stage[r]
    <3> SUFFICES ASSUME NEW q \in Requests \ {r}, stage'[q] = "shown"
                 PROVE  stage[r] \in Closed /\ (owns[r] => queue[q] # queue[r]) /\ stage'[r] = stage[r]
      OBVIOUS
    <3>1. stage[q] = "shown" /\ q \notin retired
      BY <2>5
    <3>2. owns[r] => queue[q] # queue[r]
      BY <1>2, <1>5, <1>8, <2>1, <3>1, OthersAreIncumbents
    <3>3. stage[r] \in Over
      BY <1>2, <1>5, <2>1, <3>1, <3>2, OthersAreIncumbents
    <3> QED
      BY <2>1, <2>3, <3>2, <3>3 DEF Over
  <2>7. stage'[r] = "shown" => ~reports /\ (stage[r] = "mounting" \/ stage[r] = "shown") /\ owns[r] /\ ~released[r]
    <3> SUFFICES ASSUME stage'[r] = "shown"
                 PROVE  ~reports /\ (stage[r] = "mounting" \/ stage[r] = "shown") /\ owns[r] /\ ~released[r]
      OBVIOUS
    <3>1. stage[r] \notin Over /\ to = "shown" /\ (stage[r] = "mounting" \/ stage[r] = "shown")
      BY <2>3, <2>4
    <3>2. ~reports
      BY <1>9, <3>1
    <3>3. CASE stage[r] = "mounting"
      BY <2>3, <3>1, <3>2, <3>3 DEF ComeUp, Early
    <3>4. CASE stage[r] = "shown"
      BY <1>2, <2>1, <2>3, <3>1, <3>2, <3>4 DEF SurfaceKept, HolderShown
    <3> QED
      BY <3>1, <3>3, <3>4
  <2>8. OneShown'
    <3>1. \A q \in Requests \ {r} : stage'[q] = "shown" => stage'[r] # "shown"
      BY <2>4, <2>6 DEF Over
    <3>2. \A p, q \in Requests \ {r} : stage'[q] = "shown" /\ stage'[p] = "shown" => p = q
      BY <2>1, <2>5 DEF SurfaceKept, OneShown
    <3> QED
      BY <3>1, <3>2 DEF OneShown
  <2>9. HolderShown'
    <3> SUFFICES ASSUME NEW q \in Requests, stage'[q] = "shown"
                 PROVE  /\ owns'[q] /\ ~released'[q] /\ holder'[queue[q]] = q
                        /\ (q \notin building' => screen' = <<q, built'[q]>>)
      BY <1>2 DEF HolderShown, Current
    <3>1. CASE q = r
      <4>1. r \notin retired /\ queue[r] \in Requests
        BY <2>3, <2>7, <3>1 DEF OneQueue
      <4>2. owns'[r] /\ ~released'[r]
        BY <1>12, <2>3, <2>7, <3>1, <4>1
      <4>3. holder'[queue[r]] = r
        BY <1>6, <2>7, <3>1, <4>1
      <4>4. screen' = <<r, built'[r]>>
        BY <1>3, <1>10, <2>4, <2>7, <3>1 DEF Over, Closed
      <4> QED
        BY <3>1, <4>2, <4>3, <4>4
    <3>2. CASE q # r
      <4>1. stage[q] = "shown" /\ q \notin retired /\ stage[r] \in Closed /\ (owns[r] => queue[q] # queue[r])
        BY <2>5, <2>6, <3>2
      <4>2. owns[q] /\ ~released[q] /\ holder[queue[q]] = q /\ (q \notin building => screen = <<q, built[q]>>)
        BY <1>2, <2>1, <4>1 DEF SurfaceKept, HolderShown, Current
      <4>3. queue[q] \in Requests
        BY <4>1 DEF OneQueue
      <4>4. holder'[queue[q]] = q
        BY <1>6, <4>1, <4>2, <4>3
      <4>5. owns'[q] /\ ~released'[q]
        BY <2>3, <3>2, <4>1, <4>2
      <4>6. screen' = screen
        BY <1>10, <1>11, <4>1 DEF Over
      <4>7. q \notin building' => q \notin building
        BY <1>2, <3>2
      <4> QED
        BY <1>3, <3>2, <4>2, <4>4, <4>5, <4>6, <4>7
    <3> QED
      BY <3>1, <3>2
  <2>10. DisposedLast'
    BY <1>2 DEF DisposedLast
  <2> QED
    BY <2>2, <2>8, <2>9, <2>10 DEF SurfaceKept
<1> QED
  BY <1>7, <1>13, <1>14, <1>15

\* A run of the factory fails: nobody is shown any more, unless the call is closed.
LEMMA FactoryFailsKeeps == ASSUME SurfaceInv, NEW r \in Requests, FactoryFails(r) PROVE SurfaceInv'
<1> USE InteractionAssumption DEF SurfaceInv
<1>1. /\ silent = {} /\ r \in building /\ building' = building \ {r} /\ strayed' = Strays(r)
      /\ UNCHANGED <<queue, tail, built, live, silent>>
  BY DEF FactoryFails, queueVars
<1>2. CASE stage[r] \in Closed
  <2>1. UNCHANGED <<stage, owns, released, holder, screen>>
    BY <1>2 DEF FactoryFails
  <2>2. strayed' = strayed
    BY <1>1, <1>2 DEF Strays, Closed, SurfaceTypeOK
  <2>3. SurfaceTypeOK' /\ OneQueue' /\ ComeUp'
    BY <1>1, <2>1, <2>2 DEF SurfaceTypeOK, OneQueue, ComeUp
  <2>4. ASSUME ~strayed PROVE SurfaceKept'
    <3>1. \A q \in Requests : stage[q] = "shown" => q # r
      BY <1>2 DEF Closed
    <3>2. LateReports' /\ OneShown' /\ DisposedLast'
      BY <1>1, <2>1, <2>4 DEF SurfaceKept, LateReports, OneShown, DisposedLast
    <3>3. HolderShown'
      BY <1>1, <2>1, <2>4, <3>1 DEF SurfaceKept, HolderShown, Current
    <3> QED
      BY <3>2, <3>3 DEF SurfaceKept
  <2> QED
    BY <2>2, <2>3, <2>4
<1>3. CASE stage[r] \notin Closed
  <2> DEFINE retired == IF built[r] = 0 THEN Incumbent(r) ELSE {}
  <2>1. /\ stage' = [q \in Requests |->
              CASE q = r -> Outcome(r, "rejected") [] q \in retired -> Outcome(q, "failed") [] OTHER -> stage[q]]
        /\ Retire(retired) /\ Released(retired \cup {r})
        /\ holder' = IF built[r] = 0 THEN [holder EXCEPT ![queue[r]] = Nobody] ELSE HolderWithout(r)
    BY <1>3 DEF FactoryFails
  <2>2. Ends(r, retired, "rejected")
    BY <1>1, <2>1 DEF Ends, SurfaceTypeOK
  <2>3. retired = IF built[r] = 0 THEN Incumbent(r) ELSE {}
    OBVIOUS
  <2> HIDE DEF retired
  <2>4. holder' \in [Requests -> Requests \cup {Nobody}] /\ \A f \in Requests : holder'[f] \in {holder[f], r, Nobody}
    BY <2>1 DEF HolderWithout, SurfaceTypeOK
  <2>5. SurfaceTypeOK'
    <3>1. stage' \in [Requests -> Stages] /\ owns' \in [Requests -> BOOLEAN] /\ released' \in [Requests -> BOOLEAN]
      BY <1>1, <2>2, EndsKeep
    <3> QED
      BY <1>1, <2>4, <3>1 DEF SurfaceTypeOK, Strays
  <2>6. OneQueue' /\ ComeUp'
    BY <1>1, <2>2, <2>4, EndsKeep, EndsComeUp
  <2>7. ASSUME ~strayed' PROVE SurfaceKept'
    <3>1. ~strayed /\ stage[r] # "failed" /\ SurfaceKept /\ stage[r] \notin Over
      BY <1>1, <1>3, <2>7 DEF Strays, Over
    <3>2. LateReports'
      BY <1>1, <2>2, <3>1, EndsLate
    <3>3. \A q \in Requests : stage'[q] # "shown"
      <4> SUFFICES ASSUME NEW q \in Requests, stage'[q] = "shown" PROVE FALSE
        OBVIOUS
      <4>1. stage'[r] = "rejected" /\ r \in Requests
        BY <1>1, <2>2, <3>1, EndsKeep
      <4>2. q # r
        BY <4>1
      <4>3. q \notin retired
        BY <1>1, <2>2, EndsKeep DEF Over, Closed
      <4>4. stage[q] = "shown"
        BY <1>1, <2>2, <4>2, <4>3, EndsKeep
      <4>5. q \in Incumbent(r) /\ built[r] = 0
        BY <1>1, <3>1, <4>2, <4>4, OthersAreIncumbents
      <4> QED
        BY <2>3, <4>3, <4>5
    <3> QED
      BY <3>2, <3>3 DEF SurfaceKept, OneShown, HolderShown, DisposedLast
  <2> QED
    BY <2>5, <2>6, <2>7
<1> QED
  BY <1>2, <1>3

\* A component reports.
LEMMA ReportKeeps == ASSUME SurfaceInv, NEW c, Report(c) PROVE SurfaceInv'
<1> USE InteractionAssumption DEF SurfaceInv
<1> DEFINE r == c[1]
<1>1. /\ c \in live /\ silent \subseteq {c} /\ live' = live \ {c} /\ r \in Requests /\ stage[r] \notin Early
      /\ UNCHANGED <<owns, queue, tail, building, built, silent, strayed>>
  BY DEF Report, queueVars, SurfaceTypeOK, ComeUp
<1>2. CASE owns[r] /\ stage[r] \notin Closed
  <2>1. /\ stage' = [stage EXCEPT ![r] = "answered"] /\ Released({r})
        /\ holder' = HolderWithout(r) /\ screen' = Nobody
    BY <1>2 DEF Report
  <2>2. /\ \A q \in Requests : stage'[q] = IF q = r THEN "answered" ELSE stage[q]
        /\ \A q \in Requests : released'[q] = (released[q] \/ q = r)
        /\ \A f \in Requests : holder'[f] \in {holder[f], Nobody}
    BY <2>1 DEF Released, HolderWithout, SurfaceTypeOK
  <2>3. SurfaceTypeOK'
    BY <1>1, <2>1 DEF SurfaceTypeOK, Released, HolderWithout, Stages, Over, Closed
  <2>4. OneQueue'
    BY <1>1, <2>2 DEF OneQueue, Early
  <2>5. ComeUp'
    BY <1>1, <2>2 DEF ComeUp, Early, SurfaceTypeOK
  <2>6. ASSUME ~strayed' PROVE SurfaceKept'
    <3>1. SurfaceKept
      BY <1>1, <2>6
    <3>2. stage[r] = "shown"
      BY <1>1, <1>2, <3>1 DEF SurfaceKept, LateReports, SurfaceTypeOK, Stages, Over, Early
    <3>3. \A q \in Requests : stage'[q] # "shown"
      BY <1>1, <2>2, <3>1, <3>2 DEF SurfaceKept, OneShown
    <3>4. LateReports'
      BY <1>1, <2>2, <3>1 DEF SurfaceKept, LateReports, SurfaceTypeOK
    <3> QED
      BY <3>3, <3>4 DEF SurfaceKept, OneShown, HolderShown, DisposedLast
  <2> QED
    BY <2>3, <2>4, <2>5, <2>6
<1>3. CASE ~(owns[r] /\ stage[r] \notin Closed)
  <2>1. UNCHANGED <<stage, released, holder, screen>>
    BY <1>3 DEF Report
  <2>2. SurfaceTypeOK' /\ OneQueue' /\ ComeUp'
    BY <1>1, <2>1 DEF SurfaceTypeOK, OneQueue, ComeUp
  <2>3. ASSUME ~strayed' PROVE SurfaceKept'
    <3>1. SurfaceKept
      BY <1>1, <2>3
    <3>2. LateReports' /\ OneShown' /\ HolderShown'
      BY <1>1, <2>1, <3>1 DEF SurfaceKept, LateReports, OneShown, HolderShown, Current
    <3>3. DisposedLast'
      <4> SUFFICES ASSUME NEW d \in silent, NEW q \in Requests, stage[q] = "shown"
                   PROVE  d = Current(q) /\ d \in live' /\ q \notin building
        BY <1>1, <2>1 DEF DisposedLast, Current
      <4>1. d = c /\ d = Current(q) /\ owns[q]
        BY <1>1, <3>1 DEF SurfaceKept, DisposedLast, HolderShown
      <4>2. r = q
        BY <4>1 DEF Current
      <4> QED
        BY <1>3, <4>1, <4>2 DEF Closed
    <3> QED
      BY <3>2, <3>3 DEF SurfaceKept
  <2> QED
    BY <2>2, <2>3
<1> QED
  BY <1>2, <1>3

\* A component is disposed.
LEMMA DisposeKeeps == ASSUME SurfaceInv, NEW c, Dispose(c) PROVE SurfaceInv'
<1> USE InteractionAssumption DEF SurfaceInv
<1> DEFINE r == c[1]
<1>1. /\ c \in live /\ r \in Requests /\ stage[r] = "shown" /\ silent = {} /\ silent' = {c}
      /\ UNCHANGED <<stage, owns, queue, tail, building, built, live>>
      /\ Released({r}) /\ holder' = HolderWithout(r) /\ strayed' = (strayed \/ r \in building \/ c # Current(r))
  BY DEF Dispose, queueVars, SurfaceTypeOK
<1>2. /\ \A q \in Requests : released'[q] = (released[q] \/ q = r)
      /\ \A f \in Requests : holder'[f] \in {holder[f], Nobody}
  BY <1>1 DEF Released, HolderWithout, SurfaceTypeOK
<1>3. SurfaceTypeOK'
  BY <1>1 DEF SurfaceTypeOK, Released, HolderWithout
<1>4. OneQueue'
  BY <1>1, <1>2 DEF OneQueue
<1>5. ComeUp'
  BY <1>1, <1>2 DEF ComeUp, Early, SurfaceTypeOK
<1>6. ASSUME ~strayed' PROVE SurfaceKept'
  <2>1. SurfaceKept /\ r \notin building /\ c = Current(r)
    BY <1>1, <1>6
  <2>2. LateReports' /\ OneShown'
    BY <1>1, <2>1 DEF SurfaceKept, LateReports, OneShown
  <2>3. HolderShown'
    BY <1>1, <2>1 DEF SurfaceKept, HolderShown
  <2>4. DisposedLast'
    <3>1. \A q \in Requests : stage[q] = "shown" => q = r
      BY <1>1, <2>1 DEF SurfaceKept, OneShown
    <3> HIDE DEF r
    <3> QED
      BY <1>1, <2>1, <3>1 DEF DisposedLast, Current
  <2> QED
    BY <2>2, <2>3, <2>4 DEF SurfaceKept
<1> QED
  BY <1>3, <1>4, <1>5, <1>6

\* The microtask of a disposal looks at the component.
LEMMA AbandonKeeps == ASSUME SurfaceInv, NEW c, Abandon(c) PROVE SurfaceInv'
<1> USE InteractionAssumption DEF SurfaceInv
<1> DEFINE r == c[1]
           abandoned == c \in live /\ c = Current(r) /\ r \notin building
<1>1. /\ c \in silent /\ r \in Requests /\ silent' = silent \ {c}
      /\ UNCHANGED <<released, queue, tail, holder, building, built, live, screen, strayed>>
      /\ IF abandoned THEN Retire({r}) /\ stage' = [stage EXCEPT ![r] = Outcome(r, "failed")]
                      ELSE UNCHANGED <<owns, stage>>
  BY DEF Abandon, queueVars, SurfaceTypeOK
<1>2. c \in live => stage[r] \in {"shown"} \cup Over
  BY <1>1 DEF ComeUp, SurfaceTypeOK, Stages, Early
<1>3. /\ \A q \in Requests : stage'[q] = IF abandoned /\ q = r THEN Outcome(r, "failed") ELSE stage[q]
      /\ \A q \in Requests : owns'[q] = (owns[q] /\ ~(abandoned /\ q = r))
  <2>1. Retire({r}) => \A q \in Requests : owns'[q] = (owns[q] /\ q # r)
    BY FlagTypes
  <2> QED
    BY <1>1, <2>1 DEF SurfaceTypeOK
<1>4. abandoned => Outcome(r, "failed") \in Over /\ stage[r] \in {"shown"} \cup Over
  BY <1>2 DEF Outcome, Over
<1>5. SurfaceTypeOK'
  <2>1. stage' \in [Requests -> Stages]
    BY <1>1, <1>4 DEF SurfaceTypeOK, Stages
  <2>2. owns' \in [Requests -> BOOLEAN]
    BY <1>1, FlagTypes DEF SurfaceTypeOK
  <2> QED
    BY <1>1, <2>1, <2>2 DEF SurfaceTypeOK
<1>6. Over \cap Early = {} /\ "shown" \notin Over \cup Early
  BY DEF Over, Closed, Early
<1>7. abandoned <=> c \in live /\ c = Current(r) /\ r \notin building
  OBVIOUS
<1>r. r = c[1]
  OBVIOUS
<1> HIDE DEF abandoned, r
<1>8. \A q \in Requests : (stage'[q] \in Early <=> stage[q] \in Early) /\ (stage'[q] \in Early => stage'[q] = stage[q])
  BY <1>3, <1>4, <1>6
<1>9. OneQueue'
  BY <1>1, <1>8 DEF OneQueue, Early
<1>10. ComeUp'
  <2>1. \A q \in Requests : stage'[q] \in Early => built'[q] = 0 /\ owns'[q] /\ ~released'[q]
    <3>1. \A q \in Requests : stage'[q] \in Early => stage[q] \in Early /\ ~(abandoned /\ q = r)
      BY <1>3, <1>4, <1>6
    <3> QED
      BY <1>1, <1>3, <3>1 DEF ComeUp
  <2>2. \A q \in building' : stage'[q] \notin {"new", "queued", "waiting"}
    BY <1>1, <1>8 DEF ComeUp, Early, SurfaceTypeOK
  <2>3. \A f \in Requests : holder'[f] # Nobody => stage'[holder'[f]] \notin Early
    BY <1>1, <1>8 DEF ComeUp, SurfaceTypeOK
  <2>4. \A d \in live' : stage'[d[1]] \notin Early
    BY <1>1, <1>8 DEF ComeUp, SurfaceTypeOK
  <2> QED
    BY <2>1, <2>2, <2>3, <2>4 DEF ComeUp
<1>11. ASSUME ~strayed' PROVE SurfaceKept'
  <2>1. SurfaceKept
    BY <1>1, <1>11
  <2>2. LateReports'
    <3> SUFFICES ASSUME NEW d \in live, stage'[d[1]] = "failed" PROVE ~owns'[d[1]]
      BY <1>1 DEF LateReports
    <3> QED
      BY <1>3, <2>1 DEF SurfaceKept, LateReports, SurfaceTypeOK
  <2>3. \A q \in Requests : stage'[q] # "shown"
    <3> SUFFICES ASSUME NEW q \in Requests, stage'[q] = "shown" PROVE FALSE
      OBVIOUS
    <3>1. stage[q] = "shown"
      BY <1>3, <1>4, <1>6
    <3>2. c = Current(q) /\ c \in live /\ q \notin building
      BY <1>1, <2>1, <3>1 DEF SurfaceKept, DisposedLast
    <3>3. q = r /\ abandoned
      BY <1>7, <1>r, <3>2 DEF Current
    <3> QED
      BY <1>3, <1>4, <1>6, <3>3
  <2> QED
    BY <2>2, <2>3 DEF SurfaceKept, OneShown, HolderShown, DisposedLast
<1> QED
  BY <1>5, <1>9, <1>10, <1>11

\* A factory runs once more.
LEMMA RemountKeeps == ASSUME SurfaceInv, NEW r \in Requests, Remount(r) PROVE SurfaceInv'
<1> USE InteractionAssumption DEF SurfaceInv
<1>1. /\ stage[r] = "shown" /\ building' = building \cup {r} /\ strayed' = (strayed \/ silent # {})
      /\ UNCHANGED <<stage, owns, released, queue, tail, holder, built, live, silent, screen>>
  BY DEF Remount, queueVars
<1>2. SurfaceTypeOK' /\ OneQueue'
  BY <1>1 DEF SurfaceTypeOK, OneQueue
<1>3. ComeUp'
  BY <1>1 DEF ComeUp
<1>4. ASSUME ~strayed' PROVE SurfaceKept'
  <2>1. SurfaceKept /\ silent = {}
    BY <1>1, <1>4
  <2>2. LateReports' /\ OneShown' /\ DisposedLast'
    BY <1>1, <2>1 DEF SurfaceKept, LateReports, OneShown, DisposedLast
  <2>3. HolderShown'
    BY <1>1, <2>1 DEF SurfaceKept, HolderShown, Current
  <2> QED
    BY <2>2, <2>3 DEF SurfaceKept
<1> QED
  BY <1>2, <1>3, <1>4

LEMMA SurfaceSteps == SurfaceInv /\ SurfaceNext => SurfaceInv'
<1> SUFFICES ASSUME SurfaceInv, SurfaceNext PROVE SurfaceInv'
  OBVIOUS
<1>1. CASE UNCHANGED interactionVars
  <2>1. SurfaceTypeOK' /\ OneQueue' /\ ComeUp'
    BY <1>1 DEF interactionVars, queueVars, SurfaceInv, SurfaceTypeOK, OneQueue, ComeUp
  <2>2. ~strayed' => SurfaceKept'
    BY <1>1 DEF interactionVars, queueVars, SurfaceInv, SurfaceKept, LateReports, OneShown, HolderShown, DisposedLast, Current
  <2> QED
    BY <2>1, <2>2 DEF SurfaceInv
<1>2. CASE InteractionNext
  <2>1. PICK r \in Requests : Request(r) \/ SurfaceStep(r, BOOLEAN)
    BY <1>2 DEF InteractionNext
  <2>2. CASE Request(r)
    BY <2>2, RequestKeeps
  <2>3. CASE SurfaceStep(r, BOOLEAN)
    BY <2>3, WaitingKeeps, MountKeeps, FactoryFailsKeeps, RemountKeeps, ReportKeeps, DisposeKeeps, AbandonKeeps
       DEF SurfaceStep
  <2> QED
    BY <2>1, <2>2, <2>3
<1> QED
  BY <1>1, <1>2 DEF SurfaceNext

\* The one who is shown has the screen, as long as no call has parted from its slot.
LEMMA ShownOnScreen == SurfaceInv => StrandsNobody
<1> SUFFICES ASSUME SurfaceInv, ~strayed, NEW r \in Requests,
                    stage[r] = "shown", r \notin building, \A c \in silent : c[1] # r
             PROVE  screen = Current(r)
  BY DEF StrandsNobody, NeverStranded
<1>1. CASE silent = {}
  BY <1>1 DEF SurfaceInv, SurfaceKept, HolderShown
<1>2. CASE silent # {}
  <2>1. PICK c \in silent : TRUE
    BY <1>2
  <2>2. c = Current(r)
    BY <2>1 DEF SurfaceInv, SurfaceKept, DisposedLast
  <2> QED
    BY <2>1, <2>2 DEF Current
<1> QED
  BY <1>1, <1>2

(* Nobody is stranded (operator-interaction.ts): a caller that waits for    *)
(* its component has it on the screen, whatever late reports, takeovers,    *)
(* disposals and failed factories came before, as long as no call that      *)
(* builds a second component has parted from its slot.                     *)
THEOREM NobodyStranded == InteractionSpec => []StrandsNobody
<1>1. SurfaceInv /\ [InteractionNext]_interactionVars => SurfaceInv'
  BY SurfaceSteps DEF SurfaceNext
<1> QED
  BY <1>1, SurfaceStarts, ShownOnScreen, PTL DEF InteractionSpec

-----------------------------------------------------------------------------
Claims == [phase : {"absent", "prestart", "expired", "bound"}, run : Runs \cup {None}]

PumpTypeOK ==
    /\ scope \subseteq Runs /\ noticed \subseteq Runs /\ offered \subseteq Runs /\ bound \subseteq Runs
    /\ claimOf \in [Runs -> Claims]
    /\ summary \in [Runs -> {"running", "failing", "completed", "failed"}]
    /\ answers \in [Runs -> Runs \cup {None}]
    /\ asking # NoPump => asking.run \in Runs

\* A claim names the continuation that answers its handoff; unless nobody released it, that one
\* is at work, or has bound it and has a result.
ClaimStands(o) ==
    LET c == claimOf[o].run
    IN  /\ claimOf[o].phase = "absent" => c = None
        /\ claimOf[o].phase = "bound" => c # None
        /\ c # None => answers[c] = o /\ (claimOf[o].phase = "bound" <=> c \in bound)
        /\ claimOf[o].phase # "absent" /\ o \notin orphaned =>
              c # None /\ (c \in Unsettled \/ (c \in bound /\ summary[c] \in {"completed", "failed"}))
ClaimsStand == \A o \in Runs : ClaimStands(o)

\* A continuation that works has no result yet; it keeps the claim that it bound until it journals an error.
BoundStand ==
    \A c \in Unsettled :
       summary[c] \in {"running", "failing"} /\ (c \in bound /\ summary[c] = "running" => KeepsClaim(c))

\* What is answered awaited the operator; a run that has not started answers nothing.
AnswersStand ==
    \A c \in Runs :
       /\ answers[c] # None => answers[c] \in offered
       /\ c > started => c \notin bound /\ answers[c] = None /\ summary[c] = "running"

PumpInv == PumpTypeOK /\ ClaimsStand /\ BoundStand /\ AnswersStand

SessionInv == RegistryInv /\ SurfaceInv /\ PumpInv

LEMMA SessionStartsWell == SessionInit => SessionInv
<1> SUFFICES ASSUME SessionInit PROVE SessionInv
  OBVIOUS
<1>1. RegistryInv /\ SurfaceInv
  BY RegistryStarts, SurfaceStarts DEF SessionInit
<1>2. Unsettled = {}
  BY DEF SessionInit, RegistryInit, Unsettled
<1>3. PumpTypeOK
  BY DEF SessionInit, PumpTypeOK, NoClaim, Claims
<1>4. ClaimsStand /\ BoundStand /\ AnswersStand
  BY <1>2 DEF SessionInit, ClaimsStand, ClaimStands, BoundStand, AnswersStand, NoClaim
<1> QED
  BY <1>1, <1>3, <1>4 DEF SessionInv, PumpInv

\* What LaunchContinuation does.
LaunchesFor(o, c) ==
    /\ c = started + 1 /\ Launch(c) /\ scope' = scope \cup {c}
    /\ answers' = [answers EXCEPT ![c] = o]
    /\ claimOf' = [claimOf EXCEPT ![o] = [phase |-> "prestart", run |-> c]]
    /\ orphaned' = orphaned \ {o} /\ noticed' = noticed \ {o}
    /\ UNCHANGED <<offered, summary, bound>>

LEMMA LaunchOrNot ==
  ASSUME NEW o, LaunchContinuation(o)
  PROVE  \/ UNCHANGED <<registryVars, scope, continuationVars, noticed>>
         \/ Projected(o) \in {"pending", "retryable"} /\ \E c \in Runs : LaunchesFor(o, c)
         \/ /\ Projected(o) \in {"pending", "retryable"} /\ ReleaseClaim(o)
            /\ UNCHANGED <<registryVars, scope, offered, summary, bound, answers, noticed>>
BY DEF LaunchContinuation, LaunchClaimed, LaunchesFor, Launch, StartRun

\* A step of the session, as its parts see it.
LEMMA StepsOfParts == SessionNext => RegistryNext /\ SurfaceNext
<1> SUFFICES ASSUME SessionNext PROVE RegistryNext /\ SurfaceNext
  OBVIOUS
<1>1. RegistryNext
  <2>1. ASSUME NEW o, LaunchContinuation(o) PROVE RegistryNext
    BY <2>1, LaunchOrNot DEF LaunchesFor, RegistryNext
  <2>2. CASE SessionStarts \/ SessionShutdown \/ SessionShutdownReturns
    BY <2>2 DEF SessionStarts, SessionShutdown, SessionShutdownReturns, RegistryNext
  <2>3. ASSUME NEW r \in Runs, Command(r) \/ ToolCall(r) \/ CommandStop(r) \/ RunStarts(r) \/ RunSettles(r) \/ Receipts(r)
        PROVE  RegistryNext
    BY <2>3 DEF Command, ToolCall, CommandStop, RunStarts, RunSettles, Receipts, RegistryNext
  <2>4. ASSUME NEW r \in Runs, \/ BindsClaim(r) \/ SurvivesError(r) \/ ClaimExpires(r)
                               \/ ContinuationSettles(r) \/ ContinuationEscapes(r)
        PROVE  RegistryNext
    BY <2>4 DEF BindsClaim, SurvivesError, ClaimExpires, ContinuationSettles, ContinuationEscapes, RegistryNext
  <2>5. ASSUME NEW r \in Runs, \/ PumpDefers(r) \/ PumpAnswers(r)
                               \/ \E auto \in BOOLEAN, q \in Questions : PumpAsks(r, auto, q)
        PROVE  RegistryNext
    BY <2>1, <2>5 DEF PumpDefers, PumpAnswers, PumpAsks, RegistryNext
  <2>6. CASE PumpContinues
    BY <2>1, <2>6 DEF PumpContinues, RegistryNext
  <2>7. ASSUME NEW r \in Requests, Asks(r) \/ Surface(r) PROVE RegistryNext
    BY <2>7 DEF Asks, Surface, RegistryNext
  <2> QED
    BY <2>2, <2>3, <2>4, <2>5, <2>6, <2>7 DEF SessionNext
<1>2. SurfaceNext
  <2>1. CASE SessionStarts \/ SessionShutdown \/ SessionShutdownReturns
    BY <2>1 DEF SessionStarts, SessionShutdown, SessionShutdownReturns, SurfaceNext
  <2>2. ASSUME NEW r \in Runs, Command(r) \/ ToolCall(r) \/ CommandStop(r) \/ RunStarts(r) \/ RunSettles(r) \/ Receipts(r)
        PROVE  SurfaceNext
    BY <2>2 DEF Command, ToolCall, CommandStop, RunStarts, RunSettles, Receipts, SurfaceNext
  <2>3. ASSUME NEW r \in Runs, \/ BindsClaim(r) \/ SurvivesError(r) \/ ClaimExpires(r)
                               \/ ContinuationSettles(r) \/ ContinuationEscapes(r)
        PROVE  SurfaceNext
    BY <2>3 DEF BindsClaim, SurvivesError, ClaimExpires, ContinuationSettles, ContinuationEscapes, SurfaceNext
  <2>4. ASSUME NEW r \in Runs, \/ PumpDefers(r) \/ PumpAnswers(r)
                               \/ \E auto \in BOOLEAN, q \in Questions : PumpAsks(r, auto, q)
        PROVE  SurfaceNext
    BY <2>4, QuestionsAssumption DEF PumpDefers, PumpAnswers, PumpAsks, SurfaceNext, InteractionNext
  <2>5. CASE PumpContinues
    BY <2>5 DEF PumpContinues, SurfaceNext
  <2>6. ASSUME NEW r \in Requests, Asks(r) PROVE SurfaceNext
    BY <2>6 DEF Asks, SurfaceNext, InteractionNext
  <2>7. ASSUME NEW r \in Requests, Surface(r) PROVE SurfaceNext
    <3>1. \A ready \in MayMount(r) : ready \in BOOLEAN
      BY DEF MayMount
    <3>2. SurfaceStep(r, BOOLEAN)
      BY <2>7, <3>1 DEF Surface, SurfaceStep
    <3> QED
      BY <3>2 DEF SurfaceNext, InteractionNext
  <2> QED
    BY <2>1, <2>2, <2>3, <2>4, <2>5, <2>6, <2>7 DEF SessionNext
<1> QED
  BY <1>1, <1>2

-----------------------------------------------------------------------------
\* A step that changes no claim: what it settles answers nothing, what it starts is new.
LEMMA ClaimsStay ==
  ASSUME PumpInv, UNCHANGED <<claimOf, summary, bound, orphaned, answers>>, offered \subseteq offered', offered' \subseteq Runs,
         \A c \in Unsettled : answers[c] # None => c \in Unsettled',
         \A c \in Unsettled' \ Unsettled : c > started,
         started' >= started, started \in Nat, started' \in Nat,
         scope' \subseteq Runs, noticed' \subseteq Runs, asking' = asking \/ asking' = NoPump \/ asking'.run \in Runs
  PROVE  PumpInv'
<1> USE DEF PumpInv
<1>1. None \notin Runs /\ Unsettled \subseteq Runs /\ Unsettled' \subseteq Runs /\ \A o \in Runs : o \in Nat
  BY DEF None, Runs, Unsettled
<1>2. PumpTypeOK'
  BY DEF PumpTypeOK, NoPump
<1>3. ClaimsStand'
  <2> SUFFICES ASSUME NEW o \in Runs PROVE ClaimStands(o)'
    BY DEF ClaimsStand
  <2>1. ClaimStands(o)
    BY DEF ClaimsStand
  <2>2. o # None
    BY <1>1
  <2> QED
    BY <2>1, <2>2 DEF ClaimStands
<1>4. BoundStand'
  <2> SUFFICES ASSUME NEW c \in Unsettled'
               PROVE  summary[c] \in {"running", "failing"} /\ (c \in bound /\ summary[c] = "running" => KeepsClaim(c))
    BY DEF BoundStand, KeepsClaim
  <2>1. CASE c \in Unsettled
    BY <2>1 DEF BoundStand
  <2>2. CASE c \notin Unsettled
    BY <1>1, <2>2 DEF AnswersStand
  <2> QED
    BY <2>1, <2>2
<1>5. AnswersStand'
  BY <1>1 DEF AnswersStand
<1> QED
  BY <1>2, <1>3, <1>4, <1>5

\* A run that starts is new.
LEMMA StartsOne ==
  ASSUME RegistryInv, NEW r \in Runs, HasLease, StartRun(r)
  PROVE  Unsettled' = Unsettled \cup {r} /\ r = started + 1 /\ started' = r /\ started \in Nat /\ r \in Nat /\ r \notin Unsettled
<1>1. /\ r = started + 1 /\ started' = r /\ started \in Nat /\ r \in Nat
  BY SessionAssumption DEF RegistryInv, RegistryTypeOK, StartRun
<1>2. state[r] = "new" /\ state' = [state EXCEPT ![r] = "running"]
  BY <1>1 DEF RegistryInv, Recorded, StartRun
<1> QED
  BY <1>1, <1>2 DEF RegistryInv, RegistryTypeOK, Unsettled

\* A run that settles.
LEMMA SettlesOne ==
  ASSUME RegistryInv, NEW r \in Runs, Settle(r)
  PROVE  r \in Unsettled /\ Unsettled' = Unsettled \ {r} /\ started' = started /\ started \in Nat
BY SessionAssumption DEF RegistryInv, RegistryTypeOK, Settle, Unsettled

LEMMA SessionEdgesKeepClaims ==
  ASSUME SessionInv, SessionStarts \/ SessionShutdown \/ SessionShutdownReturns
  PROVE  PumpInv'
<1>1. started \in Nat /\ started' = started /\ UNCHANGED <<continuationVars, noticed, asking>>
  BY SessionAssumption DEF SessionInv, RegistryInv, RegistryTypeOK, SessionStarts, StartSession, SessionShutdown, Shutdown,
     SessionShutdownReturns, ShutdownReturns, pumpVars
<1>2. Unsettled' = Unsettled
  <2>1. CASE state' = state
    BY <2>1 DEF Unsettled
  <2>2. CASE \E g : RevokeGeneration(g)
    BY <2>2, Revoked DEF SessionInv, RegistryInv
  <2> QED
    BY <2>1, <2>2 DEF SessionStarts, StartSession, SessionShutdown, Shutdown, SessionShutdownReturns, ShutdownReturns
<1>3. scope' \subseteq Runs /\ noticed' \subseteq Runs /\ offered \subseteq Runs
  BY <1>1 DEF SessionInv, PumpInv, PumpTypeOK, SessionStarts, SessionShutdown, SessionShutdownReturns, pumpVars
<1> QED
  BY <1>1, <1>2, <1>3, ClaimsStay DEF SessionInv, continuationVars

LEMMA StartKeepsClaims == ASSUME SessionInv, NEW r \in Runs, Command(r) \/ ToolCall(r) PROVE PumpInv'
<1>1. HasLease /\ StartRun(r) /\ UNCHANGED <<continuationVars, noticed, asking>> /\ (scope' = scope \/ scope' = scope \cup {r})
  BY DEF Command, ToolCall, Launch, Attach, pumpVars
<1>2. Unsettled' = Unsettled \cup {r} /\ r = started + 1 /\ started' = r /\ started \in Nat /\ r \in Nat /\ r \notin Unsettled
  BY <1>1, StartsOne DEF SessionInv
<1>3. scope' \subseteq Runs /\ noticed' \subseteq Runs /\ offered \subseteq Runs
  BY <1>1 DEF SessionInv, PumpInv, PumpTypeOK
<1>4. started' >= started /\ started' \in Nat /\ \A c \in Unsettled' \ Unsettled : c > started
  BY <1>2
<1> QED
  BY <1>1, <1>2, <1>3, <1>4, ClaimsStay DEF SessionInv, continuationVars

LEMMA OthersKeepClaims ==
  ASSUME SessionInv,
         \/ \E r \in Runs : \/ CommandStop(r) \/ RunStarts(r) \/ Receipts(r) \/ PumpDefers(r)
                            \/ \E auto \in BOOLEAN, q \in Questions : PumpAsks(r, auto, q)
         \/ \E r \in Requests : Asks(r) \/ Surface(r)
         \/ UNCHANGED <<registryVars, pumpVars>>
         \/ UNCHANGED <<registryVars, scope, continuationVars, noticed>> /\ asking' = NoPump
  PROVE  PumpInv'
<1>1. started \in Nat /\ started' = started /\ UNCHANGED continuationVars
  <2>1. started \in Nat
    BY SessionAssumption DEF SessionInv, RegistryInv, RegistryTypeOK
  <2>2. CASE \E r \in Runs : CommandStop(r) \/ RunStarts(r) \/ Receipts(r) \/ PumpDefers(r)
    BY <2>1, <2>2 DEF CommandStop, Stop, RunStarts, Receipts, BeginReceipt, EndReceipt, PumpDefers, pumpVars, registryVars
  <2>3. CASE \E r \in Runs, auto \in BOOLEAN, q \in Questions : PumpAsks(r, auto, q)
    BY <2>1, <2>3 DEF PumpAsks, registryVars
  <2>4. CASE \/ \E r \in Requests : Asks(r) \/ Surface(r)
             \/ UNCHANGED <<registryVars, pumpVars>>
             \/ UNCHANGED <<registryVars, scope, continuationVars, noticed>>
    BY <2>1, <2>4 DEF Asks, Surface, pumpVars, registryVars
  <2> QED
    BY <2>2, <2>3, <2>4
<1>2. Unsettled' = Unsettled
  <2>1. CASE state' = state
    BY <2>1 DEF Unsettled
  <2>2. CASE \E r \in Runs : Stop(r)
    BY <2>2 DEF Stop, Unsettled, SessionInv, RegistryInv, RegistryTypeOK
  <2> QED
    BY <2>1, <2>2 DEF CommandStop, RunStarts, Receipts, BeginReceipt, EndReceipt, PumpDefers, PumpAsks, Asks, Surface, registryVars
<1>3. scope' \subseteq Runs /\ noticed' \subseteq Runs /\ offered \subseteq Runs
  BY DEF SessionInv, PumpInv, PumpTypeOK, CommandStop, RunStarts, Receipts, PumpDefers, PumpAsks, Asks, Surface, pumpVars
<1>4. asking' = asking \/ asking' = NoPump \/ asking'.run \in Runs
  <2>1. CASE \E r \in Runs, auto \in BOOLEAN, q \in Questions : PumpAsks(r, auto, q)
    BY <2>1 DEF PumpAsks
  <2>2. CASE ~\E r \in Runs, auto \in BOOLEAN, q \in Questions : PumpAsks(r, auto, q)
    BY <2>2 DEF CommandStop, RunStarts, Receipts, PumpDefers, Asks, Surface, pumpVars
  <2> QED
    BY <2>1, <2>2
<1> QED
  BY <1>1, <1>2, <1>3, <1>4, ClaimsStay DEF SessionInv, continuationVars

\* A run that answers nothing settles.
LEMMA RunSettlesKeepsClaims == ASSUME SessionInv, NEW r \in Runs, RunSettles(r) PROVE PumpInv'
<1>1. /\ Settle(r) /\ answers[r] = None /\ offered' \in {offered, offered \cup {r}}
      /\ UNCHANGED <<scope, claimOf, summary, bound, orphaned, answers, noticed, asking>>
  BY DEF RunSettles
<1>2. Unsettled' = Unsettled \ {r} /\ started' = started /\ started \in Nat
  BY <1>1, SettlesOne DEF SessionInv
<1>3. scope' \subseteq Runs /\ noticed' \subseteq Runs /\ offered \subseteq offered' /\ offered' \subseteq Runs
  BY <1>1 DEF SessionInv, PumpInv, PumpTypeOK
<1> QED
  BY <1>1, <1>2, <1>3, ClaimsStay DEF SessionInv

-----------------------------------------------------------------------------
\* The runs and the parts of the pump that a step of a claim leaves alone.
RegistryStays == Unsettled' = Unsettled /\ started' = started /\ started \in Nat

LEMMA NothingSettles == ASSUME RegistryInv, UNCHANGED registryVars PROVE RegistryStays
BY SessionAssumption DEF RegistryInv, RegistryTypeOK, RegistryStays, registryVars, Unsettled

\* The continuation of a claim is its own.
LEMMA ClaimIsOwn ==
  ASSUME PumpInv, NEW c \in Runs, KeepsClaim(c)
  PROVE  /\ answers[c] \in Runs /\ claimOf[answers[c]].run = c /\ c # None
         /\ \A o \in Runs : claimOf[o].run = c => o = answers[c]
<1>1. c # None /\ answers[c] \in Runs
  BY DEF PumpInv, PumpTypeOK, KeepsClaim, None, Runs
<1> QED
  BY <1>1 DEF PumpInv, ClaimsStand, ClaimStands, KeepsClaim

LEMMA BindsKeeps == ASSUME SessionInv, NEW c \in Runs, BindsClaim(c) PROVE PumpInv'
<1> USE DEF SessionInv, PumpInv
<1>1. /\ c \in Unsettled /\ c \notin bound /\ KeepsClaim(c) /\ bound' = bound \cup {c}
      /\ claimOf' = [claimOf EXCEPT ![answers[c]].phase = "bound"]
      /\ UNCHANGED <<scope, offered, summary, orphaned, answers, noticed, asking>>
  BY DEF BindsClaim
<1>2. RegistryStays
  BY NothingSettles DEF BindsClaim
<1>3. PICK o \in Runs : o = answers[c] /\ claimOf[o].run = c /\ c # None /\ \A p \in Runs : claimOf[p].run = c => p = o
  BY <1>1, ClaimIsOwn
<1>4. /\ claimOf'[o].phase = "bound" /\ claimOf'[o].run = c /\ claimOf'[o] \in Claims
      /\ \A p \in Runs \ {o} : claimOf'[p] = claimOf[p]
      /\ claimOf' \in [Runs -> Claims]
  BY <1>1, <1>3 DEF PumpTypeOK, Claims
<1>5. PumpTypeOK'
  BY <1>1, <1>4 DEF PumpTypeOK
<1>6. ClaimsStand'
  <2> SUFFICES ASSUME NEW p \in Runs PROVE ClaimStands(p)'
    BY DEF ClaimsStand
  <2>1. ClaimStands(p)
    BY DEF ClaimsStand
  <2>2. CASE p = o
    BY <1>1, <1>2, <1>3, <1>4, <2>2 DEF ClaimStands, RegistryStays
  <2>3. CASE p # o
    BY <1>1, <1>2, <1>3, <1>4, <2>1, <2>3 DEF ClaimStands, RegistryStays
  <2> QED
    BY <2>2, <2>3
<1>7. BoundStand'
  <2> SUFFICES ASSUME NEW d \in Unsettled
               PROVE  summary[d] \in {"running", "failing"} /\ (d \in bound' /\ summary[d] = "running" => KeepsClaim(d)')
    BY <1>1, <1>2 DEF BoundStand, RegistryStays
  <2>1. d \in Runs
    BY DEF Unsettled
  <2>2. d \in bound' /\ summary[d] = "running" => KeepsClaim(d)
    BY <1>1 DEF BoundStand
  <2>3. KeepsClaim(d) => answers[d] \in Runs
    BY <2>1 DEF KeepsClaim, PumpTypeOK
  <2>4. KeepsClaim(d) => KeepsClaim(d)'
    BY <1>1, <1>3, <1>4, <2>3 DEF KeepsClaim
  <2> QED
    BY <2>2, <2>4 DEF BoundStand
<1>8. AnswersStand'
  <2>1. ~(c > started)
    BY <1>1, <1>3 DEF AnswersStand, None, Runs
  <2> QED
    BY <1>1, <1>2, <2>1 DEF AnswersStand, RegistryStays
<1> QED
  BY <1>5, <1>6, <1>7, <1>8

LEMMA ErrorKeeps == ASSUME SessionInv, NEW c \in Runs, SurvivesError(c) PROVE PumpInv'
<1> USE DEF SessionInv, PumpInv
<1>1. /\ c \in Unsettled /\ c \in bound /\ summary' = [summary EXCEPT ![c] = "failing"] /\ summary[c] = "running"
      /\ UNCHANGED <<scope, offered, claimOf, bound, orphaned, answers, noticed, asking>>
  BY DEF SurvivesError
<1>2. RegistryStays
  BY NothingSettles DEF SurvivesError
<1>3. \A d \in Runs : summary'[d] = IF d = c THEN "failing" ELSE summary[d]
  BY <1>1 DEF PumpTypeOK
<1>4. PumpTypeOK'
  BY <1>1 DEF PumpTypeOK
<1>5. ClaimsStand'
  <2> SUFFICES ASSUME NEW p \in Runs PROVE ClaimStands(p)'
    BY DEF ClaimsStand
  <2>1. ClaimStands(p) /\ claimOf[p].run \in Runs \cup {None}
    BY DEF ClaimsStand, PumpTypeOK, Claims
  <2> QED
    BY <1>1, <1>2, <1>3, <2>1 DEF ClaimStands, RegistryStays
<1>6. BoundStand'
  BY <1>1, <1>2, <1>3 DEF BoundStand, RegistryStays, KeepsClaim, Unsettled
<1>7. AnswersStand'
  BY <1>1, <1>2, <1>3 DEF AnswersStand, RegistryStays
<1> QED
  BY <1>4, <1>5, <1>6, <1>7

LEMMA ExpiryKeeps == ASSUME SessionInv, NEW o \in Runs, ClaimExpires(o) PROVE PumpInv'
<1> USE DEF SessionInv, PumpInv
<1>1. /\ claimOf[o].phase = "prestart" /\ claimOf' = [claimOf EXCEPT ![o].phase = "expired"]
      /\ UNCHANGED <<scope, offered, summary, bound, orphaned, answers, noticed, asking>>
  BY DEF ClaimExpires
<1>2. RegistryStays
  BY NothingSettles DEF ClaimExpires
<1>3. /\ claimOf'[o].phase = "expired" /\ claimOf'[o].run = claimOf[o].run
      /\ \A p \in Runs \ {o} : claimOf'[p] = claimOf[p]
      /\ claimOf' \in [Runs -> Claims]
  BY <1>1 DEF PumpTypeOK, Claims
<1>4. PumpTypeOK'
  BY <1>1, <1>3 DEF PumpTypeOK
<1>5. ClaimsStand'
  <2> SUFFICES ASSUME NEW p \in Runs PROVE ClaimStands(p)'
    BY DEF ClaimsStand
  <2>1. ClaimStands(p)
    BY DEF ClaimsStand
  <2> QED
    BY <1>1, <1>2, <1>3, <2>1 DEF ClaimStands, RegistryStays
<1>6. BoundStand'
  <2> SUFFICES ASSUME NEW d \in Unsettled, d \in bound, summary[d] = "running" PROVE KeepsClaim(d)'
    BY <1>1, <1>2 DEF BoundStand, RegistryStays
  <2>1. KeepsClaim(d) /\ answers[d] \in Runs
    BY DEF BoundStand, KeepsClaim, PumpTypeOK, Unsettled
  <2> QED
    BY <1>1, <1>3, <2>1 DEF KeepsClaim
<1>7. AnswersStand'
  BY <1>1, <1>2 DEF AnswersStand, RegistryStays
<1> QED
  BY <1>4, <1>5, <1>6, <1>7

\* A continuation settles, and its claim with it, or nobody releases it.
LEMMA ContinuationOver ==
  ASSUME SessionInv, NEW c \in Runs, Settle(c), answers[c] # None,
         summary' \in [Runs -> {"running", "failing", "completed", "failed"}], \A d \in Runs \ {c} : summary'[d] = summary[d],
         offered \subseteq offered', offered' \subseteq Runs,
         \/ c \in bound /\ summary'[c] \in {"completed", "failed"} /\ UNCHANGED <<claimOf, orphaned>>
         \/ ~KeepsClaim(c) /\ UNCHANGED <<claimOf, orphaned>>
         \/ c \notin bound /\ KeepsClaim(c) /\ claimOf' = [claimOf EXCEPT ![answers[c]] = NoClaim] /\ UNCHANGED orphaned
         \/ orphaned' = orphaned \cup {answers[c]} /\ UNCHANGED claimOf,
         UNCHANGED <<scope, bound, answers, noticed, asking>>
  PROVE  PumpInv'
<1> USE DEF SessionInv, PumpInv
<1>1. c \in Unsettled /\ Unsettled' = Unsettled \ {c} /\ started' = started /\ started \in Nat
  BY SettlesOne
<1>2. PICK o \in Runs : o = answers[c]
  BY DEF PumpTypeOK
<1>3. c # None /\ \A p \in Runs \ {o} : claimOf[p].run # c
  BY <1>2 DEF ClaimsStand, ClaimStands, None, Runs
<1>4. /\ claimOf' \in [Runs -> Claims] /\ \A p \in Runs \ {o} : claimOf'[p] = claimOf[p]
      /\ claimOf'[o] = claimOf[o] \/ (claimOf'[o] = NoClaim /\ c \notin bound)
      /\ \A p \in Runs \ {o} : p \in orphaned' <=> p \in orphaned
  BY <1>2 DEF PumpTypeOK, Claims, NoClaim
<1>5. PumpTypeOK'
  BY <1>4 DEF PumpTypeOK
<1>6. ClaimsStand'
  <2> SUFFICES ASSUME NEW p \in Runs PROVE ClaimStands(p)'
    BY DEF ClaimsStand
  <2>1. ClaimStands(p) /\ claimOf[p].run \in Runs \cup {None}
    BY DEF ClaimsStand, PumpTypeOK, Claims
  <2>2. CASE p # o
    BY <1>1, <1>3, <1>4, <2>1, <2>2 DEF ClaimStands
  <2>3. CASE p = o /\ claimOf'[o] = NoClaim
    BY <2>3 DEF ClaimStands, NoClaim
  <2>4. CASE p = o /\ UNCHANGED claimOf /\ claimOf[o].run # c
    <3>1. orphaned \subseteq orphaned'
      OBVIOUS
    <3>2. claimOf[o].run # None => summary'[claimOf[o].run] = summary[claimOf[o].run]
      BY <2>1, <2>4
    <3> QED
      BY <1>1, <2>1, <2>4, <3>1, <3>2 DEF ClaimStands
  <2>5. CASE p = o /\ UNCHANGED claimOf /\ claimOf[o].run = c
    <3>1. KeepsClaim(c)
      BY <1>2, <2>5 DEF KeepsClaim
    <3>2. claimOf[o].phase # "absent"
      BY <1>3, <2>1, <2>5 DEF ClaimStands
    <3>3. claimOf' # [claimOf EXCEPT ![o] = NoClaim]
      BY <1>3, <2>5 DEF NoClaim, PumpTypeOK
    <3>4. o \in orphaned' \/ (c \in bound /\ summary'[c] \in {"completed", "failed"})
      BY <1>2, <3>1, <3>3
    <3> QED
      BY <1>1, <1>3, <2>1, <2>5, <3>4 DEF ClaimStands
  <2>6. claimOf'[o] = NoClaim \/ UNCHANGED claimOf
    BY <1>2 DEF PumpTypeOK
  <2> QED
    BY <2>2, <2>3, <2>4, <2>5, <2>6
<1>7. BoundStand'
  <2> SUFFICES ASSUME NEW d \in Unsettled \ {c}
               PROVE  summary[d] \in {"running", "failing"} /\ (d \in bound /\ summary[d] = "running" => KeepsClaim(d)')
    BY <1>1 DEF BoundStand, Unsettled
  <2>1. KeepsClaim(d) => answers[d] \in Runs /\ d # None /\ d \in Runs
    BY DEF KeepsClaim, PumpTypeOK, Unsettled, None, Runs
  <2>2. d \in bound /\ KeepsClaim(d) => KeepsClaim(d)'
    <3> SUFFICES ASSUME d \in bound, KeepsClaim(d) PROVE claimOf'[answers[d]].run = d
      BY DEF KeepsClaim
    <3>1. CASE answers[d] # o
      BY <1>4, <2>1, <3>1 DEF KeepsClaim
    <3>2. CASE answers[d] = o /\ UNCHANGED claimOf
      BY <3>2 DEF KeepsClaim
    <3>3. CASE answers[d] = o /\ ~UNCHANGED claimOf
      <4>1. KeepsClaim(c)
        BY <3>3
      <4> QED
        BY <1>2, <3>3, <4>1 DEF KeepsClaim
    <3> QED
      BY <3>1, <3>2, <3>3
  <2> QED
    BY <2>2 DEF BoundStand
<1>8. AnswersStand'
  <2>1. ~(c > started)
    BY <1>2 DEF AnswersStand, None, Runs
  <2> QED
    BY <1>1, <2>1 DEF AnswersStand
<1> QED
  BY <1>5, <1>6, <1>7, <1>8

LEMMA ContinuationOverKeeps ==
  ASSUME SessionInv, NEW c \in Runs, ContinuationSettles(c) \/ ContinuationEscapes(c)
  PROVE  PumpInv'
<1>t. /\ summary \in [Runs -> {"running", "failing", "completed", "failed"}] /\ offered \subseteq Runs
      /\ c \in bound \/ c \notin bound
  BY DEF SessionInv, PumpInv, PumpTypeOK
<1>1. CASE ContinuationSettles(c)
  <2>1. /\ Settle(c) /\ answers[c] # None /\ UNCHANGED <<scope, bound, answers, noticed, asking>>
    BY <1>1 DEF ContinuationSettles
  <2>2. PICK how \in {"completed", "failed"} :
           summary' = [summary EXCEPT ![c] = how] /\ (offered' = offered \/ offered' = offered \cup {c})
    BY <1>1 DEF ContinuationSettles
  <2>3. /\ summary' \in [Runs -> {"running", "failing", "completed", "failed"}]
        /\ \A d \in Runs \ {c} : summary'[d] = summary[d]
        /\ summary'[c] \in {"completed", "failed"}
    BY <1>t, <2>2
  <2>4. offered \subseteq offered' /\ offered' \subseteq Runs
    BY <1>t, <2>2
  <2>5. \/ c \in bound /\ UNCHANGED <<claimOf, orphaned>>
        \/ ~KeepsClaim(c) /\ UNCHANGED <<claimOf, orphaned>>
        \/ c \notin bound /\ KeepsClaim(c) /\ claimOf' = [claimOf EXCEPT ![answers[c]] = NoClaim] /\ UNCHANGED orphaned
        \/ orphaned' = orphaned \cup {answers[c]} /\ UNCHANGED claimOf
    BY <1>1 DEF ContinuationSettles
  <2> QED
    BY <2>1, <2>3, <2>4, <2>5, ContinuationOver
<1>2. CASE ContinuationEscapes(c)
  <2>1. /\ Settle(c) /\ answers[c] # None
        /\ UNCHANGED <<scope, offered, claimOf, summary, bound, answers, noticed, asking>>
        /\ orphaned' = IF KeepsClaim(c) THEN orphaned \cup {answers[c]} ELSE orphaned
    BY <1>2 DEF ContinuationEscapes
  <2>2. \/ ~KeepsClaim(c) /\ UNCHANGED <<claimOf, orphaned>>
        \/ orphaned' = orphaned \cup {answers[c]} /\ UNCHANGED claimOf
    BY <2>1
  <2> QED
    BY <1>t, <2>1, <2>2, ContinuationOver
<1> QED
  BY <1>1, <1>2

\* A bound continuation at work that has journaled no error answers no handoff that could be claimed.
LEMMA ActionableIsFree ==
  ASSUME SessionInv, NEW o \in Runs, Projected(o) \in {"pending", "retryable"},
         NEW d \in Unsettled, d \in bound, summary[d] = "running"
  PROVE  answers[d] \in Runs \ {o} /\ KeepsClaim(d)
<1> USE DEF SessionInv, PumpInv
<1>1. KeepsClaim(d) /\ d \in Runs
  BY DEF BoundStand, Unsettled
<1>2. answers[d] \in Runs /\ claimOf[answers[d]].run = d /\ d # None
  BY <1>1, ClaimIsOwn
<1>3. claimOf[answers[d]].phase = "bound" /\ answers[d] \in offered
  BY <1>1, <1>2 DEF ClaimsStand, ClaimStands, AnswersStand, KeepsClaim
<1>4. Projected(answers[d]) = "running"
  BY <1>2, <1>3 DEF Projected
<1> QED
  BY <1>1, <1>2, <1>4

\* The launch is refused: the claim is released, or cannot be.
LEMMA ReleaseKeeps ==
  ASSUME SessionInv, NEW o \in Runs, Projected(o) \in {"pending", "retryable"}, ReleaseClaim(o),
         UNCHANGED <<registryVars, scope, offered, summary, bound, answers, noticed>>, asking' \in {asking, NoPump}
  PROVE  PumpInv'
<1> USE DEF SessionInv, PumpInv
<1>1. PICK claim1 \in {NoClaim, [phase |-> "prestart", run |-> None]} :
         /\ claimOf' = [claimOf EXCEPT ![o] = claim1]
         /\ claim1.phase = "prestart" => o \in orphaned'
         /\ \A p \in Runs \ {o} : p \in orphaned' <=> p \in orphaned
  BY DEF ReleaseClaim, NoClaim
<1>2. claim1 \in Claims /\ claim1.run = None /\ claim1.phase \in {"absent", "prestart"}
  BY <1>1 DEF NoClaim, Claims
<1>3. RegistryStays
  BY NothingSettles
<1>4. claimOf' \in [Runs -> Claims] /\ claimOf'[o] = claim1 /\ \A p \in Runs \ {o} : claimOf'[p] = claimOf[p]
  BY <1>1, <1>2 DEF PumpTypeOK
<1>5. PumpTypeOK'
  BY <1>4 DEF PumpTypeOK
<1>6. ClaimsStand'
  <2> SUFFICES ASSUME NEW p \in Runs PROVE ClaimStands(p)'
    BY DEF ClaimsStand
  <2>1. CASE p = o
    BY <1>1, <1>2, <1>4, <2>1 DEF ClaimStands
  <2>2. CASE p # o
    BY <1>1, <1>3, <1>4, <2>2 DEF ClaimsStand, ClaimStands, RegistryStays
  <2> QED
    BY <2>1, <2>2
<1>7. BoundStand'
  <2> SUFFICES ASSUME NEW d \in Unsettled, d \in bound, summary[d] = "running" PROVE KeepsClaim(d)'
    BY <1>3 DEF BoundStand, RegistryStays
  <2>1. answers[d] \in Runs \ {o} /\ KeepsClaim(d)
    BY ActionableIsFree
  <2> QED
    BY <1>4, <2>1 DEF KeepsClaim
<1>8. AnswersStand'
  BY <1>3 DEF AnswersStand, RegistryStays
<1> QED
  BY <1>5, <1>6, <1>7, <1>8

\* A continuation starts, and the claim names it.
LEMMA LaunchedKeeps ==
  ASSUME SessionInv, NEW o \in Runs, Projected(o) \in {"pending", "retryable"}, NEW c \in Runs, LaunchesFor(o, c),
         asking' \in {asking, NoPump}
  PROVE  PumpInv'
<1> USE DEF SessionInv, PumpInv
<1>1. /\ c = started + 1 /\ Launch(c) /\ scope' = scope \cup {c}
      /\ answers' = [answers EXCEPT ![c] = o]
      /\ claimOf' = [claimOf EXCEPT ![o] = [phase |-> "prestart", run |-> c]]
      /\ orphaned' = orphaned \ {o} /\ noticed' = noticed \ {o}
      /\ UNCHANGED <<offered, summary, bound>>
  BY DEF LaunchesFor
<1>2. Unsettled' = Unsettled \cup {c} /\ started' = c /\ started \in Nat /\ c \in Nat /\ c \notin Unsettled
  BY <1>1, StartsOne DEF Launch
<1>3. c > started /\ c \notin bound /\ answers[c] = None /\ summary[c] = "running" /\ c # None /\ o # None
  BY <1>1, <1>2 DEF AnswersStand, None, Runs
<1>4. /\ claimOf' \in [Runs -> Claims] /\ claimOf'[o].phase = "prestart" /\ claimOf'[o].run = c
      /\ \A p \in Runs \ {o} : claimOf'[p] = claimOf[p]
      /\ answers'[c] = o /\ \A d \in Runs \ {c} : answers'[d] = answers[d]
  BY <1>1 DEF PumpTypeOK, Claims
<1>5. PumpTypeOK'
  BY <1>1, <1>4 DEF PumpTypeOK
<1>6. ClaimsStand'
  <2> SUFFICES ASSUME NEW p \in Runs PROVE ClaimStands(p)'
    BY DEF ClaimsStand
  <2>1. CASE p = o
    BY <1>1, <1>2, <1>3, <1>4, <2>1 DEF ClaimStands
  <2>2. CASE p # o
    <3>1. ClaimStands(p) /\ claimOf[p].run \in Runs \cup {None} /\ p # None
      BY DEF ClaimsStand, PumpTypeOK, Claims, None, Runs
    <3>2. claimOf[p].run # c
      BY <1>3, <3>1 DEF ClaimStands
    <3> QED
      BY <1>1, <1>2, <1>4, <2>2, <3>1, <3>2 DEF ClaimStands
  <2> QED
    BY <2>1, <2>2
<1>7. BoundStand'
  <2> SUFFICES ASSUME NEW d \in Unsettled', d # c
               PROVE  summary[d] \in {"running", "failing"} /\ (d \in bound /\ summary[d] = "running" => KeepsClaim(d)')
    BY <1>1, <1>3 DEF BoundStand
  <2>1. d \in Unsettled /\ d \in Runs
    BY <1>2 DEF Unsettled
  <2>2. ASSUME d \in bound, summary[d] = "running" PROVE KeepsClaim(d)'
    <3>1. answers[d] \in Runs \ {o} /\ KeepsClaim(d)
      BY <2>1, <2>2, ActionableIsFree
    <3> QED
      BY <1>4, <2>1, <3>1 DEF KeepsClaim
  <2> QED
    BY <2>1, <2>2 DEF BoundStand
<1>8. AnswersStand'
  <2>1. o \in offered
    BY DEF Projected
  <2>2. \A d \in Runs : d \in Nat
    BY DEF Runs
  <2> QED
    BY <1>1, <1>2, <1>4, <2>1, <2>2 DEF AnswersStand
<1> QED
  BY <1>5, <1>6, <1>7, <1>8

LEMMA LaunchKeepsClaims ==
  ASSUME SessionInv, NEW o \in Runs, LaunchContinuation(o), asking' \in {asking, NoPump}
  PROVE  PumpInv'
<1>1. CASE UNCHANGED <<registryVars, scope, continuationVars, noticed>>
  BY <1>1, OthersKeepClaims DEF pumpVars
<1> QED
  BY <1>1, LaunchOrNot, LaunchedKeeps, ReleaseKeeps

LEMMA PumpSteps == SessionInv /\ SessionNext => PumpInv'
<1> SUFFICES ASSUME SessionInv, SessionNext PROVE PumpInv'
  OBVIOUS
<1>1. ASSUME PumpContinues PROVE PumpInv'
  <2>1. asking.run \in Runs /\ asking' = NoPump
    BY <1>1 DEF PumpContinues, SessionInv, PumpInv, PumpTypeOK
  <2>2. LaunchContinuation(asking.run) \/ UNCHANGED <<registryVars, scope, continuationVars, noticed>>
    BY <1>1 DEF PumpContinues
  <2> QED
    BY <2>1, <2>2, LaunchKeepsClaims, OthersKeepClaims
<1>2. ASSUME NEW r \in Runs, PumpAnswers(r) PROVE PumpInv'
  BY <1>2, LaunchKeepsClaims DEF PumpAnswers
<1>3. ASSUME NEW r \in Runs, \/ BindsClaim(r) \/ SurvivesError(r) \/ ClaimExpires(r)
                             \/ ContinuationSettles(r) \/ ContinuationEscapes(r)
      PROVE  PumpInv'
  BY <1>3, BindsKeeps, ErrorKeeps, ExpiryKeeps, ContinuationOverKeeps
<1> QED
  BY <1>1, <1>2, <1>3, SessionEdgesKeepClaims, StartKeepsClaims, OthersKeepClaims, RunSettlesKeepsClaims DEF SessionNext

LEMMA SessionInvariant == SessionSpec => []SessionInv
<1>1. SessionInv /\ SessionNext => SessionInv'
  BY StepsOfParts, RegistrySteps, SurfaceSteps, PumpSteps DEF SessionInv
<1>2. SessionInv /\ UNCHANGED sessionVars => SessionInv'
  <2> SUFFICES ASSUME SessionInv, UNCHANGED sessionVars PROVE SessionInv'
    OBVIOUS
  <2>1. UNCHANGED <<registryVars, interactionVars, pumpVars>>
    BY DEF sessionVars
  <2>2. RegistryInv' /\ SurfaceInv'
    BY <2>1, RegistrySteps, SurfaceSteps DEF RegistryNext, SurfaceNext, SessionInv
  <2>3. PumpInv'
    BY <2>1, OthersKeepClaims
  <2> QED
    BY <2>2, <2>3 DEF SessionInv
<1> QED
  BY <1>1, <1>2, SessionStartsWell, PTL DEF SessionSpec

-----------------------------------------------------------------------------
(* A slash command starts only after the command run before it has settled, *)
(* and in its own session has finished its callbacks (launch, attach and    *)
(* settleRun of the launcher, on the registry).                            *)
THEOREM CommandRunsExclude == SessionSpec => []OneCommandRun
<1>1. SessionInv => OneCommandRun
  BY DEF SessionInv, RegistryInv
<1> QED
  BY <1>1, SessionInvariant, PTL

(* When the shutdown handler returns, no run of the session is at work.     *)
THEOREM ShutdownIsComplete == SessionSpec => []ShutdownWaits
<1>1. SessionInv => ShutdownWaits
  BY DEF SessionInv, RegistryInv
<1> QED
  BY <1>1, SessionInvariant, PTL

(* The same holds of the surface of a session, which asks its questions and *)
(* those of the other features on it.                                      *)
THEOREM NobodyStrandedInSession == SessionSpec => []StrandsNobody
<1>1. SessionInv => StrandsNobody
  BY ShownOnScreen DEF SessionInv
<1> QED
  BY <1>1, SessionInvariant, PTL

(* A handoff that reads as running has a continuation at work that holds    *)
(* its claim, unless a release of the claim failed or its run escaped; and   *)
(* a bound continuation that works and has journaled no error keeps it       *)
(* (claim, launch and release of the handoff service, binding and release   *)
(* of the run, and the projection that the pumps read).                     *)
THEOREM RunningMeansRuns == SessionSpec => []ContinuationRuns
<1>1. SessionInv => ContinuationRuns
  <2> SUFFICES ASSUME SessionInv PROVE ContinuationRuns
    OBVIOUS
  <2> USE DEF SessionInv, PumpInv
  <2>1. ASSUME NEW o \in Runs \ orphaned, Projected(o) = "running" PROVE \E c \in Unsettled : answers[c] = o /\ KeepsClaim(c)
    <3>1. ClaimStands(o) /\ claimOf[o] \in Claims /\ o # None
      BY DEF ClaimsStand, PumpTypeOK, None, Runs
    <3>2. claimOf[o].phase = "prestart" \/ (claimOf[o].phase = "bound" /\ summary[claimOf[o].run] = "running")
      BY <2>1, <3>1 DEF Projected, Claims
    <3>3. claimOf[o].run \in Unsettled /\ answers[claimOf[o].run] = o
      BY <3>1, <3>2 DEF ClaimStands
    <3> QED
      BY <3>1, <3>3 DEF KeepsClaim
  <2>2. ASSUME NEW c \in Unsettled, c \in bound, summary[c] = "running" PROVE KeepsClaim(c) /\ Projected(answers[c]) = "running"
    <3>1. KeepsClaim(c) /\ c \in Runs
      BY <2>2 DEF BoundStand, Unsettled
    <3>2. answers[c] \in Runs /\ claimOf[answers[c]].run = c /\ c # None
      BY <3>1, ClaimIsOwn
    <3>3. claimOf[answers[c]].phase = "bound" /\ answers[c] \in offered
      BY <2>2, <3>1, <3>2 DEF ClaimsStand, ClaimStands, AnswersStand, KeepsClaim
    <3> QED
      BY <2>2, <3>1, <3>2, <3>3 DEF Projected
  <2> QED
    BY <2>1, <2>2 DEF ContinuationRuns
<1> QED
  BY <1>1, SessionInvariant, PTL

(* The continuation that an answer launches belongs to the generation in    *)
(* which its question was asked (the pump's guard, after its await).        *)
THEOREM AnswersStay == SessionSpec => AnswerStaysInSession
<1> DEFINE Stays == asking # NoPump /\ asking' = NoPump /\ started' # started => leaseOf'[started'] = asking.gen
<1>1. SessionInv /\ SessionNext => Stays
  <2> SUFFICES ASSUME SessionInv, SessionNext, asking # NoPump, asking' = NoPump, started' # started
               PROVE  leaseOf'[started'] = asking.gen
    OBVIOUS
  <2>1. CASE PumpContinues
    <3>1. IsCurrent(asking.gen) /\ LaunchContinuation(asking.run)
      BY <2>1 DEF PumpContinues, Guard, registryVars
    <3>2. PICK c \in Runs : Launch(c)
      BY <2>1, <3>1, LaunchOrNot DEF registryVars, LaunchesFor
    <3>3. IsCurrent(lease) /\ started' = c /\ leaseOf' = [leaseOf EXCEPT ![c] = lease]
      BY <3>2 DEF Launch, HasLease, StartRun
    <3> QED
      BY <3>1, <3>3 DEF IsCurrent, SessionInv, RegistryInv, RegistryTypeOK
  <2>2. CASE SessionStarts \/ SessionShutdown \/ SessionShutdownReturns
    BY <2>2 DEF SessionStarts, SessionShutdown, SessionShutdownReturns, pumpVars
  <2>3. ASSUME NEW r \in Runs, \/ Command(r) \/ ToolCall(r) \/ CommandStop(r) \/ RunStarts(r) \/ RunSettles(r) \/ Receipts(r)
                               \/ BindsClaim(r) \/ SurvivesError(r) \/ ClaimExpires(r)
                               \/ ContinuationSettles(r) \/ ContinuationEscapes(r)
                               \/ PumpDefers(r) \/ PumpAnswers(r)
                               \/ \E auto \in BOOLEAN, q \in Questions : PumpAsks(r, auto, q)
        PROVE  FALSE
    BY <2>3 DEF Command, ToolCall, CommandStop, RunStarts, RunSettles, Receipts, BindsClaim, SurvivesError, ClaimExpires,
       ContinuationSettles, ContinuationEscapes, PumpDefers, PumpAnswers, PumpAsks, pumpVars
  <2>4. ASSUME NEW r \in Requests, Asks(r) \/ Surface(r) PROVE FALSE
    BY <2>4 DEF Asks, Surface, pumpVars
  <2> QED
    BY <2>1, <2>2, <2>3, <2>4 DEF SessionNext
<1> QED
  BY <1>1, SessionInvariant, PTL DEF SessionSpec, AnswerStaysInSession

-----------------------------------------------------------------------------
(***************************************************************************)
(* The claim of a handoff, for every set of operators.                      *)
(*                                                                         *)
(* As long as no fresh lock was broken, the lock of a live transition is    *)
(* its own, so what it found out about the claim still holds when it acts.  *)
(* A continuation at work, or one that has completed, is the one the claim  *)
(* names, and no transition takes such a claim.                            *)
(***************************************************************************)
UnderLock == {"locked", "unlink", "unlinkNow", "write", "rename", "unlock", "unlockNow"}
Acting == {"lock", "break", "locked", "unlink", "unlinkNow", "write", "rename"}
Begun == {"running", "done", "crashed"}

\* The lock of a transition under way is its own and fresh.
LockOwned == \A o \in Operators : pc[o] \in UnderLock => lock = [owner |-> o, old |-> FALSE]

\* It has written only when it is about to unlock.
Unwritten == \A o \in Operators : pc[o] \in Acting => ~written[o]

\* A run works from its bind to its end.
ChildStands ==
    \A o \in Operators :
       /\ child[o] # "erring"
       /\ child[o] # "none" => pc[o] \in Begun
       /\ pc[o] = "running" => child[o] = "running"

\* What a transition found out about the claim still holds.
ClaimFound ==
    \A o \in Operators :
       /\ pc[o] \in {"write", "rename"} =>
            \/ purpose[o] = "claim" /\ claim = NoOne
            \/ purpose[o] = "bind" /\ claim # NoOne /\ claim.id = o
       /\ pc[o] \in {"unlink", "unlinkNow"} =>
            /\ claim # NoOne
            /\ \/ purpose[o] = "claim" /\ Takeable
               \/ purpose[o] = "release" /\ claim.id = o
       /\ pc[o] \in {"unlock", "unlockNow"} /\ purpose[o] = "bind" /\ written[o] => claim # NoOne /\ claim.child = o

\* A bound claim names the run of the operator who made it, which has begun or is about to.
ClaimLinked ==
    claim # NoOne /\ claim.child # NoOne =>
       /\ claim.child = claim.id
       /\ \/ pc[claim.id] \in Begun
          \/ pc[claim.id] \in {"unlock", "unlockNow"} /\ purpose[claim.id] = "bind" /\ written[claim.id]

\* A continuation that works or has completed is the one the claim names.
Answering ==
    \A o \in Operators :
       child[o] \in {"running", "completed"} /\ pc[o] # "crashed" => claim # NoOne /\ claim.child = o

HandoffStands == LockOwned /\ Unwritten /\ ChildStands /\ ClaimFound /\ ClaimLinked /\ Answering

HandoffInv == HandoffTypeOK /\ (astray = {} => HandoffStands)

LEMMA FilesAreFiles ==
  /\ \A o \in Operators, b \in BOOLEAN : [owner |-> o, old |-> b] \in LockFiles /\ [owner |-> o, old |-> b] # NoOne
  /\ \A o \in Operators, c \in Operators \cup {NoOne} : [id |-> o, child |-> c, expired |-> FALSE] # NoOne
  /\ NoOne \notin Operators
<1>1. ASSUME NEW o \in Operators, NEW b \in BOOLEAN PROVE [owner |-> o, old |-> b] \in LockFiles
  BY DEF LockFiles
<1>2. ASSUME NEW o \in Operators, NEW c \in Operators \cup {NoOne} PROVE [id |-> o, child |-> c, expired |-> FALSE] \in ClaimFiles
  BY DEF ClaimFiles
<1> QED
  BY <1>1, <1>2, HandoffAssumption

LEMMA HandoffStarts == HandoffInit => HandoffInv
BY DEF HandoffInit, HandoffInv, HandoffTypeOK, HandoffStands, LockOwned, Unwritten, ChildStands, ClaimFound,
   ClaimLinked, Answering, UnderLock

LEMMA TakeLockKeeps == ASSUME HandoffTypeOK, HandoffStands, NEW o \in Operators, TakeLock(o), astray' = {} PROVE HandoffStands'
<1> USE FilesAreFiles DEF HandoffStands
<1>1. LockOwned'
  <2>1. CASE lock = NoOne
    <3>1. /\ lock' = [owner |-> o, old |-> FALSE] /\ pc' = [pc EXCEPT ![o] = "locked"]
          /\ \A q \in Operators : pc[q] \notin UnderLock
      BY <2>1 DEF TakeLock, Goto, LockOwned
    <3> QED
      BY <3>1 DEF HandoffTypeOK, LockOwned
  <2>2. CASE lock # NoOne
    <3>1. lock' = lock /\ pc' = [pc EXCEPT ![o] = IF lock.old THEN "break" ELSE After(o, FALSE)]
      BY <2>2 DEF TakeLock, TransitionOver, Goto
    <3>2. pc'[o] \notin UnderLock /\ \A q \in Operators \ {o} : pc'[q] = pc[q]
      BY <3>1 DEF HandoffTypeOK, After, UnderLock
    <3> QED
      BY <3>1, <3>2 DEF LockOwned
  <2> QED
    BY <2>1, <2>2
<1>2. Unwritten'
  BY DEF TakeLock, Goto, TransitionOver, After, HandoffTypeOK, Unwritten, Acting
<1>3. ChildStands'
  BY DEF TakeLock, Goto, TransitionOver, After, HandoffTypeOK, ChildStands, Begun
<1>4. ClaimFound'
  BY DEF TakeLock, Goto, TransitionOver, After, HandoffTypeOK, ClaimFound, Takeable, ReadsAsFailed
<1>5. ClaimLinked'
  BY DEF TakeLock, Goto, TransitionOver, After, HandoffTypeOK, ClaimFiles, ClaimLinked, Begun
<1>6. Answering'
  BY DEF TakeLock, Goto, TransitionOver, After, HandoffTypeOK, Answering
<1> QED
  BY <1>1, <1>2, <1>3, <1>4, <1>5, <1>6

LEMMA BreakLockKeeps == ASSUME HandoffTypeOK, HandoffStands, NEW o \in Operators, BreakLock(o), astray' = {} PROVE HandoffStands'
<1> USE FilesAreFiles DEF HandoffStands
<1>1. LockOwned'
  BY DEF BreakLock, Goto, TransitionOver, After, HandoffTypeOK, LockOwned, UnderLock
<1>2. Unwritten'
  BY DEF BreakLock, Goto, TransitionOver, After, HandoffTypeOK, Unwritten, Acting
<1>3. ChildStands'
  BY DEF BreakLock, Goto, TransitionOver, After, HandoffTypeOK, ChildStands, Begun
<1>4. ClaimFound'
  BY DEF BreakLock, Goto, TransitionOver, After, HandoffTypeOK, ClaimFound, Takeable, ReadsAsFailed
<1>5. ClaimLinked'
  BY DEF BreakLock, Goto, TransitionOver, After, HandoffTypeOK, ClaimFiles, ClaimLinked, Begun
<1>6. Answering'
  BY DEF BreakLock, Goto, TransitionOver, After, HandoffTypeOK, Answering
<1> QED
  BY <1>1, <1>2, <1>3, <1>4, <1>5, <1>6

LEMMA JudgeKeeps == ASSUME HandoffTypeOK, HandoffStands, NEW o \in Operators, Judge(o), astray' = {} PROVE HandoffStands'
<1> USE FilesAreFiles DEF HandoffStands
<1>1. LockOwned'
  BY DEF Judge, Goto, LockOwned, UnderLock
<1>2. Unwritten'
  BY DEF Judge, Goto, Unwritten, Acting
<1>3. ChildStands'
  BY DEF Judge, Goto, HandoffTypeOK, ChildStands, Begun
<1>4. ClaimFound'
  BY DEF Judge, Goto, HandoffTypeOK, Unwritten, ClaimFound, Acting, Takeable, ReadsAsFailed
<1>5. ClaimLinked'
  BY DEF Judge, Goto, ClaimLinked, Begun
<1>6. Answering'
  BY DEF Judge, Goto, Answering
<1> QED
  BY <1>1, <1>2, <1>3, <1>4, <1>5, <1>6

LEMMA CheckLockKeeps == ASSUME HandoffTypeOK, HandoffStands, NEW o \in Operators, CheckLock(o), astray' = {} PROVE HandoffStands'
<1> USE FilesAreFiles DEF HandoffStands
<1>1. LockOwned'
  BY DEF CheckLock, Goto, OwnsLock, HandoffTypeOK, LockOwned, UnderLock
<1>2. Unwritten'
  BY DEF CheckLock, Goto, OwnsLock, HandoffTypeOK, Unwritten, Acting
<1>3. ChildStands'
  BY DEF CheckLock, Goto, OwnsLock, HandoffTypeOK, ChildStands, Begun
<1>4. ClaimFound'
  BY DEF CheckLock, Goto, OwnsLock, HandoffTypeOK, Unwritten, ClaimFound, Acting, Takeable, ReadsAsFailed
<1>5. ClaimLinked'
  BY DEF CheckLock, Goto, OwnsLock, HandoffTypeOK, ClaimFiles, ClaimLinked, Begun
<1>6. Answering'
  BY DEF CheckLock, Goto, OwnsLock, HandoffTypeOK, Answering
<1> QED
  BY <1>1, <1>2, <1>3, <1>4, <1>5, <1>6

LEMMA UnlinkClaimKeeps == ASSUME HandoffTypeOK, HandoffStands, NEW o \in Operators, UnlinkClaim(o), astray' = {} PROVE HandoffStands'
<1> USE FilesAreFiles DEF HandoffStands
<1>1. LockOwned'
  BY DEF UnlinkClaim, Goto, HandoffTypeOK, LockOwned, UnderLock
<1>2. Unwritten'
  BY DEF UnlinkClaim, Goto, HandoffTypeOK, Unwritten, Acting
<1>3. ChildStands'
  BY DEF UnlinkClaim, Goto, HandoffTypeOK, ChildStands, Begun
<1>4. ClaimFound'
  BY DEF UnlinkClaim, Goto, HandoffTypeOK, LockOwned, ClaimFound, UnderLock
<1>5. ClaimLinked'
  BY DEF UnlinkClaim, Goto, ClaimLinked
<1>6. Answering'
  BY DEF UnlinkClaim, Goto, HandoffTypeOK, ClaimFound, ClaimLinked, Answering, Begun, Takeable, ReadsAsFailed
<1> QED
  BY <1>1, <1>2, <1>3, <1>4, <1>5, <1>6

LEMMA RenameClaimKeeps == ASSUME HandoffTypeOK, HandoffStands, NEW o \in Operators, RenameClaim(o), astray' = {} PROVE HandoffStands'
<1> USE FilesAreFiles DEF HandoffStands
<1>1. LockOwned'
  BY DEF RenameClaim, Goto, LockOwned, UnderLock
<1>2. Unwritten'
  BY DEF RenameClaim, Goto, HandoffTypeOK, Unwritten, Acting
<1>3. ChildStands'
  BY DEF RenameClaim, Goto, ChildStands, Begun
<1>4. ClaimFound'
  BY DEF RenameClaim, Goto, HandoffTypeOK, LockOwned, ClaimFound, UnderLock
<1>5. ClaimLinked'
  BY DEF RenameClaim, Goto, HandoffTypeOK, ClaimLinked
<1>6. Answering'
  BY DEF RenameClaim, Goto, ClaimFound, ClaimLinked, Answering
<1> QED
  BY <1>1, <1>2, <1>3, <1>4, <1>5, <1>6

LEMMA CheckUnlockKeeps == ASSUME HandoffTypeOK, HandoffStands, NEW o \in Operators, CheckUnlock(o), astray' = {} PROVE HandoffStands'
<1> USE FilesAreFiles DEF HandoffStands
<1>1. LockOwned'
  BY DEF CheckUnlock, Goto, TransitionOver, After, OwnsLock, HandoffTypeOK, LockOwned, UnderLock
<1>2. Unwritten'
  BY DEF CheckUnlock, Goto, TransitionOver, After, OwnsLock, HandoffTypeOK, Unwritten, Acting
<1>3. ChildStands'
  BY DEF CheckUnlock, Goto, TransitionOver, After, OwnsLock, HandoffTypeOK, ChildStands, Begun
<1>4. ClaimFound'
  BY DEF CheckUnlock, Goto, TransitionOver, After, OwnsLock, HandoffTypeOK, LockOwned, ClaimFound, UnderLock
<1>5. ClaimLinked'
  BY DEF CheckUnlock, Goto, TransitionOver, After, OwnsLock, HandoffTypeOK, ClaimFiles, ClaimLinked, Begun
<1>6. Answering'
  BY DEF CheckUnlock, Goto, TransitionOver, After, OwnsLock, HandoffTypeOK, ClaimFound, Answering
<1> QED
  BY <1>1, <1>2, <1>3, <1>4, <1>5, <1>6

LEMMA UnlockKeeps == ASSUME HandoffTypeOK, HandoffStands, NEW o \in Operators, Unlock(o), astray' = {} PROVE HandoffStands'
<1> USE FilesAreFiles DEF HandoffStands
<1>1. LockOwned'
  BY DEF Unlock, Goto, TransitionOver, After, HandoffTypeOK, LockOwned, UnderLock
<1>2. Unwritten'
  BY DEF Unlock, Goto, TransitionOver, After, HandoffTypeOK, Unwritten, Acting
<1>3. ChildStands'
  BY DEF Unlock, Goto, TransitionOver, After, HandoffTypeOK, ChildStands, Begun
<1>4. ClaimFound'
  BY DEF Unlock, Goto, TransitionOver, After, HandoffTypeOK, LockOwned, ClaimFound, UnderLock
<1>5. ClaimLinked'
  BY DEF Unlock, Goto, TransitionOver, After, ClaimLinked, Begun
<1>6. Answering'
  BY DEF Unlock, Goto, TransitionOver, After, ClaimFound, Answering
<1> QED
  BY <1>1, <1>2, <1>3, <1>4, <1>5, <1>6

LEMMA ClaimKeeps == ASSUME HandoffTypeOK, HandoffStands, NEW o \in Operators, Claim(o), astray' = {} PROVE HandoffStands'
<1> USE FilesAreFiles DEF HandoffStands
<1>1. LockOwned'
  BY DEF Claim, Goto, Start, LockOwned, UnderLock
<1>2. Unwritten'
  BY DEF Claim, Goto, Start, HandoffTypeOK, Unwritten
<1>3. ChildStands'
  BY DEF Claim, Goto, Start, ChildStands, Begun
<1>4. ClaimFound'
  BY DEF Claim, Goto, Start, ClaimFound, Takeable, ReadsAsFailed
<1>5. ClaimLinked'
  BY DEF Claim, Goto, Start, ClaimLinked, Begun
<1>6. Answering'
  BY DEF Claim, Goto, Start, Answering
<1> QED
  BY <1>1, <1>2, <1>3, <1>4, <1>5, <1>6

LEMMA ReleaseUnboundKeeps == ASSUME HandoffTypeOK, HandoffStands, NEW o \in Operators, ReleaseUnbound(o), astray' = {} PROVE HandoffStands'
<1> USE FilesAreFiles DEF HandoffStands
<1>1. LockOwned'
  BY DEF ReleaseUnbound, Goto, Start, LockOwned, UnderLock
<1>2. Unwritten'
  BY DEF ReleaseUnbound, Goto, Start, HandoffTypeOK, Unwritten
<1>3. ChildStands'
  BY DEF ReleaseUnbound, Goto, Start, ChildStands, Begun
<1>4. ClaimFound'
  BY DEF ReleaseUnbound, Goto, Start, ClaimFound, Takeable, ReadsAsFailed
<1>5. ClaimLinked'
  BY DEF ReleaseUnbound, Goto, Start, ClaimLinked, Begun
<1>6. Answering'
  BY DEF ReleaseUnbound, Goto, Start, Answering
<1> QED
  BY <1>1, <1>2, <1>3, <1>4, <1>5, <1>6

LEMMA TakeWorkspaceKeeps == ASSUME HandoffTypeOK, HandoffStands, NEW o \in Operators, TakeWorkspace(o), astray' = {} PROVE HandoffStands'
<1> USE FilesAreFiles DEF HandoffStands
<1>1. LockOwned'
  BY DEF TakeWorkspace, Goto, LockOwned, UnderLock
<1>2. Unwritten'
  BY DEF TakeWorkspace, Goto, Unwritten, Acting
<1>3. ChildStands'
  BY DEF TakeWorkspace, Goto, ChildStands, Begun
<1>4. ClaimFound'
  BY DEF TakeWorkspace, Goto, ClaimFound, Takeable, ReadsAsFailed
<1>5. ClaimLinked'
  BY DEF TakeWorkspace, Goto, ClaimLinked, Begun
<1>6. Answering'
  BY DEF TakeWorkspace, Goto, Answering
<1> QED
  BY <1>1, <1>2, <1>3, <1>4, <1>5, <1>6

LEMMA BindKeeps == ASSUME HandoffTypeOK, HandoffStands, NEW o \in Operators, Bind(o), astray' = {} PROVE HandoffStands'
<1> USE FilesAreFiles DEF HandoffStands
<1>1. LockOwned'
  BY DEF Bind, Goto, Start, LockOwned, UnderLock
<1>2. Unwritten'
  BY DEF Bind, Goto, Start, HandoffTypeOK, Unwritten
<1>3. ChildStands'
  BY DEF Bind, Goto, Start, ChildStands, Begun
<1>4. ClaimFound'
  BY DEF Bind, Goto, Start, ClaimFound, Takeable, ReadsAsFailed
<1>5. ClaimLinked'
  BY DEF Bind, Goto, Start, ClaimLinked, Begun
<1>6. Answering'
  BY DEF Bind, Goto, Start, Answering
<1> QED
  BY <1>1, <1>2, <1>3, <1>4, <1>5, <1>6

LEMMA EndRunKeeps == ASSUME HandoffTypeOK, HandoffStands, NEW o \in Operators, EndRun(o), astray' = {} PROVE HandoffStands'
<1> USE FilesAreFiles DEF HandoffStands
<1>1. LockOwned'
  BY DEF EndRun, Goto, LockOwned, UnderLock
<1>2. Unwritten'
  BY DEF EndRun, Goto, Unwritten, Acting
<1>3. ChildStands'
  BY DEF EndRun, Goto, HandoffTypeOK, ChildStands, Begun
<1>4. ClaimFound'
  BY DEF EndRun, Goto, ChildStands, ClaimFound, Takeable, ReadsAsFailed
<1>5. ClaimLinked'
  BY DEF EndRun, Goto, ClaimLinked, Begun
<1>6. Answering'
  BY DEF EndRun, Goto, ChildStands, Answering
<1> QED
  BY <1>1, <1>2, <1>3, <1>4, <1>5, <1>6

LEMMA CrashKeeps == ASSUME HandoffTypeOK, HandoffStands, NEW o \in Operators, Crash(o), astray' = {} PROVE HandoffStands'
<1> USE FilesAreFiles DEF HandoffStands
<1>1. LockOwned'
  BY DEF Crash, Goto, LockOwned, UnderLock
<1>2. Unwritten'
  BY DEF Crash, Goto, Unwritten, Acting
<1>3. ChildStands'
  BY DEF Crash, Goto, ChildStands, Begun
<1>4. ClaimFound'
  BY DEF Crash, Goto, ClaimFound, Takeable, ReadsAsFailed
<1>5. ClaimLinked'
  BY DEF Crash, Goto, ClaimLinked, Begun
<1>6. Answering'
  BY DEF Crash, Goto, Answering
<1> QED
  BY <1>1, <1>2, <1>3, <1>4, <1>5, <1>6

\* The claim and the lock grow old: an expired claim is as takeable as before, an aged lock has no live owner.
LEMMA AgingKeeps == ASSUME HandoffTypeOK, HandoffStands, ExpireClaim \/ AgeLock PROVE HandoffStands'
<1> USE FilesAreFiles DEF HandoffStands
<1>1. CASE AgeLock
  <2>1. LockOwned'
    BY <1>1 DEF AgeLock, LockOwned, UnderLock
  <2>2. Unwritten' /\ ChildStands' /\ ClaimFound' /\ ClaimLinked' /\ Answering'
    BY <1>1 DEF AgeLock, Unwritten, ChildStands, ClaimFound, ClaimLinked, Answering, Takeable, ReadsAsFailed
  <2> QED
    BY <2>1, <2>2
<1>2. CASE ExpireClaim
  <2>1. /\ claim # NoOne /\ claim' # NoOne /\ claim'.id = claim.id /\ claim'.child = claim.child /\ claim'.expired = TRUE
        /\ UNCHANGED <<lock, pc, purpose, attempt, written, child, workspace, astray>>
    <3>1. claim \in ClaimFiles /\ claim' = [claim EXCEPT !.expired = TRUE]
      BY <1>2 DEF ExpireClaim, HandoffTypeOK
    <3>2. claim' \in ClaimFiles
      BY <3>1 DEF ClaimFiles
    <3>3. claim' # NoOne
      BY <3>2, HandoffAssumption
    <3>4. claim'.id = claim.id /\ claim'.child = claim.child /\ claim'.expired = TRUE
      BY <3>1 DEF ClaimFiles
    <3> QED
      BY <1>2, <3>3, <3>4 DEF ExpireClaim
  <2>2. LockOwned' /\ Unwritten' /\ ChildStands'
    BY <2>1 DEF LockOwned, Unwritten, ChildStands
  <2>3. ClaimFound'
    BY <2>1 DEF ClaimFound, Takeable, ReadsAsFailed
  <2>4. ClaimLinked' /\ Answering'
    BY <2>1 DEF ClaimLinked, Answering
  <2> QED
    BY <2>2, <2>3, <2>4
<1> QED
  BY <1>1, <1>2

-----------------------------------------------------------------------------
Places == InTransition \cup {"idle", "claimed", "starting", "running", "done", "crashed"}

LEMMA GotoPlaces ==
  ASSUME HandoffTypeOK, NEW o \in Operators, NEW to \in Places, Goto(o, to)
  PROVE  pc' \in [Operators -> Places]
BY DEF HandoffTypeOK, Goto, Places

LEMMA OverTypes ==
  ASSUME HandoffTypeOK, NEW o \in Operators, NEW done \in BOOLEAN, TransitionOver(o, done)
  PROVE  /\ pc' \in [Operators -> Places] /\ workspace' \in Operators \cup {NoOne}
         /\ child' \in [Operators -> {"none", "running", "erring", "completed", "failed"}]
<1>1. After(o, done) \in Places
  BY DEF HandoffTypeOK, After, Places
<1>2. pc' \in [Operators -> Places]
  BY <1>1, GotoPlaces DEF TransitionOver
<1> QED
  BY <1>2 DEF HandoffTypeOK, TransitionOver

LEMMA StartTypes ==
  ASSUME HandoffTypeOK, NEW o \in Operators, NEW why \in {"claim", "bind", "release"}, Start(o, why),
         UNCHANGED <<lock, claim, child, workspace, astray>>
  PROVE  HandoffTypeOK'
<1>1. pc' \in [Operators -> Places]
  BY GotoPlaces DEF Start, Places, InTransition
<1>2. attempt' \in [Operators -> 0..2]
  BY DEF Start, HandoffTypeOK
<1>3. written' \in [Operators -> BOOLEAN]
  BY DEF Start, HandoffTypeOK
<1> QED
  BY <1>1, <1>2, <1>3 DEF Start, HandoffTypeOK, Places

LEMMA StepTypes ==
  ASSUME HandoffTypeOK, NEW o \in Operators,
         \/ TransitionStep(o) \/ Claim(o) \/ ReleaseUnbound(o) \/ TakeWorkspace(o) \/ Bind(o)
         \/ JournalError(o) \/ EndRun(o) \/ Crash(o)
  PROVE  HandoffTypeOK'
<1> USE FilesAreFiles
<1>p. /\ \A to \in Places : Goto(o, to) => pc' \in [Operators -> Places]
      /\ pc \in [Operators -> Places] /\ InTransition \subseteq Places
      /\ {"idle", "claimed", "starting", "running", "done", "crashed"} \subseteq Places
  BY GotoPlaces DEF HandoffTypeOK, Places
<1>o. /\ written[o] \in BOOLEAN
      /\ \A done \in BOOLEAN : TransitionOver(o, done) => /\ pc' \in [Operators -> Places] /\ workspace' \in Operators \cup {NoOne}
                                         /\ child' \in [Operators -> {"none", "running", "erring", "completed", "failed"}]
  BY OverTypes DEF HandoffTypeOK
<1>1. CASE TakeLock(o)
  <2>1. pc' \in [Operators -> Places]
    BY <1>1, <1>p, <1>o DEF TakeLock, InTransition
  <2> QED
    BY <1>1, <1>o, <2>1 DEF TakeLock, HandoffTypeOK, Places, LockFiles, ClaimFiles
<1>2. CASE BreakLock(o)
  <2>1. pc' \in [Operators -> Places]
    BY <1>2, <1>p, <1>o DEF BreakLock, InTransition
  <2> QED
    <3>1. /\ child' \in [Operators -> {"none", "running", "erring", "completed", "failed"}]
          /\ workspace' \in Operators \cup {NoOne}
      BY <1>2, <1>o DEF BreakLock, HandoffTypeOK
    <3>2. attempt' \in [Operators -> 0..2]
      <4>1. attempt' = attempt \/ attempt' = [attempt EXCEPT ![o] = 2]
        BY <1>2 DEF BreakLock
      <4> QED
        BY <4>1 DEF HandoffTypeOK
    <3>3. lock' = NoOne /\ astray' \subseteq {"lock", "error"} /\ UNCHANGED <<claim, purpose, written>>
      BY <1>2 DEF BreakLock, HandoffTypeOK
    <3> QED
      BY <2>1, <3>1, <3>2, <3>3 DEF HandoffTypeOK, Places
<1>3. CASE Judge(o)
  <2>1. pc' \in [Operators -> Places]
    <3>1. \E to \in {"write", "unlink", "unlock"} : Goto(o, to)
      BY <1>3 DEF Judge, HandoffTypeOK
    <3> QED
      BY <3>1, <1>p DEF InTransition
  <2> QED
    BY <1>3, <1>o, <2>1 DEF Judge, HandoffTypeOK, Places, LockFiles, ClaimFiles
<1>4. CASE CheckLock(o)
  <2>1. pc' \in [Operators -> Places]
    BY <1>4, <1>p, <1>o DEF CheckLock, OwnsLock, InTransition
  <2> QED
    BY <1>4, <1>o, <2>1 DEF CheckLock, OwnsLock, HandoffTypeOK, Places
<1>5. CASE UnlinkClaim(o)
  <2>1. pc' \in [Operators -> Places]
    BY <1>5, <1>p, <1>o DEF UnlinkClaim, InTransition
  <2> QED
    BY <1>5, <1>o, <2>1 DEF UnlinkClaim, HandoffTypeOK, Places, LockFiles, ClaimFiles
<1>6. CASE RenameClaim(o)
  <2>1. pc' \in [Operators -> Places]
    BY <1>6, <1>p, <1>o DEF RenameClaim, InTransition
  <2> QED
    BY <1>6, <1>o, <2>1 DEF RenameClaim, HandoffTypeOK, Places, LockFiles, ClaimFiles
<1>7. CASE CheckUnlock(o)
  <2>1. pc' \in [Operators -> Places]
    BY <1>7, <1>p, <1>o DEF CheckUnlock, OwnsLock, InTransition
  <2> QED
    BY <1>7, <1>o, <2>1 DEF CheckUnlock, OwnsLock, HandoffTypeOK, Places
<1>8. CASE Unlock(o)
  <2>1. pc' \in [Operators -> Places]
    BY <1>8, <1>p, <1>o DEF Unlock
  <2> QED
    BY <1>8, <1>o, <2>1 DEF Unlock, HandoffTypeOK, Places, LockFiles, ClaimFiles
<1>9. CASE Claim(o)
  BY <1>9, StartTypes DEF Claim
<1>10. CASE ReleaseUnbound(o)
  BY <1>10, StartTypes DEF ReleaseUnbound
<1>11. CASE TakeWorkspace(o)
  <2>1. pc' \in [Operators -> Places]
    BY <1>11, <1>p, <1>o DEF TakeWorkspace
  <2> QED
    BY <1>11, <1>o, <2>1 DEF TakeWorkspace, HandoffTypeOK, Places, LockFiles, ClaimFiles
<1>12. CASE Bind(o)
  BY <1>12, StartTypes DEF Bind
<1>13. CASE JournalError(o)
  <2>1. pc' \in [Operators -> Places]
    BY <1>13, <1>p, <1>o DEF JournalError
  <2> QED
    BY <1>13, <1>o, <2>1 DEF JournalError, HandoffTypeOK, Places, LockFiles, ClaimFiles
<1>14. CASE EndRun(o)
  <2>1. pc' \in [Operators -> Places]
    BY <1>14, <1>p, <1>o DEF EndRun
  <2> QED
    <3>1. PICK how \in {"completed", "failed"} : child' = [child EXCEPT ![o] = how]
      BY <1>14 DEF EndRun
    <3> QED
      BY <1>14, <2>1, <3>1 DEF EndRun, HandoffTypeOK, Places
<1>15. CASE Crash(o)
  <2>1. pc' \in [Operators -> Places]
    BY <1>15, <1>p, <1>o DEF Crash
  <2> QED
    BY <1>15, <1>o, <2>1 DEF Crash, HandoffTypeOK, Places, LockFiles, ClaimFiles
<1> QED
  BY <1>1, <1>2, <1>3, <1>4, <1>5, <1>6, <1>7, <1>8, <1>9, <1>10, <1>11, <1>12, <1>13, <1>14, <1>15 DEF TransitionStep

LEMMA AgingTypes == ASSUME HandoffTypeOK, ExpireClaim \/ AgeLock PROVE HandoffTypeOK'
<1>1. ExpireClaim => claim' \in ClaimFiles
  BY DEF ExpireClaim, HandoffTypeOK, ClaimFiles
<1>2. AgeLock => lock' \in LockFiles
  BY DEF AgeLock, HandoffTypeOK, LockFiles
<1> QED
  BY <1>1, <1>2 DEF ExpireClaim, AgeLock, HandoffTypeOK

-----------------------------------------------------------------------------
\* A step that leaves nobody astray started from a state where nobody was.
LEMMA AstrayStays == HandoffNext => (astray' = {} => astray = {} /\ ~\E o \in Operators : JournalError(o))
BY DEF HandoffNext, TransitionStep, TakeLock, BreakLock, Judge, CheckLock, UnlinkClaim, RenameClaim, CheckUnlock,
   Unlock, Claim, ReleaseUnbound, TakeWorkspace, Bind, JournalError, EndRun, Crash, ExpireClaim, AgeLock

LEMMA HandoffNextKeeps == HandoffInv /\ [HandoffNext]_handoffVars => HandoffInv'
<1> SUFFICES ASSUME HandoffInv, [HandoffNext]_handoffVars PROVE HandoffInv'
  OBVIOUS
<1>1. CASE UNCHANGED handoffVars
  <2>1. HandoffTypeOK'
    BY <1>1 DEF handoffVars, HandoffInv, HandoffTypeOK
  <2>2. astray = {} => LockOwned' /\ Unwritten' /\ ChildStands' /\ Answering'
    BY <1>1 DEF handoffVars, HandoffInv, HandoffStands, LockOwned, Unwritten, ChildStands, Answering
  <2>3. astray = {} => ClaimFound' /\ ClaimLinked'
    BY <1>1 DEF handoffVars, HandoffInv, HandoffStands, ClaimFound, ClaimLinked, Takeable, ReadsAsFailed
  <2> QED
    BY <1>1, <2>1, <2>2, <2>3 DEF handoffVars, HandoffInv, HandoffStands
<1>2. CASE HandoffNext
  <2>1. HandoffTypeOK'
    BY <1>2, StepTypes, AgingTypes DEF HandoffNext, HandoffInv
  <2>2. ASSUME astray' = {} PROVE HandoffStands'
    <3>1. HandoffTypeOK /\ HandoffStands /\ ~\E o \in Operators : JournalError(o)
      BY <1>2, <2>2, AstrayStays DEF HandoffInv
    <3>2. ASSUME NEW o \in Operators, TransitionStep(o) PROVE HandoffStands'
      BY <2>2, <3>1, <3>2, TakeLockKeeps, BreakLockKeeps, JudgeKeeps, CheckLockKeeps, UnlinkClaimKeeps, RenameClaimKeeps,
         CheckUnlockKeeps, UnlockKeeps DEF TransitionStep
    <3>3. ASSUME NEW o \in Operators, Claim(o) \/ ReleaseUnbound(o) \/ TakeWorkspace(o) \/ Bind(o) \/ EndRun(o) \/ Crash(o)
          PROVE  HandoffStands'
      BY <2>2, <3>1, <3>3, ClaimKeeps, ReleaseUnboundKeeps, TakeWorkspaceKeeps, BindKeeps, EndRunKeeps, CrashKeeps
    <3> QED
      BY <1>2, <3>1, <3>2, <3>3, AgingKeeps DEF HandoffNext
  <2> QED
    BY <2>1, <2>2 DEF HandoffInv
<1> QED
  BY <1>1, <1>2

LEMMA HandoffInvariant == HandoffSpec => []HandoffInv
BY HandoffStarts, HandoffNextKeeps, PTL DEF HandoffSpec

\* The variables keep their types; no transition tries the lock more than twice.
THEOREM HandoffTypeCorrect == HandoffSpec => []HandoffTypeOK
<1>1. HandoffInv => HandoffTypeOK
  BY DEF HandoffInv
<1> QED
  BY <1>1, HandoffInvariant, PTL

(* The answer is given once (claimWorkflowOperatorHandoff and the bind):    *)
(* unless a fresh lock was broken or an error survived, at most one         *)
(* continuation works or has completed, and the claim is its.              *)
THEOREM AnswerIsGivenOnce == HandoffSpec => []AnsweredOnce
<1>1. HandoffInv => AnsweredOnce
  BY DEF HandoffInv, HandoffStands, ChildStands, Answering, AnsweredOnce, LiveRunKeepsClaim
<1> QED
  BY <1>1, HandoffInvariant, PTL
==============================================================================
