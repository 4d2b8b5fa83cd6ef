------------------------ MODULE ExecutionScheduler ------------------------
(***************************************************************************)
(* FIFO permits with one owner and cancellable queue admission             *)
(* (extensions/_shared/runtime/execution-scheduler.ts).                    *)
(*                                                                         *)
(* A client has at most one acquire() or one permit outstanding.  The      *)
(* waiters array is kept as the set `waiting` and, for each waiter, the     *)
(* set `ahead` of the waiters in front of it: an aborted waiter is spliced  *)
(* out of the middle, which is a set difference here.                      *)
(***************************************************************************)
EXTENDS Integers, FiniteSets

CONSTANTS Clients,      \* who may ask for a permit
          Concurrency   \* how many permits exist

ASSUME SchedulerAssumption ==
    /\ IsFiniteSet(Clients)
    /\ Concurrency \in Nat \ {0}

VARIABLES waiting,   \* the clients in the waiters array
          ahead,     \* for a waiter, the waiters in front of it
          permit,    \* what each client holds
          inUse,     \* the counter of held permits
          active,    \* the counter of activated permits
          peak       \* the largest value active ever had

schedulerVars == <<waiting, ahead, permit, inUse, active, peak>>

PermitStates == {"none", "held", "executing"}

Holders == {c \in Clients : permit[c] # "none"}
Executing == {c \in Clients : permit[c] = "executing"}

SchedulerTypeOK ==
    /\ waiting \subseteq Clients
    /\ ahead \in [Clients -> SUBSET waiting]
    /\ permit \in [Clients -> PermitStates]
    /\ inUse \in 0..Concurrency
    /\ active \in 0..Concurrency
    /\ peak \in 0..Concurrency

SchedulerInit ==
    /\ waiting = {}
    /\ ahead = [c \in Clients |-> {}]
    /\ permit = [c \in Clients |-> "none"]
    /\ inUse = 0
    /\ active = 0
    /\ peak = 0

-----------------------------------------------------------------------------
(* Mutant: dispatch() keeps one permit back.                               *)
AdmittedOneTooFew(queue, order, free) ==
    IF free < 2 THEN {} ELSE {c \in queue : order[c] = {}}

(* dispatch() admits the first waiter while a permit is free.  WorkConserving*)
(* shows that one round is enough: nobody waits while a permit is free, so  *)
(* a call frees at most one permit for the queue or brings one waiter.     *)
Admitted(queue, order, free) ==
    IF free < 1 THEN {} ELSE {c \in queue : order[c] = {}}

\* push() puts the new waiter behind all the others, splice() closes the gaps.
Order(queue, entered, dropped) ==
    [c \in Clients |-> IF c \notin queue THEN {}
                      ELSE (IF c \in entered THEN waiting ELSE ahead[c]) \ dropped]

(* What every call of the scheduler comes down to: permits are released,    *)
(* a waiter is pushed at the back, aborted waiters are spliced out, and     *)
(* dispatch() runs.                                                        *)
Reschedule(released, entered, dropped) ==
    LET queue == (waiting \cup entered) \ dropped
        order == Order(queue, entered, dropped)
        in == Admitted(queue, order, Concurrency - inUse + Cardinality(released))
    IN  /\ waiting' = queue \ in
        /\ ahead' = [c \in Clients |-> IF c \in in THEN {} ELSE order[c] \ in]
        /\ permit' = [c \in Clients |-> IF c \in in THEN "held"
                                        ELSE IF c \in released THEN "none" ELSE permit[c]]
        /\ inUse' = inUse - Cardinality(released) + Cardinality(in)
        /\ active' = active - Cardinality(released \cap Executing)
        /\ UNCHANGED peak

Idle(c) == permit[c] = "none" /\ c \notin waiting

(* acquire(): the caller joins the queue, and dispatch() may admit it.      *)
Acquire(c) == Idle(c) /\ Reschedule({}, {c}, {})

(* release() of a held permit; a failing owner first aborts the queued      *)
(* siblings `dropped`, so none of them is handed the permit it frees.       *)
Release(c, dropped) ==
    /\ c \in Holders
    /\ Reschedule({c}, {}, dropped)

(* The abort listeners of the waiters whose signal fired.                  *)
AbortWaiters(dropped) ==
    /\ dropped # {}
    /\ Reschedule({}, {}, dropped)

(* activate(): the permit's work starts; a second call changes nothing.     *)
Activate(c) ==
    /\ permit[c] = "held"
    /\ permit' = [permit EXCEPT ![c] = "executing"]
    /\ active' = active + 1
    /\ peak' = IF active + 1 > peak THEN active + 1 ELSE peak
    /\ UNCHANGED <<waiting, ahead, inUse>>

-----------------------------------------------------------------------------
SchedulerNext ==
    \/ \E c \in Clients : Acquire(c)
    \/ \E c \in Clients, dropped \in SUBSET waiting : Release(c, dropped)
    \/ \E dropped \in SUBSET waiting : AbortWaiters(dropped)
    \/ \E c \in Clients : Activate(c)

SchedulerSpec == SchedulerInit /\ [][SchedulerNext]_schedulerVars

-----------------------------------------------------------------------------
(* The counters count the permits that clients really hold, and never more  *)
(* than Concurrency of them: a lost or doubled release would show here.     *)
PermitLedger ==
    /\ inUse = Cardinality(Holders)
    /\ active = Cardinality(Executing)
    /\ inUse <= Concurrency

(* The array is a queue: the waiters are linearly ordered, and nobody waits *)
(* for a permit while holding one.                                         *)
QueueOrdered ==
    /\ \A c \in waiting : permit[c] = "none" /\ c \notin ahead[c]
    /\ \A c, d \in waiting : c # d => (c \in ahead[d]) # (d \in ahead[c])
    /\ \A c, d \in waiting : c \in ahead[d] => ahead[c] \subseteq ahead[d]

(* No permit is left unused while somebody waits.                          *)
WorkConserving == waiting # {} => inUse = Concurrency

(* Admission is first come, first served: whoever is admitted from the      *)
(* queue had only aborted waiters in front of it.                          *)
NoOvertaking ==
    [][\A c \in waiting : permit'[c] = "held" => ahead[c] \cap waiting' = {}]_schedulerVars
=============================================================================
