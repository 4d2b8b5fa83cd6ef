----------------------- MODULE ExecutionState_proofs -----------------------
(***************************************************************************)

(* Proofs about the execution of invocations, in four chapters: the launch  *)
(* ledger, the permit queue, the execution owner that drives both, and its  *)
(* refinement of AgentLaunches.                                            *)
(***************************************************************************)
EXTENDS ExecutionState, FiniteSetTheorems, WellFoundedInduction, TLAPS

-----------------------------------------------------------------------------
(***************************************************************************)

(* Proofs about the launch ledger.  The inductive invariant is BudgetInv:   *)
(* subtracting a record's remaining slots from the shared counter stays in  *)
(* Nat only because the counter is the number of held slots, the cap holds  *)
(* after a reserved charge only because the slot leaves `reserved`, and a   *)
(* new reservation adds up only because nothing held its record before.    *)
(***************************************************************************)

(* Only a reservation that was handed out is active.                       *)
ActiveWasMade == \A r \in Reservations : record[r].active => record[r].made

BudgetInv == BudgetTypeOK /\ ReservationsAddUp /\ LaunchCap /\ ActiveWasMade

SlotsOf(records) == {s \in Reservations \X (1..MaxCount) : s[2] <= records[s[1]].remaining}

(* The slots of one reservation: as many as it has left.                   *)
LEMMA OwnSlots ==
  ASSUME NEW r, NEW n \in 0..MaxCount
  PROVE  /\ IsFiniteSet({r} \X (1..n))
         /\ Cardinality({r} \X (1..n)) = n
<1>1. n \in Nat /\ n \in Int /\ 1 \in Int
  BY BudgetAssumption
<1>2. IsFiniteSet(1..n) /\ Cardinality(1..n) = n
  BY <1>1, FS_Interval
<1>3. IsFiniteSet({r}) /\ Cardinality({r}) = 1
  BY FS_Singleton
<1>4. /\ IsFiniteSet({r} \X (1..n))
      /\ Cardinality({r} \X (1..n)) = Cardinality({r}) * Cardinality(1..n)
  BY <1>2, <1>3, FS_Product
<1> QED
  BY <1>1, <1>2, <1>3, <1>4

LEMMA SlotsFinite ==
  ASSUME NEW records \in [Reservations -> RecordType]
  PROVE  IsFiniteSet(SlotsOf(records)) /\ Cardinality(SlotsOf(records)) \in Nat
<1>1. IsFiniteSet(1..MaxCount)
  BY BudgetAssumption, FS_Interval
<1>2. IsFiniteSet(Reservations \X (1..MaxCount))
  BY <1>1, BudgetAssumption, FS_Product
<1>3. SlotsOf(records) \in SUBSET (Reservations \X (1..MaxCount))
  BY DEF SlotsOf
<1> QED
  BY <1>2, <1>3, FS_Subset, FS_CardinalityType

(* Changing one record moves the number of held slots by the difference.    *)
LEMMA SlotsChange ==
  ASSUME NEW records \in [Reservations -> RecordType],
         NEW r \in Reservations, NEW x \in RecordType
  PROVE  LET changed == [records EXCEPT ![r] = x]
         IN  /\ Cardinality(SlotsOf(changed)) =
                  Cardinality(SlotsOf(records)) - records[r].remaining + x.remaining
             /\ records[r].remaining <= Cardinality(SlotsOf(records))
<1> DEFINE changed == [records EXCEPT ![r] = x]
           Others == {s \in SlotsOf(records) : s[1] # r}
           Mine(n) == {r} \X (1..n)
<1>1. /\ records[r].remaining \in 0..MaxCount /\ x.remaining \in 0..MaxCount
      /\ records[r].remaining \in Nat /\ x.remaining \in Nat /\ MaxCount \in Nat
  BY BudgetAssumption DEF RecordType
<1>2. IsFiniteSet(Others) /\ Cardinality(Others) \in Nat
  BY SlotsFinite, FS_Subset, FS_CardinalityType
<1>3. SlotsOf(records) = Others \cup Mine(records[r].remaining)
  BY <1>1 DEF SlotsOf
<1>4. SlotsOf(changed) = Others \cup Mine(x.remaining)
  BY <1>1 DEF SlotsOf
<1>5. ASSUME NEW n \in 0..MaxCount
      PROVE  Cardinality(Others \cup Mine(n)) = Cardinality(Others) + n
  <2>1. IsFiniteSet(Mine(n)) /\ Cardinality(Mine(n)) = n
    BY OwnSlots
  <2>2. Others \cap Mine(n) = {}
    OBVIOUS
  <2>3. Cardinality(Others \cup Mine(n)) =
          Cardinality(Others) + Cardinality(Mine(n)) - Cardinality(Others \cap Mine(n))
    BY <1>2, <2>1, FS_Union
  <2>4. n \in Nat
    BY BudgetAssumption
  <2>5. Cardinality(Others \cap Mine(n)) = 0
    BY <2>2, FS_EmptySet
  <2> HIDE DEF Others, Mine
  <2> QED
    BY <1>2, <2>1, <2>3, <2>4, <2>5
<1>6. /\ Cardinality(SlotsOf(records)) = Cardinality(Others) + records[r].remaining
      /\ Cardinality(SlotsOf(changed)) = Cardinality(Others) + x.remaining
  BY <1>1, <1>3, <1>4, <1>5
<1> HIDE DEF Others
<1> QED
  BY <1>1, <1>2, <1>6

-----------------------------------------------------------------------------
LEMMA InitBudgetInv ==
  BudgetInit => BudgetInv
<1> SUFFICES ASSUME BudgetInit PROVE BudgetInv
  OBVIOUS
<1>1. BudgetTypeOK
  BY BudgetAssumption DEF BudgetInit, BudgetTypeOK, RecordType
<1>2. HeldSlots = {}
  BY BudgetAssumption DEF BudgetInit, HeldSlots
<1>3. ReservationsAddUp
  BY <1>2, FS_EmptySet DEF BudgetInit, ReservationsAddUp
<1>4. LaunchCap
  BY BudgetAssumption DEF BudgetInit, LaunchCap, Capped
<1>5. ActiveWasMade
  BY DEF BudgetInit, ActiveWasMade
<1> QED
  BY <1>1, <1>3, <1>4, <1>5 DEF BudgetInv

(* What every change of a record has in common.                            *)
LEMMA RecordChange ==
  ASSUME BudgetInv, NEW r \in Reservations, NEW x \in RecordType,
         x.active => x.made, x.remaining > 0 => x.active,
         record' = [record EXCEPT ![r] = x],
         reserved' = reserved - record[r].remaining + x.remaining,
         sequence' \in 0..MaxSequence, charged' \in Nat, replayed' \in Nat,
         Capped => charged' + reserved' <= TotalAgents
  PROVE  BudgetInv'
<1>1. /\ record \in [Reservations -> RecordType] /\ reserved \in Nat
      /\ reserved = Cardinality(SlotsOf(record))
  BY DEF BudgetInv, BudgetTypeOK, ReservationsAddUp, HeldSlots, SlotsOf
<1>2. /\ Cardinality(SlotsOf(record')) = Cardinality(SlotsOf(record)) - record[r].remaining + x.remaining
      /\ record[r].remaining <= Cardinality(SlotsOf(record))
  BY <1>1, SlotsChange
<1>3. record[r].remaining \in Nat /\ x.remaining \in Nat
  BY <1>1, BudgetAssumption DEF RecordType
<1>4. record' \in [Reservations -> RecordType] /\ reserved' \in Nat
  BY <1>1, <1>2, <1>3
<1>5. reserved' = Cardinality(HeldSlots)'
  BY <1>1, <1>2, <1>3 DEF HeldSlots, SlotsOf
<1>6. \A q \in Reservations : record'[q].remaining > 0 => record'[q].active
  BY <1>1 DEF BudgetInv, ReservationsAddUp
<1>7. \A q \in Reservations : record'[q].active => record'[q].made
  BY <1>1 DEF BudgetInv, ActiveWasMade
<1> QED
  BY <1>4, <1>5, <1>6, <1>7 DEF BudgetInv, BudgetTypeOK, ReservationsAddUp, LaunchCap, ActiveWasMade, Capped

LEMMA CountersChange ==
  ASSUME BudgetInv, UNCHANGED <<record, reserved>>,
         sequence' \in 0..MaxSequence, charged' \in Nat, replayed' \in Nat,
         Capped => charged' + reserved' <= TotalAgents
  PROVE  BudgetInv'
BY DEF BudgetInv, BudgetTypeOK, ReservationsAddUp, HeldSlots, LaunchCap, ActiveWasMade, Capped

LEMMA ReserveInv ==
  ASSUME BudgetInv, NEW r \in Reservations, NEW count \in 1..MaxCount, Reserve(r, count)
  PROVE  BudgetInv'
<1> DEFINE x == [made |-> TRUE, active |-> TRUE, remaining |-> count]
<1>1. /\ record \in [Reservations -> RecordType] /\ reserved \in Nat /\ charged \in Nat
      /\ count \in Nat /\ TotalAgents \in Nat
  BY BudgetAssumption DEF BudgetInv, BudgetTypeOK
<1>2. x \in RecordType
  BY BudgetAssumption DEF RecordType
<1>3. record[r].remaining = 0
  BY <1>1, BudgetAssumption DEF BudgetInv, ReservationsAddUp, ActiveWasMade, Reserve, RecordType
<1>4. Capped => charged' + reserved' <= TotalAgents
  BY <1>1 DEF Reserve, Fits
<1>5. reserved' = reserved - record[r].remaining + x.remaining
  BY <1>1, <1>3 DEF Reserve
<1>6. x.active = TRUE /\ x.made = TRUE /\ record' = [record EXCEPT ![r] = x]
  BY DEF Reserve
<1>7. sequence' \in 0..MaxSequence /\ charged' \in Nat /\ replayed' \in Nat
  BY DEF Reserve, BudgetInv, BudgetTypeOK
<1> HIDE DEF x
<1> QED
  BY <1>2, <1>4, <1>5, <1>6, <1>7, RecordChange

LEMMA ReleaseReservationInv ==
  ASSUME BudgetInv, NEW r \in Reservations, ReleaseReservation(r)
  PROVE  BudgetInv'
<1> DEFINE x == [made |-> record[r].made, active |-> FALSE, remaining |-> 0]
<1>1. /\ record \in [Reservations -> RecordType] /\ reserved \in Nat /\ charged \in Nat
      /\ record[r].remaining \in Nat /\ record[r].made \in BOOLEAN /\ TotalAgents \in Nat
  BY BudgetAssumption DEF BudgetInv, BudgetTypeOK, RecordType
<1>2. x \in RecordType
  BY <1>1, BudgetAssumption DEF RecordType
<1>3. record' = [record EXCEPT ![r] = x]
  BY <1>1 DEF ReleaseReservation, RecordType
<1>4. Capped => charged' + reserved' <= TotalAgents
  BY <1>1 DEF ReleaseReservation, BudgetInv, LaunchCap
<1>5. reserved' = reserved - record[r].remaining + x.remaining
  BY <1>1 DEF ReleaseReservation
<1>6. (x.active => x.made) /\ (x.remaining > 0 => x.active)
  OBVIOUS
<1>7. sequence' \in 0..MaxSequence /\ charged' \in Nat /\ replayed' \in Nat
  BY DEF ReleaseReservation, BudgetInv, BudgetTypeOK
<1> HIDE DEF x
<1> QED
  BY <1>2, <1>3, <1>4, <1>5, <1>6, <1>7, RecordChange

(* A slot that is consumed leaves the record and the shared counter.        *)
LEMMA ConsumeInv ==
  ASSUME BudgetInv, NEW r \in Reservations, Consumable(r), Consume(r),
         sequence' \in 0..MaxSequence, charged' \in {charged, charged + 1}, replayed' \in Nat
  PROVE  BudgetInv'
<1> DEFINE x == [record[r] EXCEPT !.remaining = @ - 1]
<1>1. /\ record \in [Reservations -> RecordType] /\ reserved \in Nat /\ charged \in Nat
      /\ record[r].remaining \in 1..MaxCount /\ TotalAgents \in Nat /\ MaxCount \in Nat
  BY BudgetAssumption DEF BudgetInv, BudgetTypeOK, RecordType, Consumable
<1>2. /\ x \in RecordType /\ x.remaining = record[r].remaining - 1
      /\ x.active = record[r].active /\ x.made = record[r].made
  BY <1>1 DEF RecordType
<1>3. record' = [record EXCEPT ![r] = x]
  BY <1>1 DEF Consume, RecordType
<1>4. Capped => charged' + reserved' <= TotalAgents
  BY <1>1 DEF Consume, BudgetInv, LaunchCap
<1>5. reserved' = reserved - record[r].remaining + x.remaining
  BY <1>1, <1>2 DEF Consume
<1>6. x.active => x.made
  BY <1>2 DEF BudgetInv, ActiveWasMade
<1>7. x.active
  BY <1>2 DEF Consumable
<1>8. charged' \in Nat
  BY <1>1
<1> HIDE DEF x
<1> QED
  BY <1>2, <1>3, <1>4, <1>5, <1>6, <1>7, <1>8, RecordChange

LEMMA AllocateFreshInv ==
  ASSUME BudgetInv, AllocateFresh PROVE BudgetInv'
BY CountersChange, BudgetAssumption DEF AllocateFresh, BudgetInv, BudgetTypeOK, LaunchCap

LEMMA AllocateReplayedInv ==
  ASSUME BudgetInv, NEW r \in Reservations \cup {NoReservation}, AllocateReplayed(r)
  PROVE  BudgetInv'
<1>1. sequence' \in 0..MaxSequence /\ charged' = charged /\ charged \in Nat /\ replayed' \in Nat
  BY BudgetAssumption DEF AllocateReplayed, BudgetInv, BudgetTypeOK
<1>2. CASE r = NoReservation
  BY <1>1, <1>2, CountersChange DEF AllocateReplayed, BudgetInv, LaunchCap
<1>3. CASE r # NoReservation
  BY <1>1, <1>3, ConsumeInv DEF AllocateReplayed
<1> QED
  BY <1>2, <1>3

LEMMA ChargeInv ==
  ASSUME BudgetInv, NEW r \in Reservations \cup {NoReservation}, Charge(r)
  PROVE  BudgetInv'
<1>1. /\ sequence' \in 0..MaxSequence /\ charged' = charged + 1 /\ charged \in Nat
      /\ replayed' \in Nat /\ reserved \in Nat /\ TotalAgents \in Nat
  BY BudgetAssumption DEF Charge, BudgetInv, BudgetTypeOK
<1>2. CASE r = NoReservation
  <2>1. Capped => charged' + reserved' <= TotalAgents
    BY <1>1, <1>2 DEF Charge, Chargeable
  <2> QED
    BY <1>1, <1>2, <2>1, CountersChange DEF Charge
<1>3. CASE r # NoReservation
  BY <1>1, <1>3, ConsumeInv DEF Charge, Chargeable
<1> QED
  BY <1>2, <1>3

LEMMA NextBudgetInv ==
  BudgetInv /\ [BudgetNext]_budgetVars => BudgetInv'
<1> SUFFICES ASSUME BudgetInv, [BudgetNext]_budgetVars PROVE BudgetInv'
  OBVIOUS
<1>1. ASSUME NEW r \in Reservations, NEW count \in 1..MaxCount, Reserve(r, count) PROVE BudgetInv'
  BY <1>1, ReserveInv
<1>2. ASSUME NEW r \in Reservations, ReleaseReservation(r) PROVE BudgetInv'
  BY <1>2, ReleaseReservationInv
<1>3. CASE AllocateFresh
  BY <1>3, AllocateFreshInv
<1>4. ASSUME NEW r \in Reservations \cup {NoReservation}, AllocateReplayed(r) PROVE BudgetInv'
  BY <1>4, AllocateReplayedInv
<1>5. ASSUME NEW r \in Reservations \cup {NoReservation}, ChargeAllocated(r) PROVE BudgetInv'
  BY <1>5, ChargeInv DEF ChargeAllocated
<1>6. CASE UNCHANGED budgetVars
  BY <1>6, CountersChange DEF budgetVars, BudgetInv, BudgetTypeOK, LaunchCap
<1> QED
  BY <1>1, <1>2, <1>3, <1>4, <1>5, <1>6 DEF BudgetNext

(* Whatever the cap and the reservations, the counters of the ledger stay   *)
(* what they count (execution-budget.ts:44-82): no drift, no overdraft.     *)
THEOREM BudgetCorrect == BudgetSpec => [](BudgetTypeOK /\ ReservationsAddUp /\ LaunchCap)
<1>1. BudgetInv => BudgetTypeOK /\ ReservationsAddUp /\ LaunchCap
  BY DEF BudgetInv
<1> QED
  BY <1>1, InitBudgetInv, NextBudgetInv, PTL DEF BudgetSpec

-----------------------------------------------------------------------------
(***************************************************************************)

(* Proofs about the permit queue.  The inductive invariant SchedulerInv is  *)
(* the conjunction of the checked invariants: the ledger needs the queue    *)
(* order (only one waiter is first, so one dispatch admits at most one),    *)
(* and WorkConserving needs both (a freed permit finds a first waiter).    *)
(***************************************************************************)

SchedulerInv == SchedulerTypeOK /\ PermitLedger /\ QueueOrdered /\ WorkConserving

(* A set with at most one element has at most one element.                 *)
LEMMA AtMostOne ==
  ASSUME NEW S, \A x, y \in S : x = y
  PROVE  /\ IsFiniteSet(S)
         /\ Cardinality(S) = IF S = {} THEN 0 ELSE 1
<1>1. CASE S = {}
  BY <1>1, FS_EmptySet
<1>2. CASE S # {}
  <2>1. PICK x \in S : S = {x}
    BY <1>2
  <2> QED
    BY <1>2, <2>1, FS_Singleton
<1> QED
  BY <1>1, <1>2

(* A finite queue that is not empty has a first element.                   *)
LEMMA FirstExists ==
  ASSUME NEW Q, IsFiniteSet(Q), Q # {}, NEW order,
         \A c \in Q : order[c] \subseteq Q /\ c \notin order[c],
         \A c, d \in Q : c \in order[d] => order[c] \subseteq order[d]
  PROVE  \E c \in Q : order[c] = {}
<1> DEFINE T == {order[c] : c \in Q}
<1>1. IsWellFoundedOn(StrictSubsetOrdering(Q), SUBSET Q)
  <2>1. FiniteSubsetsOf(Q) = SUBSET Q
    BY FS_FiniteSubsetsOfFinite
  <2>2. IsWellFoundedOn(StrictSubsetOrdering(Q), FiniteSubsetsOf(Q))
    BY FS_StrictSubsetOrderingWellFounded
  <2> QED
    BY <2>1, <2>2
<1>2. T \subseteq SUBSET Q /\ T # {}
  OBVIOUS
<1>3. PICK x \in T : \A y \in T : ~ (<<y, x>> \in StrictSubsetOrdering(Q))
  BY <1>1, <1>2, WFMin
<1>4. PICK c \in Q : x = order[c]
  BY <1>3
<1>5. ASSUME NEW d \in order[c] PROVE FALSE
  <2>1. d \in Q /\ order[d] \subseteq order[c] /\ d \notin order[d]
    BY <1>5
  <2>2. order[d] \in T /\ order[d] # x /\ order[d] \subseteq x /\ order[d] \subseteq Q /\ x \subseteq Q
    BY <1>4, <1>5, <2>1
  <2> HIDE DEF T
  <2>3. <<order[d], x>> \in StrictSubsetOrdering(Q)
    BY <2>2 DEF StrictSubsetOrdering
  <2> QED
    BY <1>3, <2>2, <2>3
<1> QED
  BY <1>5

-----------------------------------------------------------------------------
(* Every use the code makes of dispatch(): at most one client enters or     *)
(* gives a permit back, and the dropped ones were waiting.                 *)
Rescheduled(released, entered, dropped) ==
    /\ released \in SUBSET Holders
    /\ entered \in SUBSET Clients
    /\ dropped \in SUBSET waiting
    /\ \A c, d \in released : c = d
    /\ \A c, d \in entered : c = d
    /\ \A c \in entered : Idle(c)
    /\ Reschedule(released, entered, dropped)

IsQueue(queue, order, released) ==
    /\ IsFiniteSet(queue) /\ queue \subseteq Clients
    /\ \A c \in queue : permit[c] = "none" /\ c \notin released
    /\ \A c \in queue : order[c] \subseteq queue /\ c \notin order[c]
    /\ \A c, d \in queue : c # d => (c \in order[d]) # (d \in order[c])
    /\ \A c, d \in queue : c \in order[d] => order[c] \subseteq order[d]
    /\ \A c \in Clients \ queue : order[c] = {}

(* The queue that dispatch() looks at is a queue.                          *)
LEMMA QueueBeforeDispatch ==
  ASSUME SchedulerInv, NEW released, NEW entered, NEW dropped,
         Rescheduled(released, entered, dropped)
  PROVE  LET queue == (waiting \cup entered) \ dropped
         IN  IsQueue(queue, Order(queue, entered, dropped), released)
<1> DEFINE queue == (waiting \cup entered) \ dropped
           order == Order(queue, entered, dropped)
<1>1. waiting \subseteq Clients /\ entered \subseteq Clients /\ ahead \in [Clients -> SUBSET waiting]
  BY DEF SchedulerInv, SchedulerTypeOK, Rescheduled
<1>2. queue \subseteq Clients /\ IsFiniteSet(queue)
  BY <1>1, SchedulerAssumption, FS_Subset
<1>3. \A c \in queue : permit[c] = "none" /\ c \notin released
  BY <1>1 DEF SchedulerInv, QueueOrdered, Rescheduled, Idle, Holders
<1>4. \A c \in Clients : order[c] = IF c \notin queue THEN {}
                                    ELSE (IF c \in entered THEN waiting ELSE ahead[c]) \ dropped
  BY DEF Order
<1>5. \A c \in entered : c \notin waiting
  BY DEF Rescheduled, Idle
<1>6. ASSUME NEW c \in queue
      PROVE  order[c] \subseteq queue /\ order[c] \subseteq waiting /\ c \notin order[c]
  <2>1. CASE c \in entered
    BY <1>2, <1>4, <1>5, <2>1
  <2>2. CASE c \notin entered
    <3>1. c \in waiting /\ c \notin ahead[c] /\ ahead[c] \subseteq waiting
      BY <1>1, <2>2 DEF SchedulerInv, QueueOrdered
    <3>2. order[c] = ahead[c] \ dropped
      BY <1>2, <1>4, <2>2
    <3> QED
      BY <3>1, <3>2
  <2> QED
    BY <2>1, <2>2
<1>7. ASSUME NEW c \in queue, NEW d \in queue, c # d
      PROVE  (c \in order[d]) # (d \in order[c])
  <2>1. CASE c \in entered
    <3>1. d \notin entered /\ d \in waiting /\ c \notin waiting
      BY <1>5, <1>7, <2>1 DEF Rescheduled
    <3> QED
      BY <1>2, <1>4, <1>6, <2>1, <3>1
  <2>2. CASE d \in entered
    <3>1. c \notin entered /\ c \in waiting /\ d \notin waiting
      BY <1>5, <1>7, <2>2 DEF Rescheduled
    <3> QED
      BY <1>2, <1>4, <1>6, <2>2, <3>1
  <2>3. CASE c \notin entered /\ d \notin entered
    <3>1. c \in waiting /\ d \in waiting /\ (c \in ahead[d]) # (d \in ahead[c])
      BY <1>7, <2>3 DEF SchedulerInv, QueueOrdered
    <3>2. order[c] = ahead[c] \ dropped /\ order[d] = ahead[d] \ dropped
      BY <1>2, <1>4, <2>3
    <3>3. c \notin dropped /\ d \notin dropped
      OBVIOUS
    <3> QED
      BY <3>1, <3>2, <3>3
  <2> QED
    BY <2>1, <2>2, <2>3
<1>8. ASSUME NEW c \in queue, NEW d \in queue, c \in order[d]
      PROVE  order[c] \subseteq order[d]
  <2>1. c \in waiting /\ c \notin entered /\ order[c] = ahead[c] \ dropped
    BY <1>2, <1>4, <1>5, <1>6, <1>8
  <2>2. CASE d \in entered
    BY <1>1, <1>2, <1>4, <2>1, <2>2
  <2>3. CASE d \notin entered
    <3>1. d \in waiting /\ c \in ahead[d] /\ order[d] = ahead[d] \ dropped
      BY <1>2, <1>4, <1>8, <2>3
    <3> QED
      BY <2>1, <3>1 DEF SchedulerInv, QueueOrdered
  <2> QED
    BY <2>2, <2>3
<1> HIDE DEF queue, order
<1>9. IsQueue(queue, order, released)
  BY <1>2, <1>3, <1>4, <1>6, <1>7, <1>8 DEF IsQueue
<1> QED
  BY <1>9 DEF queue, order

(* dispatch() leaves the counters, the queue and its order as they should  *)
(* be, whatever release, entry or abort it follows.                        *)
LEMMA RescheduleInv ==
  ASSUME SchedulerInv, NEW released, NEW entered, NEW dropped,
         Rescheduled(released, entered, dropped)
  PROVE  SchedulerInv'
<1> DEFINE queue == (waiting \cup entered) \ dropped
           order == Order(queue, entered, dropped)
           free == Concurrency - inUse + Cardinality(released)
           in == Admitted(queue, order, free)
<1>1. IsQueue(queue, order, released)
  BY QueueBeforeDispatch
<1>2. /\ waiting' = queue \ in
      /\ ahead' = [c \in Clients |-> IF c \in in THEN {} ELSE order[c] \ in]
      /\ permit' = [c \in Clients |-> IF c \in in THEN "held"
                                      ELSE IF c \in released THEN "none" ELSE permit[c]]
      /\ inUse' = inUse - Cardinality(released) + Cardinality(in)
      /\ active' = active - Cardinality(released \cap Executing)
      /\ peak' = peak
  BY DEF Rescheduled, Reschedule
<1>3. in = IF free < 1 THEN {} ELSE {c \in queue : order[c] = {}}
  BY DEF Admitted
<1>4. /\ released \subseteq Holders /\ IsFiniteSet(released)
      /\ Cardinality(released) = IF released = {} THEN 0 ELSE 1
  BY AtMostOne DEF Rescheduled
<1>5. waiting # {} => inUse = Concurrency
  BY DEF SchedulerInv, WorkConserving
<1>6. waiting = {} => \A c, d \in queue : c = d
  BY DEF Rescheduled
<1> HIDE DEF queue, order, in
<1>7. /\ inUse = Cardinality(Holders) /\ active = Cardinality(Executing)
      /\ inUse \in Nat /\ active \in Nat /\ Concurrency \in Nat /\ inUse <= Concurrency
      /\ permit \in [Clients -> PermitStates] /\ peak \in 0..Concurrency
      /\ IsFiniteSet(Holders) /\ IsFiniteSet(Executing)
  <2>1. Holders \subseteq Clients /\ Executing \subseteq Clients
    BY DEF Holders, Executing
  <2> QED
    BY <2>1, SchedulerAssumption, FS_Subset DEF SchedulerInv, SchedulerTypeOK, PermitLedger
<1>8. /\ IsFiniteSet(queue) /\ queue \subseteq Clients
      /\ \A c \in queue : permit[c] = "none" /\ c \notin released
      /\ \A c \in queue : order[c] \subseteq queue /\ c \notin order[c]
      /\ \A c, d \in queue : c # d => (c \in order[d]) # (d \in order[c])
      /\ \A c, d \in queue : c \in order[d] => order[c] \subseteq order[d]
      /\ \A c \in Clients \ queue : order[c] = {}
  BY <1>1 DEF IsQueue
<1>9. in \subseteq queue /\ \A c, d \in in : c = d
  BY <1>8, <1>3
<1>10. /\ IsFiniteSet(in)
      /\ Cardinality(in) = IF in = {} THEN 0 ELSE 1
  BY <1>9, AtMostOne
<1>11. in # {} => free >= 1
  BY <1>3, <1>4, <1>7
<1>12. /\ Holders' = (Holders \ released) \cup in
       /\ Executing' = Executing \ released
  BY <1>8, <1>2, <1>4, <1>7, <1>9 DEF Holders, Executing
<1>13. Cardinality(Holders') = inUse' /\ inUse' \in 0..Concurrency
  <2>1. /\ IsFiniteSet(Holders \ released)
        /\ Cardinality(Holders \ released) = Cardinality(Holders) - Cardinality(Holders \cap released)
    BY <1>7, FS_Difference
  <2>2. Cardinality(Holders \cap released) = Cardinality(released)
    <3>1. Holders \cap released = released
      BY <1>4
    <3> QED
      BY <3>1
  <2>3. (Holders \ released) \cap in = {}
    BY <1>8, <1>9 DEF Holders
  <2>4. Cardinality(Holders') = Cardinality(Holders \ released) + Cardinality(in) - Cardinality((Holders \ released) \cap in)
    BY <1>10, <1>12, <2>1, FS_Union
  <2>5. Cardinality((Holders \ released) \cap in) = 0
    BY <2>3, FS_EmptySet
  <2>6. Cardinality(in) \in Nat /\ Cardinality(released) \in Nat
    BY <1>4, <1>10
  <2>7. Cardinality(Holders') = inUse'
    <3> HIDE DEF Holders
    <3>1. Cardinality(Holders') = inUse - Cardinality(released) + Cardinality(in)
      BY <1>7, <2>1, <2>2, <2>4, <2>5, <2>6
    <3> QED
      BY <1>2, <3>1
  <2>8. inUse' \in Nat
    BY <1>7, <1>10, <1>12, <2>1, <2>7, FS_Union, FS_CardinalityType
  <2> QED
    BY <1>2, <1>4, <1>7, <1>10, <1>11, <2>7, <2>8
<1>14. Cardinality(Executing') = active' /\ active' \in 0..Concurrency
  <2>1. /\ IsFiniteSet(Executing \ released)
        /\ Cardinality(Executing \ released) = Cardinality(Executing) - Cardinality(Executing \cap released)
    BY <1>7, FS_Difference
  <2>2. Executing \cap released = released \cap Executing
    OBVIOUS
  <2>3. Cardinality(Executing \ released) \in Nat
    BY <2>1, FS_CardinalityType
  <2>4. Cardinality(Executing \ released) = active'
    BY <1>2, <1>7, <2>1, <2>2
  <2>5. Executing' \subseteq Holders' /\ IsFiniteSet(Holders')
    <3>1. IsFiniteSet(Holders \ released)
      BY <1>7, FS_Difference
    <3>2. IsFiniteSet(Holders')
      BY <1>10, <1>12, <3>1, FS_Union
    <3>3. Executing' \subseteq Holders'
      BY DEF Executing, Holders
    <3> QED
      BY <3>2, <3>3
  <2>6. Cardinality(Executing') <= Cardinality(Holders')
    BY <2>5, FS_Subset
  <2> QED
    BY <1>7, <1>12, <1>13, <2>3, <2>4, <2>6
<1>15. SchedulerTypeOK'
  <2>1. waiting' \subseteq Clients
    BY <1>8, <1>2
  <2>2. ahead' \in [Clients -> SUBSET waiting']
    <3>1. ASSUME NEW c \in Clients PROVE order[c] \subseteq queue
      <4>1. CASE c \in queue
        BY <1>8, <4>1
      <4>2. CASE c \notin queue
        <5>1. c \in Clients \ queue
          BY <4>2
        <5>2. order[c] = {}
          BY <1>8, <5>1
        <5> QED
          BY <5>2
      <4> QED
        BY <4>1, <4>2
    <3> QED
      BY <1>2, <3>1
  <2>3. permit' \in [Clients -> PermitStates]
    BY <1>2, <1>7 DEF PermitStates
  <2>4. peak' \in 0..Concurrency
    BY <1>2, <1>7
  <2> QED
    BY <1>13, <1>14, <2>1, <2>2, <2>3, <2>4 DEF SchedulerTypeOK
<1>16. PermitLedger'
  BY <1>7, <1>13, <1>14 DEF PermitLedger
<1>17. QueueOrdered'
  <2>1. ASSUME NEW c \in waiting'
        PROVE  /\ c \in queue /\ c \notin in /\ c \in Clients
               /\ ahead'[c] = order[c] \ in
    BY <1>8, <1>2
  <2>2. ASSUME NEW c \in waiting' PROVE permit'[c] = "none" /\ c \notin ahead'[c]
    BY <1>8, <1>2, <2>1
  <2>3. ASSUME NEW c \in waiting', NEW d \in waiting', c # d
        PROVE  (c \in ahead'[d]) # (d \in ahead'[c])
    <3>1. (c \in order[d]) # (d \in order[c])
      BY <1>8, <2>1, <2>3
    <3>2. /\ c \notin in /\ d \notin in
          /\ ahead'[c] = order[c] \ in /\ ahead'[d] = order[d] \ in
      BY <2>1
    <3> QED
      BY <3>1, <3>2
  <2>4. ASSUME NEW c \in waiting', NEW d \in waiting', c \in ahead'[d]
        PROVE  ahead'[c] \subseteq ahead'[d]
    <3>1. c \in queue /\ d \in queue /\ c \in order[d]
      BY <2>1, <2>4
    <3> QED
      BY <1>8, <2>1, <3>1
  <2> QED
    BY <2>2, <2>3, <2>4 DEF QueueOrdered
<1>18. WorkConserving'
  <2>1. CASE queue = {}
    BY <1>2, <2>1 DEF WorkConserving
  <2>2. CASE queue # {} /\ free >= 1
    <3>1. \E c \in queue : order[c] = {}
      <4>1. \A c \in queue : order[c] \subseteq queue /\ c \notin order[c]
        BY <1>8
      <4>2. \A c, d \in queue : c \in order[d] => order[c] \subseteq order[d]
        BY <1>8
      <4>3. IsFiniteSet(queue) /\ queue # {}
        BY <1>8, <2>2
      <4> QED
        BY <4>1, <4>2, <4>3, FirstExists, Zenon
    <3>2. in # {}
      BY <1>3, <1>4, <1>7, <2>2, <3>1
    <3>3. CASE waiting = {}
      BY <1>2, <1>6, <1>9, <3>2, <3>3 DEF WorkConserving
    <3>4. CASE waiting # {}
      BY <1>2, <1>4, <1>5, <1>7, <1>10, <2>2, <3>2, <3>4 DEF WorkConserving
    <3> QED
      BY <3>3, <3>4
  <2>3. CASE ~(free >= 1)
    <3>1. in = {} /\ released = {} /\ inUse = Concurrency
      BY <1>4, <1>7, <1>11, <2>3
    <3> QED
      BY <1>2, <1>4, <1>7, <1>10, <3>1 DEF WorkConserving
  <2> QED
    BY <2>1, <2>2, <2>3
<1> QED
  BY <1>15, <1>16, <1>17, <1>18 DEF SchedulerInv

LEMMA AcquireIsRescheduled ==
  ASSUME SchedulerInv, NEW c \in Clients, Acquire(c)
  PROVE  Rescheduled({}, {c}, {})
BY DEF Acquire, Rescheduled

LEMMA ReleaseIsRescheduled ==
  ASSUME NEW c \in Clients, NEW dropped \in SUBSET waiting, Release(c, dropped)
  PROVE  Rescheduled({c}, {}, dropped)
BY DEF Release, Rescheduled

LEMMA AbortIsRescheduled ==
  ASSUME NEW dropped \in SUBSET waiting, AbortWaiters(dropped)
  PROVE  Rescheduled({}, {}, dropped)
BY DEF AbortWaiters, Rescheduled

(* Activating moves a holder to the executing ones, who are never more.     *)
LEMMA ActivateInv ==
  ASSUME SchedulerInv, NEW c \in Clients, Activate(c)
  PROVE  SchedulerInv'
<1>1. /\ waiting \subseteq Clients /\ permit \in [Clients -> PermitStates] /\ permit[c] = "held"
      /\ inUse \in Nat /\ active \in Nat /\ peak \in 0..Concurrency /\ Concurrency \in Nat
      /\ inUse = Cardinality(Holders) /\ active = Cardinality(Executing) /\ inUse <= Concurrency
  BY SchedulerAssumption DEF SchedulerInv, SchedulerTypeOK, PermitLedger, Activate
<1>2. /\ permit' = [permit EXCEPT ![c] = "executing"]
      /\ active' = active + 1 /\ inUse' = inUse /\ waiting' = waiting /\ ahead' = ahead
      /\ peak' = IF active + 1 > peak THEN active + 1 ELSE peak
  BY DEF Activate
<1>3. Holders' = Holders /\ Executing' = Executing \cup {c} /\ c \notin Executing /\ Executing' \subseteq Holders
  BY <1>1, <1>2 DEF Holders, Executing, PermitStates
<1>4. IsFiniteSet(Holders) /\ IsFiniteSet(Executing)
  <2>1. Holders \subseteq Clients /\ Executing \subseteq Clients
    BY DEF Holders, Executing
  <2> QED
    BY <2>1, SchedulerAssumption, FS_Subset
<1>5. Cardinality(Executing') = active'
  BY <1>1, <1>2, <1>3, <1>4, FS_AddElement
<1>6. active' \in 0..Concurrency
  <2>1. Cardinality(Executing') <= Cardinality(Holders)
    BY <1>3, <1>4, FS_Subset
  <2> QED
    BY <1>1, <1>2, <1>5, <2>1
<1>7. SchedulerTypeOK'
  <2>1. peak' \in 0..Concurrency
    BY <1>1, <1>2, <1>6
  <2>2. permit' \in [Clients -> PermitStates]
    BY <1>1, <1>2 DEF PermitStates
  <2> QED
    BY <1>2, <1>6, <2>1, <2>2 DEF SchedulerInv, SchedulerTypeOK
<1>8. PermitLedger'
  <2>1. Cardinality(Holders') = Cardinality(Holders)
    BY <1>3
  <2> QED
    BY <1>1, <1>2, <1>5, <2>1 DEF PermitLedger
<1>9. QueueOrdered'
  <2>1. \A d \in waiting : permit'[d] = permit[d]
    BY <1>1, <1>2 DEF SchedulerInv, QueueOrdered
  <2> QED
    BY <1>2, <2>1 DEF SchedulerInv, QueueOrdered
<1>10. WorkConserving'
  BY <1>2 DEF SchedulerInv, WorkConserving
<1> QED
  BY <1>7, <1>8, <1>9, <1>10 DEF SchedulerInv

LEMMA InitSchedulerInv ==
  SchedulerInit => SchedulerInv
<1> SUFFICES ASSUME SchedulerInit PROVE SchedulerInv
  OBVIOUS
<1>1. Holders = {} /\ Executing = {}
  BY DEF SchedulerInit, Holders, Executing
<1>2. SchedulerTypeOK
  BY SchedulerAssumption DEF SchedulerInit, SchedulerTypeOK, PermitStates
<1>3. PermitLedger
  BY <1>1, FS_EmptySet, SchedulerAssumption DEF SchedulerInit, PermitLedger
<1>4. QueueOrdered /\ WorkConserving
  BY DEF SchedulerInit, QueueOrdered, WorkConserving
<1> QED
  BY <1>2, <1>3, <1>4 DEF SchedulerInv

LEMMA StutterSchedulerInv ==
  ASSUME SchedulerInv, UNCHANGED schedulerVars
  PROVE  SchedulerInv'
BY DEF SchedulerInv, SchedulerTypeOK, PermitLedger, QueueOrdered, WorkConserving, Holders, Executing, schedulerVars

LEMMA NextSchedulerInv ==
  SchedulerInv /\ [SchedulerNext]_schedulerVars => SchedulerInv'
<1> SUFFICES ASSUME SchedulerInv, [SchedulerNext]_schedulerVars PROVE SchedulerInv'
  OBVIOUS
<1>1. ASSUME NEW c \in Clients, Acquire(c) PROVE SchedulerInv'
  BY <1>1, AcquireIsRescheduled, RescheduleInv
<1>2. ASSUME NEW c \in Clients, NEW dropped \in SUBSET waiting, Release(c, dropped) PROVE SchedulerInv'
  BY <1>2, ReleaseIsRescheduled, RescheduleInv
<1>3. ASSUME NEW dropped \in SUBSET waiting, AbortWaiters(dropped) PROVE SchedulerInv'
  BY <1>3, AbortIsRescheduled, RescheduleInv
<1>4. ASSUME NEW c \in Clients, Activate(c) PROVE SchedulerInv'
  BY <1>4, ActivateInv
<1>5. CASE UNCHANGED schedulerVars
  BY <1>5, StutterSchedulerInv
<1> QED
  BY <1>1, <1>2, <1>3, <1>4, <1>5 DEF SchedulerNext

(* For any clients and any number of permits, the counters count what is    *)
(* held, the waiters form a queue and no permit idles while one waits      *)
(* (execution-scheduler.ts:20-67).                                         *)
THEOREM SchedulerCorrect ==
  SchedulerSpec => [](SchedulerTypeOK /\ PermitLedger /\ QueueOrdered /\ WorkConserving)
<1>1. SchedulerInv => SchedulerTypeOK /\ PermitLedger /\ QueueOrdered /\ WorkConserving
  BY DEF SchedulerInv
<1> QED
  BY <1>1, InitSchedulerInv, NextSchedulerInv, PTL DEF SchedulerSpec

-----------------------------------------------------------------------------
FirstInLine == \A c \in waiting : permit'[c] = "held" => ahead[c] \cap waiting' = {}

LEMMA RescheduleInOrder ==
  ASSUME SchedulerInv, NEW released, NEW entered, NEW dropped,
         Rescheduled(released, entered, dropped)
  PROVE  FirstInLine
<1> SUFFICES ASSUME NEW c \in waiting, permit'[c] = "held"
             PROVE  ahead[c] \cap waiting' = {}
  BY DEF FirstInLine
<1> DEFINE queue == (waiting \cup entered) \ dropped
           order == Order(queue, entered, dropped)
           in == Admitted(queue, order, Concurrency - inUse + Cardinality(released))
<1>1. c \in Clients /\ permit[c] = "none" /\ c \notin entered
  BY DEF SchedulerInv, SchedulerTypeOK, QueueOrdered, Rescheduled, Idle
<1>2. waiting' = queue \ in
  BY DEF Rescheduled, Reschedule
<1>3. c \in in
  BY <1>1 DEF Rescheduled, Reschedule
<1>4. c \in queue /\ order[c] = {}
  BY <1>3 DEF Admitted
<1>5. order[c] = ahead[c] \ dropped
  BY <1>1, <1>4 DEF Order
<1> QED
  BY <1>2, <1>4, <1>5

LEMMA NextInOrder ==
  ASSUME SchedulerInv, SchedulerNext
  PROVE  FirstInLine
<1>1. ASSUME NEW c \in Clients, Acquire(c) PROVE FirstInLine
  BY <1>1, AcquireIsRescheduled, RescheduleInOrder
<1>2. ASSUME NEW c \in Clients, NEW dropped \in SUBSET waiting, Release(c, dropped) PROVE FirstInLine
  BY <1>2, ReleaseIsRescheduled, RescheduleInOrder
<1>3. ASSUME NEW dropped \in SUBSET waiting, AbortWaiters(dropped) PROVE FirstInLine
  BY <1>3, AbortIsRescheduled, RescheduleInOrder
<1>4. ASSUME NEW c \in Clients, Activate(c) PROVE FirstInLine
  <2>1. \A d \in waiting : permit'[d] # "held"
    BY <1>4 DEF Activate, SchedulerInv, SchedulerTypeOK, QueueOrdered
  <2> QED
    BY <2>1 DEF FirstInLine
<1> QED
  BY <1>1, <1>2, <1>3, <1>4 DEF SchedulerNext

(* First come, first served, with any number of clients and permits.        *)
THEOREM SchedulerFair == SchedulerSpec => NoOvertaking
<1>1. SchedulerInv /\ [SchedulerNext]_schedulerVars => [FirstInLine]_schedulerVars
  BY NextInOrder
<1>2. SchedulerSpec => [][FirstInLine]_schedulerVars
  BY <1>1, InitSchedulerInv, NextSchedulerInv, PTL DEF SchedulerSpec
<1> QED
  BY <1>2 DEF NoOvertaking, FirstInLine

-----------------------------------------------------------------------------
(***************************************************************************)

(* Proofs about the execution owner.  It drives the ledger and the permit   *)
(* queue only through their own operations, so BudgetInv and SchedulerInv   *)
(* carry over.  What it adds is proved from three invariants:               *)
(*   ScopeInv   a scope in use belongs to the one delegation of a working   *)
(*              owner, and its jobs are pending only until it has drained;  *)
(*   SlotInv    who executes on a permit and who asks for one;              *)
(*   FailureInv how a failure travels from a job to its scope and, when the *)
(*              scope has drained, to the owner.                           *)
(***************************************************************************)

Active == {"children", "draining", "resuming"}
AtWork == {"working", "returned", "thrown"}

(* Who waits for a permit, or was handed one and has not used it yet.       *)
Asking == {c \in Clients : permit[c] = "held"} \cup waiting

ScopeInv ==
    /\ \A s \in Scopes : stage[s] # "unused" => owner[s] \in Invocations /\ {Root, s, owner[s]} \subseteq sources[s]
    /\ \A s \in Scopes : stage[s] \in Active => delegation[owner[s]] = s
    /\ \A i \in Invocations : delegation[i] # NoScope =>
          owner[delegation[i]] = i /\ stage[delegation[i]] \in Active /\ main[i] \in AtWork
    /\ \A i \in Invocations : home[i] # Root => stage[home[i]] # "unused"
    /\ \A i \in Invocations : home[i] # Root /\ main[i] \in Joined => stage[home[i]] \in {"children", "draining"}
    /\ Root \in sources[Root] /\ (closed => Root \in fired)

SlotInv ==
    /\ \A i \in Invocations : i \in Executing => main[i] \in AtWork /\ delegation[i] = NoScope
    /\ \A i \in Invocations : i \in Asking =>
          main[i] = "queued" \/ (delegation[i] # NoScope /\ stage[delegation[i]] = "resuming")
    /\ \A i \in Invocations : main[i] = "working" /\ delegation[i] = NoScope => i \in Executing \/ Aborted(i)
    /\ \A s \in Scopes : stage[s] = "resuming" /\ main[owner[s]] = "working" => owner[s] \in Asking \/ Aborted(owner[s])

FailureInv ==
    /\ failed \subseteq fired
    /\ \A i \in Invocations : main[i] \in {"failed", "thrown"} /\ home[i] # Root => home[i] \in failed
    /\ \A i \in Invocations : main[i] = "thrown" => i \in fired
    /\ \A i \in Invocations :
          main[i] = "failed" /\ home[i] # Root /\ stage[home[i]] \in {"resuming", "settled"} => owner[home[i]] \in spoiled
    /\ \A i \in Invocations : main[i] = "ok" => i \notin spoiled

Inv == StateTypeOK /\ BudgetInv /\ SchedulerInv /\ ScopeInv /\ SlotInv /\ FailureInv

-----------------------------------------------------------------------------
(* The permit queue under the execution owner.                             *)
LEMMA FireScheduler ==
  ASSUME SchedulerInv, NEW f, NEW m, Fire(f, m)
  PROVE  SchedulerInv'
<1> DEFINE dropped == Dropped(fired \cup f, m)
<1>1. dropped \in SUBSET waiting
  BY DEF Dropped
<1>2. UNCHANGED schedulerVars \/ AbortWaiters(dropped)
  BY DEF Fire
<1> QED
  BY <1>1, <1>2, AbortIsRescheduled, RescheduleInv, StutterSchedulerInv

LEMMA FireAndReleaseScheduler ==
  ASSUME SchedulerInv, NEW f, NEW m, NEW i \in Invocations, FireAndRelease(f, m, i)
  PROVE  SchedulerInv'
<1>1. Dropped(fired \cup f, m) \in SUBSET waiting /\ i \in Clients
  BY StateAssumption DEF Dropped
<1>2. CASE i \in Holders
  BY <1>1, <1>2, ReleaseIsRescheduled, RescheduleInv DEF FireAndRelease
<1>3. CASE i \notin Holders
  BY <1>3, FireScheduler DEF FireAndRelease
<1> QED
  BY <1>2, <1>3

(* The operations of the queue, on an invocation.                          *)
LEMMA OperationScheduler ==
  ASSUME SchedulerInv, NEW i \in Invocations, Acquire(i) \/ Release(i, {}) \/ Activate(i)
  PROVE  SchedulerInv'
<1>1. i \in Clients /\ {} \in SUBSET waiting
  BY StateAssumption
<1> QED
  BY <1>1, AcquireIsRescheduled, ReleaseIsRescheduled, RescheduleInv, ActivateInv

LEMMA InvocationStepScheduler ==
  ASSUME ScopeInv, SchedulerInv, NEW i \in Invocations, InvocationStep(i)
  PROVE  SchedulerInv'
<1>1. ASSUME NEW s, NEW r, CreateInvocation(i, s, r) PROVE SchedulerInv'
  BY <1>1, StutterSchedulerInv DEF CreateInvocation
<1>2. CASE Run(i)
  BY <1>2, OperationScheduler DEF Run
<1>3. CASE RunRefused(i) \/ AcquireRejected(i)
  BY <1>3, StutterSchedulerInv DEF RunRefused, AcquireRejected
<1>4. CASE JobRejected(i)
  BY <1>4, FireScheduler DEF JobRejected
<1>5. CASE Start(i)
  BY <1>5, OperationScheduler DEF Start
<1>6. CASE StartRefused(i)
  BY <1>6, FireAndReleaseScheduler DEF StartRefused, Fail
<1>7. ASSUME NEW s \in Scopes, WithChildren(i, s) PROVE SchedulerInv'
  BY <1>7, OperationScheduler DEF WithChildren
<1>8. CASE WorkReturns(i)
  BY <1>8, FireScheduler DEF WorkReturns
<1>9. CASE WorkThrows(i)
  BY <1>9, FireScheduler DEF WorkThrows
<1>10. CASE Finish(i)
  BY <1>10, FireAndReleaseScheduler DEF Finish, Fail
<1> QED
  BY <1>1, <1>2, <1>3, <1>4, <1>5, <1>6, <1>7, <1>8, <1>9, <1>10 DEF InvocationStep

LEMMA ScopeStepScheduler ==
  ASSUME ScopeInv, SchedulerInv, NEW s \in Scopes, ScopeStep(s)
  PROVE  SchedulerInv'
<1>1. stage[s] # "unused" => owner[s] \in Invocations
  BY DEF ScopeInv
<1>2. ASSUME NEW threw \in BOOLEAN, ChildrenEnd(s, threw) PROVE SchedulerInv'
  BY <1>2, FireScheduler DEF ChildrenEnd
<1>3. CASE Drained(s)
  BY <1>1, <1>3, OperationScheduler, StutterSchedulerInv DEF Drained
<1>4. CASE Resumed(s)
  BY <1>1, <1>4, OperationScheduler DEF Resumed
<1>5. CASE ResumeRejected(s)
  BY <1>5, StutterSchedulerInv DEF ResumeRejected
<1> QED
  BY <1>2, <1>3, <1>4, <1>5 DEF ScopeStep

LEMMA NextScheduler ==
  ScopeInv /\ SchedulerInv /\ [Next]_vars => SchedulerInv'
<1> SUFFICES ASSUME ScopeInv, SchedulerInv, [Next]_vars PROVE SchedulerInv'
  OBVIOUS
<1>1. ASSUME NEW close \in BOOLEAN, Abort(close) PROVE SchedulerInv'
  BY <1>1, FireScheduler DEF Abort
<1>2. CASE DeadlinePasses
  BY <1>2, StutterSchedulerInv DEF DeadlinePasses
<1>3. CASE Reservation
  BY <1>3, StutterSchedulerInv DEF Reservation
<1>4. CASE UNCHANGED vars
  BY <1>4, StutterSchedulerInv DEF vars
<1> QED
  BY <1>1, <1>2, <1>3, <1>4, InvocationStepScheduler, ScopeStepScheduler DEF Next

-----------------------------------------------------------------------------
(* The ledger under the execution owner.                                   *)
LEMMA StutterBudgetInv ==
  ASSUME BudgetInv, UNCHANGED budgetVars
  PROVE  BudgetInv'
BY CountersChange DEF budgetVars, BudgetInv, BudgetTypeOK, LaunchCap

LEMMA InvocationStepBudget ==
  ASSUME StateTypeOK, BudgetInv, NEW i \in Invocations, InvocationStep(i)
  PROVE  BudgetInv'
<1>1. ASSUME NEW s \in Scopes \cup {Root}, NEW r \in Reservations \cup {NoReservation}, CreateInvocation(i, s, r)
      PROVE  BudgetInv'
  BY <1>1, AllocateFreshInv, AllocateReplayedInv DEF CreateInvocation
<1>2. CASE Start(i)
  <2>1. backing[i] \in Reservations \cup {NoReservation}
    BY DEF StateTypeOK
  <2> QED
    BY <1>2, <2>1, ChargeInv DEF Start
<1>3. CASE UNCHANGED budgetVars
  BY <1>3, StutterBudgetInv
<1>4. Run(i) \/ RunRefused(i) \/ AcquireRejected(i) \/ JobRejected(i) \/ StartRefused(i) => UNCHANGED budgetVars
  BY DEF Run, RunRefused, AcquireRejected, JobRejected, StartRefused, Fail
<1>5. \A s \in Scopes : WithChildren(i, s) => UNCHANGED budgetVars
  BY DEF WithChildren
<1>6. WorkReturns(i) \/ WorkThrows(i) \/ Finish(i) => UNCHANGED budgetVars
  BY DEF WorkReturns, WorkThrows, Finish, Fail
<1> QED
  BY <1>1, <1>2, <1>3, <1>4, <1>5, <1>6 DEF InvocationStep

LEMMA NextBudget ==
  StateTypeOK /\ BudgetInv /\ [Next]_vars => BudgetInv'
<1> SUFFICES ASSUME StateTypeOK, BudgetInv, [Next]_vars PROVE BudgetInv'
  OBVIOUS
<1>1. CASE Reservation
  BY <1>1, ReserveInv, ReleaseReservationInv DEF Reservation
<1>2. CASE UNCHANGED budgetVars
  BY <1>2, StutterBudgetInv
<1>3. \A s \in Scopes : ScopeStep(s) => UNCHANGED budgetVars
  BY DEF ScopeStep, ChildrenEnd, Drained, Resumed, ResumeRejected
<1>4. \A close \in BOOLEAN : Abort(close) => UNCHANGED budgetVars
  BY DEF Abort
<1>5. DeadlinePasses \/ UNCHANGED vars => UNCHANGED budgetVars
  BY DEF DeadlinePasses, vars
<1> QED
  BY <1>1, <1>2, <1>3, <1>4, <1>5, InvocationStepBudget DEF Next
-----------------------------------------------------------------------------
(* Types.                                                                  *)
LEMMA InvocationStepStateTypeOK ==
  ASSUME StateTypeOK, ScopeInv, NEW i \in Invocations, InvocationStep(i)
  PROVE  StateTypeOK'
<1> USE StateAssumption DEF StateTypeOK, identityVars, stateVars, ScopeInv,
         MainStates, StageStates, Joined, Pending, Settled, Controllers, Active, Stops, Signal, Fire, FireAndRelease
<1>1. ASSUME NEW s \in Scopes \cup {Root}, NEW r \in Reservations \cup {NoReservation}, CreateInvocation(i, s, r)
      PROVE  StateTypeOK'
  BY <1>1 DEF CreateInvocation
<1>2. CASE Run(i)
  BY <1>2 DEF Run
<1>3. CASE RunRefused(i)
  BY <1>3 DEF RunRefused
<1>4. CASE AcquireRejected(i)
  BY <1>4 DEF AcquireRejected
<1>5. CASE JobRejected(i)
  BY <1>5 DEF JobRejected
<1>6. CASE Start(i)
  BY <1>6 DEF Start
<1>7. CASE StartRefused(i)
  BY <1>7 DEF StartRefused, Fail
<1>8. ASSUME NEW s \in Scopes, WithChildren(i, s)
      PROVE  StateTypeOK'
  BY <1>8 DEF WithChildren
<1>9. CASE WorkReturns(i)
  BY <1>9 DEF WorkReturns
<1>10. CASE WorkThrows(i)
  BY <1>10 DEF WorkThrows
<1>11. CASE Finish(i)
  BY <1>11 DEF Finish, Fail
<1> QED
  BY <1>1, <1>2, <1>3, <1>4, <1>5, <1>6, <1>7, <1>8, <1>9, <1>10, <1>11 DEF InvocationStep

LEMMA ScopeStepStateTypeOK ==
  ASSUME StateTypeOK, ScopeInv, NEW s \in Scopes, ScopeStep(s)
  PROVE  StateTypeOK'
<1> USE StateAssumption DEF StateTypeOK, identityVars, stateVars, ScopeInv,
         MainStates, StageStates, Joined, Pending, Settled, Controllers, Active, Stops, Signal, Fire, FireAndRelease
<1>1. ASSUME NEW threw \in BOOLEAN, ChildrenEnd(s, threw)
      PROVE  StateTypeOK'
  BY <1>1 DEF ChildrenEnd
<1>2. CASE Drained(s)
  BY <1>2 DEF Drained, Settle
<1>3. CASE Resumed(s)
  BY <1>3 DEF Resumed, Settle
<1>4. CASE ResumeRejected(s)
  BY <1>4 DEF ResumeRejected, Settle
<1> QED
  BY <1>1, <1>2, <1>3, <1>4 DEF ScopeStep

LEMMA NextStateTypeOK ==
  ASSUME StateTypeOK, ScopeInv, [Next]_vars
  PROVE  StateTypeOK'
<1>1. ASSUME NEW close \in BOOLEAN, Abort(close) PROVE StateTypeOK'
  BY <1>1, StateAssumption DEF Abort, StateTypeOK, Controllers, Stops, stateVars, identityVars, Fire
<1>2. CASE DeadlinePasses \/ Reservation \/ UNCHANGED vars
  BY <1>2, StateAssumption DEF DeadlinePasses, Reservation, vars, StateTypeOK, Controllers, Stops, stateVars, identityVars, Fire
<1> QED
  BY <1>1, <1>2, InvocationStepStateTypeOK, ScopeStepStateTypeOK DEF Next

-----------------------------------------------------------------------------
(* Delegation scopes and their owners.                                     *)
LEMMA InvocationStepScopeInv ==
  ASSUME StateTypeOK, ScopeInv, NEW i \in Invocations, InvocationStep(i)
  PROVE  ScopeInv'
<1> USE StateAssumption DEF StateTypeOK, identityVars, stateVars, ScopeInv,
         Active, AtWork, Joined, Pending, Settled, Joins, Job, ScopeClosed, Open, Live, Signal, Fire, FireAndRelease
<1>1. ASSUME NEW s \in Scopes \cup {Root}, NEW r \in Reservations \cup {NoReservation}, CreateInvocation(i, s, r)
      PROVE  ScopeInv'
  BY <1>1 DEF CreateInvocation
<1>2. CASE Run(i)
  BY <1>2 DEF Run
<1>3. CASE RunRefused(i)
  BY <1>3 DEF RunRefused
<1>4. CASE AcquireRejected(i)
  BY <1>4 DEF AcquireRejected
<1>5. CASE JobRejected(i)
  BY <1>5 DEF JobRejected
<1>6. CASE Start(i)
  BY <1>6 DEF Start
<1>7. CASE StartRefused(i)
  BY <1>7 DEF StartRefused, Fail
<1>8. ASSUME NEW s \in Scopes, WithChildren(i, s)
      PROVE  ScopeInv'
  BY <1>8 DEF WithChildren
<1>9. CASE WorkReturns(i)
  BY <1>9 DEF WorkReturns
<1>10. CASE WorkThrows(i)
  BY <1>10 DEF WorkThrows
<1>11. CASE Finish(i)
  BY <1>11 DEF Finish, Fail
<1> QED
  BY <1>1, <1>2, <1>3, <1>4, <1>5, <1>6, <1>7, <1>8, <1>9, <1>10, <1>11 DEF InvocationStep

LEMMA ScopeStepScopeInv ==
  ASSUME StateTypeOK, ScopeInv, NEW s \in Scopes, ScopeStep(s)
  PROVE  ScopeInv'
<1> USE StateAssumption DEF StateTypeOK, identityVars, stateVars, ScopeInv,
         Active, AtWork, Joined, Pending, Settled, Joins, Job, ScopeClosed, Open, Live, Signal, Fire, FireAndRelease
<1>1. ASSUME NEW threw \in BOOLEAN, ChildrenEnd(s, threw)
      PROVE  ScopeInv'
  BY <1>1 DEF ChildrenEnd
<1>2. CASE Drained(s)
  BY <1>2 DEF Drained, Settle
<1>3. CASE Resumed(s)
  BY <1>3 DEF Resumed, Settle
<1>4. CASE ResumeRejected(s)
  BY <1>4 DEF ResumeRejected, Settle
<1> QED
  BY <1>1, <1>2, <1>3, <1>4 DEF ScopeStep

LEMMA NextScopeInv ==
  ASSUME StateTypeOK, ScopeInv, [Next]_vars
  PROVE  ScopeInv'
<1>1. ASSUME NEW close \in BOOLEAN, Abort(close) PROVE ScopeInv'
  BY <1>1, StateAssumption DEF Abort, ScopeInv, StateTypeOK, Active, AtWork, Joined, Pending, stateVars, identityVars, Fire
<1>2. CASE DeadlinePasses \/ Reservation \/ UNCHANGED vars
  BY <1>2, StateAssumption DEF DeadlinePasses, Reservation, vars, ScopeInv, StateTypeOK, Active, AtWork, Joined, Pending, stateVars, identityVars, Fire
<1> QED
  BY <1>1, <1>2, InvocationStepScopeInv, ScopeStepScopeInv DEF Next

-----------------------------------------------------------------------------
(* Failures travel upwards.                                                *)
LEMMA InvocationStepFailureInv ==
  ASSUME StateTypeOK, ScopeInv, FailureInv, NEW i \in Invocations, InvocationStep(i)
  PROVE  FailureInv'
<1> USE StateAssumption DEF StateTypeOK, identityVars, stateVars, ScopeInv, FailureInv,
         Active, AtWork, Joined, Pending, Joins, Job, Unsound, Stops, ScopeClosed, Open, Live, Fire, FireAndRelease
<1>1. ASSUME NEW s \in Scopes \cup {Root}, NEW r \in Reservations \cup {NoReservation}, CreateInvocation(i, s, r)
      PROVE  FailureInv'
  BY <1>1 DEF CreateInvocation
<1>2. CASE Run(i)
  BY <1>2 DEF Run
<1>3. CASE RunRefused(i)
  BY <1>3 DEF RunRefused
<1>4. CASE AcquireRejected(i)
  BY <1>4 DEF AcquireRejected
<1>5. CASE JobRejected(i)
  BY <1>5 DEF JobRejected
<1>6. CASE Start(i)
  BY <1>6 DEF Start
<1>7. CASE StartRefused(i)
  BY <1>7 DEF StartRefused, Fail
<1>8. ASSUME NEW s \in Scopes, WithChildren(i, s)
      PROVE  FailureInv'
  BY <1>8 DEF WithChildren
<1>9. CASE WorkReturns(i)
  BY <1>9 DEF WorkReturns
<1>10. CASE WorkThrows(i)
  BY <1>10 DEF WorkThrows
<1>11. CASE Finish(i)
  BY <1>11 DEF Finish, Fail
<1> QED
  BY <1>1, <1>2, <1>3, <1>4, <1>5, <1>6, <1>7, <1>8, <1>9, <1>10, <1>11 DEF InvocationStep

LEMMA ScopeStepFailureInv ==
  ASSUME StateTypeOK, ScopeInv, FailureInv, NEW s \in Scopes, ScopeStep(s)
  PROVE  FailureInv'
<1> USE StateAssumption DEF StateTypeOK, identityVars, stateVars, ScopeInv, FailureInv,
         Active, AtWork, Joined, Pending, Joins, Job, Unsound, Stops, ScopeClosed, Open, Live, Fire, FireAndRelease
<1>1. ASSUME NEW threw \in BOOLEAN, ChildrenEnd(s, threw)
      PROVE  FailureInv'
  BY <1>1 DEF ChildrenEnd
<1>2. CASE Drained(s)
  BY <1>2 DEF Drained, Settle
<1>3. CASE Resumed(s)
  BY <1>3 DEF Resumed, Settle
<1>4. CASE ResumeRejected(s)
  BY <1>4 DEF ResumeRejected, Settle
<1> QED
  BY <1>1, <1>2, <1>3, <1>4 DEF ScopeStep

LEMMA NextFailureInv ==
  ASSUME StateTypeOK, ScopeInv, FailureInv, [Next]_vars
  PROVE  FailureInv'
<1>1. ASSUME NEW close \in BOOLEAN, Abort(close) PROVE FailureInv'
  BY <1>1, StateAssumption DEF Abort, FailureInv, ScopeInv, StateTypeOK, stateVars, identityVars, Fire
<1>2. CASE DeadlinePasses \/ Reservation \/ UNCHANGED vars
  BY <1>2, StateAssumption DEF DeadlinePasses, Reservation, vars, FailureInv, ScopeInv, StateTypeOK, stateVars, identityVars, Fire
<1> QED
  BY <1>1, <1>2, InvocationStepFailureInv, ScopeStepFailureInv DEF Next

-----------------------------------------------------------------------------
(* What the operations of the queue do to who executes and who asks.        *)
LEMMA RescheduleEffect ==
  ASSUME SchedulerInv, NEW released, NEW entered, NEW dropped, Rescheduled(released, entered, dropped)
  PROVE  /\ Executing' = Executing \ released
         /\ Asking' = (Asking \ (released \cup dropped)) \cup entered
<1> DEFINE queue == (waiting \cup entered) \ dropped
           order == Order(queue, entered, dropped)
           in == Admitted(queue, order, Concurrency - inUse + Cardinality(released))
<1>1. /\ waiting' = queue \ in /\ in \subseteq queue
      /\ permit' = [d \in Clients |-> IF d \in in THEN "held"
                                      ELSE IF d \in released THEN "none" ELSE permit[d]]
  BY DEF Rescheduled, Reschedule, Admitted
<1>2. /\ \A d \in waiting : permit[d] = "none"
      /\ \A d \in entered : permit[d] = "none" /\ d \notin waiting
      /\ \A d \in released : permit[d] # "none"
      /\ dropped \subseteq waiting /\ entered \subseteq Clients /\ waiting \subseteq Clients
  BY DEF SchedulerInv, SchedulerTypeOK, QueueOrdered, Rescheduled, Idle, Holders
<1> HIDE DEF in
<1>3. Executing' = Executing \ released
  BY <1>1, <1>2 DEF Executing
<1>4. Asking' = (Asking \ (released \cup dropped)) \cup entered
  BY <1>1, <1>2 DEF Asking
<1> QED
  BY <1>3, <1>4

LEMMA ActivateEffect ==
  ASSUME SchedulerInv, NEW i \in Invocations, Activate(i)
  PROVE  Executing' = Executing \cup {i} /\ Asking' = Asking \ {i}
<1>1. /\ permit \in [Clients -> PermitStates] /\ i \in Clients /\ i \notin waiting
      /\ permit' = [permit EXCEPT ![i] = "executing"] /\ waiting' = waiting
  BY StateAssumption DEF Activate, SchedulerInv, SchedulerTypeOK, QueueOrdered
<1> QED
  BY <1>1 DEF Executing, Asking

LEMMA StutterEffect ==
  ASSUME UNCHANGED schedulerVars
  PROVE  Executing' = Executing /\ Asking' = Asking
BY DEF schedulerVars, Executing, Asking

LEMMA AcquireEffect ==
  ASSUME SchedulerInv, NEW i \in Invocations, Acquire(i)
  PROVE  Executing' = Executing /\ Asking' = Asking \cup {i}
<1>1. Rescheduled({}, {i}, {})
  BY StateAssumption, AcquireIsRescheduled
<1> QED
  BY <1>1, RescheduleEffect

LEMMA ReleaseEffect ==
  ASSUME SchedulerInv, NEW i \in Invocations, NEW dropped \in SUBSET waiting, Release(i, dropped)
  PROVE  Executing' = Executing \ {i} /\ Asking' = Asking \ ({i} \cup dropped)
<1>1. Rescheduled({i}, {}, dropped)
  BY StateAssumption, ReleaseIsRescheduled
<1> QED
  BY <1>1, RescheduleEffect

(* An abort takes nobody's permit, and it leaves in the queue whoever is at *)
(* work and not aborted.                                                   *)
LEMMA DroppedNotAtWork ==
  ASSUME NEW f, NEW m
  PROVE  /\ Dropped(f, m) \in SUBSET waiting
         /\ \A c \in Invocations : m[c] = "working" /\ Signal(c) \cap f = {} => c \notin Dropped(f, m)
BY DEF Dropped

LEMMA FireEffect ==
  ASSUME SchedulerInv, NEW f, NEW m, Fire(f, m)
  PROVE  /\ fired' = fired \cup f
         /\ Executing' = Executing
         /\ Asking' \subseteq Asking
         /\ \A c \in Asking : m[c] = "working" /\ Signal(c) \cap fired' = {} => c \in Asking'
<1>1. fired' = fired \cup f
  BY DEF Fire
<1>2. PICK dropped \in SUBSET waiting :
         /\ dropped = Dropped(fired', m)
         /\ UNCHANGED schedulerVars \/ AbortWaiters(dropped)
  BY DroppedNotAtWork DEF Fire
<1>3. Asking \subseteq Invocations
  BY StateAssumption DEF Asking, SchedulerInv, SchedulerTypeOK
<1>4. \A c \in Invocations : m[c] = "working" /\ Signal(c) \cap fired' = {} => c \notin dropped
  BY <1>2, DroppedNotAtWork
<1>5. CASE UNCHANGED schedulerVars
  BY <1>1, <1>5, StutterEffect
<1>6. CASE AbortWaiters(dropped)
  <2>1. Rescheduled({}, {}, dropped)
    BY <1>6, AbortIsRescheduled
  <2>2. Executing' = Executing /\ Asking' = Asking \ dropped
    BY <2>1, RescheduleEffect
  <2> QED
    BY <1>1, <1>3, <1>4, <2>2
<1> QED
  BY <1>2, <1>5, <1>6

LEMMA FireAndReleaseEffect ==
  ASSUME SchedulerInv, NEW f, NEW m, NEW i \in Invocations, FireAndRelease(f, m, i)
  PROVE  /\ fired' = fired \cup f
         /\ Executing' = Executing \ {i}
         /\ Asking' \subseteq Asking
         /\ permit[i] = "held" => i \notin Asking'
         /\ \A c \in Asking \ {i} : m[c] = "working" /\ Signal(c) \cap fired' = {} => c \in Asking'
<1>1. CASE i \notin Holders
  <2>1. Fire(f, m) /\ i \notin Executing /\ permit[i] # "held"
    BY <1>1, StateAssumption DEF FireAndRelease, Holders, Executing
  <2> QED
    BY <2>1, FireEffect
<1>2. CASE i \in Holders
  <2>1. fired' = fired \cup f /\ Release(i, Dropped(fired', m))
    BY <1>2 DEF FireAndRelease
  <2>2. Dropped(fired', m) \in SUBSET waiting
    BY DroppedNotAtWork
  <2>3. Executing' = Executing \ {i} /\ Asking' = Asking \ ({i} \cup Dropped(fired', m))
    BY <2>1, <2>2, ReleaseEffect
  <2>4. \A c \in Invocations : m[c] = "working" /\ Signal(c) \cap fired' = {} => c \notin Dropped(fired', m)
    BY DroppedNotAtWork
  <2>5. Asking \subseteq Invocations
    BY StateAssumption DEF Asking, SchedulerInv, SchedulerTypeOK
  <2> QED
    BY <2>1, <2>3, <2>4, <2>5
<1> QED
  BY <1>1, <1>2

(* A job that leaves its place, under whatever aborts, keeps the others'    *)
(* places.                                                                 *)
LEMMA JobLeaves ==
  ASSUME StateTypeOK, ScopeInv, SlotInv, NEW i \in Invocations, NEW to,
         main' = [main EXCEPT ![i] = to], to # "working",
         UNCHANGED <<home, delegation, stage, owner, sources>>,
         fired \subseteq fired',
         Executing' \subseteq Executing, Executing \ {i} \subseteq Executing', Asking' \subseteq Asking,
         i \in Executing' => to \in AtWork,
         i \in Asking' => delegation[i] # NoScope /\ stage[delegation[i]] = "resuming",
         \A c \in Asking \ {i} : main'[c] = "working" /\ Signal(c) \cap fired' = {} => c \in Asking'
  PROVE  SlotInv'
<1>1. /\ home' = home /\ delegation' = delegation /\ stage' = stage /\ owner' = owner /\ sources' = sources
      /\ \A c \in Invocations : main'[c] = IF c = i THEN to ELSE main[c]
  BY DEF StateTypeOK
<1>2. \A c \in Invocations : /\ Aborted(c) => Aborted(c)'
                             /\ ~Aborted(c)' => Signal(c) \cap fired' = {}
  BY <1>1 DEF Aborted, Signal
<1>3. \A c \in Invocations : c \in Executing' => main'[c] \in AtWork /\ delegation'[c] = NoScope
  BY <1>1 DEF SlotInv
<1>4. \A c \in Invocations : c \in Asking' =>
          main'[c] = "queued" \/ (delegation'[c] # NoScope /\ stage'[delegation'[c]] = "resuming")
  BY <1>1 DEF SlotInv
<1>5. \A c \in Invocations : main'[c] = "working" /\ delegation'[c] = NoScope => c \in Executing' \/ Aborted(c)'
  BY <1>1, <1>2 DEF SlotInv
<1>6. ASSUME NEW s \in Scopes, (stage[s] = "resuming" /\ main[owner[s]] = "working")'
      PROVE  (owner[s] \in Asking \/ Aborted(owner[s]))'
  <2>1. stage[s] = "resuming" /\ owner[s] \in Invocations /\ owner'[s] = owner[s]
    BY <1>1, <1>6 DEF ScopeInv
  <2>2. main'[owner[s]] = "working" /\ owner[s] # i /\ main[owner[s]] = "working"
    BY <1>1, <1>6, <2>1
  <2>3. owner[s] \in Asking \/ Aborted(owner[s])
    BY <2>1, <2>2 DEF SlotInv
  <2>4. Aborted(owner[s])' \/ owner[s] \in Asking'
    <3>1. CASE Aborted(owner[s])
      BY <1>1, <2>1, <3>1 DEF Aborted, Signal
    <3>2. CASE owner[s] \in Asking /\ ~Aborted(owner[s])'
      <4>1. Signal(owner[s]) \cap fired' = {}
        BY <1>1, <2>1, <3>2 DEF Aborted, Signal
      <4> QED
        BY <2>2, <3>2, <4>1
    <3> QED
      BY <2>3, <3>1, <3>2
  <2> QED
    BY <2>1, <2>4
<1> QED
  BY <1>3, <1>4, <1>5, <1>6 DEF SlotInv

(* Who executes and who asks for a permit.                                 *)
LEMMA InvocationStepSlotInv ==
  ASSUME StateTypeOK, ScopeInv, SchedulerInv, SlotInv, NEW i \in Invocations, InvocationStep(i)
  PROVE  SlotInv'
<1> USE StateAssumption DEF StateTypeOK, identityVars, stateVars, ScopeInv, SlotInv,
         Active, AtWork, Joined, Pending, Joins, Job, ScopeClosed, Open, Live, Aborted, Signal, Idle, Asking, Executing
<1>1. ASSUME NEW s \in Scopes \cup {Root}, NEW r \in Reservations \cup {NoReservation}, CreateInvocation(i, s, r)
      PROVE  SlotInv'
  BY <1>1, StutterEffect DEF CreateInvocation
<1>2. CASE Run(i)
  BY <1>2, AcquireEffect DEF Run
<1>3. CASE RunRefused(i)
  BY <1>3, StutterEffect DEF RunRefused
<1>4. CASE AcquireRejected(i)
  BY <1>4, StutterEffect DEF AcquireRejected
<1>5. CASE JobRejected(i)
  <2>1. PICK f : Fire(f, main')
    BY <1>5 DEF JobRejected
  <2>2. /\ fired \subseteq fired'
        /\ Executing' \subseteq Executing /\ Executing \ {i} \subseteq Executing' /\ Asking' \subseteq Asking
        /\ \A c \in Asking \ {i} : main'[c] = "working" /\ Signal(c) \cap fired' = {} => c \in Asking'
    BY <2>1, FireEffect
  <2>3. /\ main' = [main EXCEPT ![i] = main'[i]] /\ main'[i] # "working"
        /\ UNCHANGED <<home, delegation, stage, owner, sources>>
    BY <1>5 DEF JobRejected
  <2>4. i \in Executing' => main'[i] \in AtWork
    BY <1>5, <2>2 DEF JobRejected
  <2>5. i \in Asking' => delegation[i] # NoScope /\ stage[delegation[i]] = "resuming"
    BY <1>5, <2>2 DEF JobRejected
  <2> HIDE DEF SlotInv, ScopeInv, StateTypeOK
  <2> QED
    BY <2>2, <2>3, <2>4, <2>5, JobLeaves
<1>6. CASE Start(i)
  BY <1>6, ActivateEffect DEF Start
<1>7. CASE StartRefused(i)
  <2>1. PICK f : FireAndRelease(f, main', i)
    BY <1>7 DEF StartRefused, Fail
  <2>2. /\ fired \subseteq fired'
        /\ Executing' \subseteq Executing /\ Executing \ {i} \subseteq Executing' /\ Asking' \subseteq Asking
        /\ permit[i] = "held" => i \notin Asking'
        /\ i \notin Executing'
        /\ \A c \in Asking \ {i} : main'[c] = "working" /\ Signal(c) \cap fired' = {} => c \in Asking'
    BY <2>1, FireAndReleaseEffect
  <2>3. /\ main' = [main EXCEPT ![i] = main'[i]] /\ main'[i] # "working"
        /\ UNCHANGED <<home, delegation, stage, owner, sources>>
    BY <1>7 DEF StartRefused, Fail
  <2>4. i \in Executing' => main'[i] \in AtWork
    BY <1>7, <2>2 DEF StartRefused, Fail
  <2>5. i \in Asking' => delegation[i] # NoScope /\ stage[delegation[i]] = "resuming"
    BY <1>7, <2>2 DEF StartRefused
  <2> HIDE DEF SlotInv, ScopeInv, StateTypeOK
  <2> QED
    BY <2>2, <2>3, <2>4, <2>5, JobLeaves
<1>8. ASSUME NEW s \in Scopes, WithChildren(i, s)
      PROVE  SlotInv'
  BY <1>8, ReleaseEffect DEF WithChildren
<1>9. CASE WorkReturns(i)
  <2>1. PICK f : Fire(f, main')
    BY <1>9 DEF WorkReturns
  <2>2. /\ fired \subseteq fired'
        /\ Executing' \subseteq Executing /\ Executing \ {i} \subseteq Executing' /\ Asking' \subseteq Asking
        /\ \A c \in Asking \ {i} : main'[c] = "working" /\ Signal(c) \cap fired' = {} => c \in Asking'
    BY <2>1, FireEffect
  <2>3. /\ main' = [main EXCEPT ![i] = main'[i]] /\ main'[i] # "working"
        /\ UNCHANGED <<home, delegation, stage, owner, sources>>
    BY <1>9 DEF WorkReturns
  <2>4. i \in Executing' => main'[i] \in AtWork
    BY <1>9, <2>2 DEF WorkReturns
  <2>5. i \in Asking' => delegation[i] # NoScope /\ stage[delegation[i]] = "resuming"
    BY <1>9, <2>2 DEF WorkReturns
  <2> HIDE DEF SlotInv, ScopeInv, StateTypeOK
  <2> QED
    BY <2>2, <2>3, <2>4, <2>5, JobLeaves
<1>10. CASE WorkThrows(i)
  <2>1. PICK f : Fire(f, main')
    BY <1>10 DEF WorkThrows
  <2>2. /\ fired \subseteq fired'
        /\ Executing' \subseteq Executing /\ Executing \ {i} \subseteq Executing' /\ Asking' \subseteq Asking
        /\ \A c \in Asking \ {i} : main'[c] = "working" /\ Signal(c) \cap fired' = {} => c \in Asking'
    BY <2>1, FireEffect
  <2>3. /\ main' = [main EXCEPT ![i] = main'[i]] /\ main'[i] # "working"
        /\ UNCHANGED <<home, delegation, stage, owner, sources>>
    BY <1>10 DEF WorkThrows
  <2>4. i \in Executing' => main'[i] \in AtWork
    BY <1>10, <2>2 DEF WorkThrows
  <2>5. i \in Asking' => delegation[i] # NoScope /\ stage[delegation[i]] = "resuming"
    BY <1>10, <2>2 DEF WorkThrows
  <2> HIDE DEF SlotInv, ScopeInv, StateTypeOK
  <2> QED
    BY <2>2, <2>3, <2>4, <2>5, JobLeaves
<1>11. CASE Finish(i)
  BY <1>11, FireAndReleaseEffect DEF Finish, Fail
<1> QED
  BY <1>1, <1>2, <1>3, <1>4, <1>5, <1>6, <1>7, <1>8, <1>9, <1>10, <1>11 DEF InvocationStep

LEMMA ScopeStepSlotInv ==
  ASSUME StateTypeOK, ScopeInv, SchedulerInv, SlotInv, NEW s \in Scopes, ScopeStep(s)
  PROVE  SlotInv'
<1> USE StateAssumption DEF StateTypeOK, identityVars, stateVars, ScopeInv, SlotInv,
         Active, AtWork, Joined, Pending, Joins, Job, ScopeClosed, Open, Live, Aborted, Signal, Idle, Asking, Executing
<1>1. ASSUME NEW threw \in BOOLEAN, ChildrenEnd(s, threw)
      PROVE  SlotInv'
  BY <1>1, FireEffect DEF ChildrenEnd
<1>2. CASE Drained(s)
  BY <1>2, AcquireEffect, StutterEffect DEF Drained, Settle
<1>3. CASE Resumed(s)
  BY <1>3, ActivateEffect, ReleaseEffect DEF Resumed, Settle
<1>4. CASE ResumeRejected(s)
  BY <1>4, StutterEffect DEF ResumeRejected, Settle
<1> QED
  BY <1>1, <1>2, <1>3, <1>4 DEF ScopeStep

LEMMA NextSlotInv ==
  ASSUME StateTypeOK, ScopeInv, SchedulerInv, SlotInv, [Next]_vars
  PROVE  SlotInv'
<1>1. ASSUME NEW close \in BOOLEAN, Abort(close) PROVE SlotInv'
  BY <1>1, FireEffect, StateAssumption DEF Abort, SlotInv, ScopeInv, StateTypeOK, Aborted, Signal, stateVars, identityVars
<1>2. CASE DeadlinePasses \/ Reservation \/ UNCHANGED vars
  BY <1>2, StutterEffect, StateAssumption DEF DeadlinePasses, Reservation, vars, SlotInv, ScopeInv, StateTypeOK, Aborted, Signal, stateVars, identityVars
<1> QED
  BY <1>1, <1>2, InvocationStepSlotInv, ScopeStepSlotInv DEF Next

-----------------------------------------------------------------------------
(* The inductive invariant.                                                *)
LEMMA InitInv ==
  Init => Inv
<1> SUFFICES ASSUME Init PROVE Inv
  OBVIOUS
<1> USE StateAssumption
<1>1. BudgetInv /\ SchedulerInv
  BY InitBudgetInv, InitSchedulerInv DEF Init
<1>2. StateTypeOK
  BY DEF Init, StateTypeOK, MainStates, StageStates, Controllers
<1>3. ScopeInv
  BY DEF Init, ScopeInv, Active, Joined, Pending
<1>4. SlotInv
  BY DEF Init, SchedulerInit, SlotInv, Executing, Asking
<1>5. FailureInv
  BY DEF Init, FailureInv
<1> QED
  BY <1>1, <1>2, <1>3, <1>4, <1>5 DEF Inv

LEMMA NextInv ==
  Inv /\ [Next]_vars => Inv'
BY NextBudget, NextScheduler, NextStateTypeOK, NextScopeInv, NextSlotInv, NextFailureInv DEF Inv

LEMMA SpecInv ==
  Spec => []Inv
BY InitInv, NextInv, PTL DEF Spec

(* Every variable of the execution owner keeps its type, and the ledger's   *)
(* and the queue's counters count what they should however invocations,     *)
(* delegations, failures and aborts interleave (execution-state.ts:111-219).*)
THEOREM TypeCorrect == Spec => []TypeOK
<1>1. Inv => TypeOK
  BY DEF Inv, TypeOK, BudgetInv, SchedulerInv
<1> QED
  BY <1>1, SpecInv, PTL

(* The owner drives the permit queue and the ledger only in ways that keep  *)
(* their invariants: the counters add up, no permit is unused while a       *)
(* client waits, and the cap holds.                                         *)
THEOREM LedgersCorrect == Spec => [](PermitLedger /\ WorkConserving /\ ReservationsAddUp /\ LaunchCap)
<1>1. Inv => PermitLedger /\ WorkConserving /\ ReservationsAddUp /\ LaunchCap
  BY DEF Inv, BudgetInv, SchedulerInv
<1> QED
  BY <1>1, SpecInv, PTL

(* Who has no permit and does not ask for one is out of the queue.          *)
LEMMA NoPermit ==
  ASSUME Inv, NEW i \in Invocations, i \notin Executing, i \notin Asking
  PROVE  permit[i] = "none" /\ i \notin waiting
BY StateAssumption DEF Inv, SchedulerInv, SchedulerTypeOK, PermitStates, Executing, Asking

(* A running slot belongs to exactly one callback that is at work and has   *)
(* no delegation open (execution-state.ts:150-163, 194-217).               *)
THEOREM SlotsDisciplined == Spec => []SlotDiscipline
<1>1. ASSUME Inv, NEW i \in Invocations
      PROVE  /\ permit[i] = "executing" => main[i] \in AtWork /\ delegation[i] = NoScope
             /\ main[i] = "working" /\ delegation[i] = NoScope /\ ~Aborted(i) => permit[i] = "executing"
             /\ main[i] \in Settled => permit[i] = "none" /\ i \notin waiting
  <2>1. permit[i] = "executing" <=> i \in Executing
    BY StateAssumption DEF Executing
  <2>2. ASSUME main[i] \in Settled PROVE i \notin Executing /\ i \notin Asking
    BY <1>1, <2>2 DEF Inv, SlotInv, ScopeInv, AtWork, Settled
  <2> QED
    BY <1>1, <2>1, <2>2, NoPermit DEF Inv, SlotInv
<1>2. Inv => SlotDiscipline
  BY <1>1 DEF SlotDiscipline, AtWork
<1> QED
  BY <1>2, SpecInv, PTL

(* withChildren() joins: a parent with a pending descendant holds no permit *)
(* and has not settled (execution-state.ts:194-217).                       *)
THEOREM ParentsJoin == Spec => []JoinBeforeResume
<1>1. ASSUME Inv, NEW i \in Invocations, main[i] \in Pending, home[i] # Root
      PROVE  /\ delegation[owner[home[i]]] = home[i]
             /\ permit[owner[home[i]]] = "none"
             /\ main[owner[home[i]]] \in AtWork
  <2>1. home[i] \in Scopes /\ stage[home[i]] \in {"children", "draining"}
    BY <1>1 DEF Inv, StateTypeOK, ScopeInv, Joined
  <2>2. PICK parent \in Invocations : parent = owner[home[i]]
    BY <2>1, <1>1 DEF Inv, ScopeInv
  <2>3. delegation[parent] = home[i] /\ delegation[parent] # NoScope
    BY <1>1, <2>1, <2>2, StateAssumption DEF Inv, ScopeInv, Active
  <2>4. main[parent] \in AtWork
    BY <1>1, <2>3 DEF Inv, ScopeInv
  <2>5. parent \notin Executing /\ parent \notin Asking
    BY <1>1, <2>1, <2>3, <2>4 DEF Inv, SlotInv, AtWork
  <2> QED
    BY <1>1, <2>2, <2>3, <2>4, <2>5, NoPermit
<1>2. Inv => JoinBeforeResume
  BY <1>1 DEF JoinBeforeResume, AtWork
<1> QED
  BY <1>2, SpecInv, PTL

(* A failed descendant makes its owner fail, whatever the owner's callback  *)
(* does with the rejection (execution-state.ts:165-189, 204-219).          *)
THEOREM FailuresFatal == Spec => []DescendantFailureFatal
<1>1. ASSUME Inv, NEW i \in Invocations, main[i] = "failed", home[i] # Root
      PROVE  main[owner[home[i]]] # "ok"
  <2>1. home[i] \in Scopes /\ stage[home[i]] # "unused"
    BY <1>1 DEF Inv, StateTypeOK, ScopeInv
  <2>2. PICK parent \in Invocations : parent = owner[home[i]]
    BY <2>1, <1>1 DEF Inv, ScopeInv
  <2>3. CASE stage[home[i]] \in {"resuming", "settled"}
    BY <1>1, <2>2, <2>3 DEF Inv, FailureInv
  <2>4. CASE stage[home[i]] \in {"children", "draining"}
    <3>1. delegation[parent] = home[i] /\ delegation[parent] # NoScope
      BY <1>1, <2>1, <2>2, <2>4, StateAssumption DEF Inv, ScopeInv, Active
    <3> QED
      BY <1>1, <2>2, <3>1 DEF Inv, ScopeInv, AtWork
  <2> QED
    BY <1>1, <2>1, <2>3, <2>4 DEF Inv, StateTypeOK, StageStates
<1>2. Inv => DescendantFailureFatal
  BY <1>1 DEF DescendantFailureFatal
<1> QED
  BY <1>2, SpecInv, PTL

-----------------------------------------------------------------------------
(* Only Start takes an invocation from the queue to its work.               *)
LEMMA OnlyStartLaunches ==
  ASSUME StateTypeOK, ScopeInv, Next, NEW i \in Invocations, main[i] = "queued", main'[i] = "working"
  PROVE  Start(i)
<1>1. ASSUME NEW j \in Invocations, InvocationStep(j) PROVE Start(i)
  <2> USE DEF StateTypeOK, stateVars
  <2>1. \A s, r : ~CreateInvocation(j, s, r)
    BY DEF CreateInvocation
  <2>2. ~(Run(j) \/ RunRefused(j) \/ AcquireRejected(j) \/ JobRejected(j))
    BY DEF Run, RunRefused, AcquireRejected, JobRejected
  <2>3. ~(StartRefused(j) \/ WorkReturns(j) \/ WorkThrows(j) \/ Finish(j))
    BY DEF StartRefused, Fail, WorkReturns, WorkThrows, Finish
  <2>4. \A s : ~WithChildren(j, s)
    BY DEF WithChildren
  <2>5. Start(j)
    BY <1>1, <2>1, <2>2, <2>3, <2>4 DEF InvocationStep
  <2> QED
    BY <2>5 DEF Start
<1>2. \A s \in Scopes : ~ScopeStep(s)
  BY DEF ScopeStep, ChildrenEnd, Drained, Resumed, ResumeRejected
<1>3. \A close \in BOOLEAN : ~Abort(close)
  BY DEF Abort
<1>4. ~(DeadlinePasses \/ Reservation)
  BY DEF DeadlinePasses, Reservation, stateVars
<1> QED
  BY <1>1, <1>2, <1>3, <1>4 DEF Next

(* A launch follows only scopes in which nothing failed, under an owner     *)
(* that was not stopped.                                                   *)
LEMMA LaunchIsSound ==
  ASSUME Inv, NEW i \in Invocations, Start(i), home[i] # Root
  PROVE  /\ \A j \in Job(home[i]) : main[j] \notin {"thrown", "failed"}
         /\ main[owner[home[i]]] \in {"working", "returned"}
<1>1. home[i] \in Scopes /\ stage[home[i]] \in {"children", "draining"} /\ main[i] = "queued"
  BY DEF Inv, StateTypeOK, ScopeInv, Start, Joined, Pending
<1>2. PICK parent \in Invocations : parent = owner[home[i]]
  BY <1>1 DEF Inv, ScopeInv
<1>3. home[i] \notin fired /\ parent \notin fired
  BY <1>1, <1>2 DEF Inv, ScopeInv, Start, Launchable, Live, ScopeAborted
<1>4. \A j \in Job(home[i]) : main[j] \notin {"thrown", "failed"}
  BY <1>1, <1>3, StateAssumption DEF Inv, FailureInv, Job
<1>5. delegation[parent] = home[i] /\ delegation[parent] # NoScope
  BY <1>1, <1>2, StateAssumption DEF Inv, ScopeInv, Active
<1>6. main[parent] \in AtWork /\ main[parent] # "thrown"
  BY <1>3, <1>5 DEF Inv, ScopeInv, FailureInv
<1> QED
  BY <1>2, <1>4, <1>6 DEF AtWork

(* The scope, the deadline and the ledger are read again after the await of *)
(* acquire(): a queued sibling of a failed job is never launched            *)
(* (execution-state.ts:127-134, 165-177).                                  *)
THEOREM NoLateLaunch == Spec => NoLaunchAfterFailure
<1> DEFINE Sound(i) == main[i] = "queued" /\ main'[i] = "working" /\ home[i] # Root =>
                           /\ \A j \in Job(home[i]) : main[j] \notin {"thrown", "failed"}
                           /\ main[owner[home[i]]] \in {"working", "returned"}
<1>1. Inv /\ [Next]_vars => [\A i \in Invocations : Sound(i)]_vars
  BY OnlyStartLaunches, LaunchIsSound DEF Inv
<1> HIDE DEF Sound
<1>2. Spec => [][\A i \in Invocations : Sound(i)]_vars
  BY <1>1, SpecInv, PTL DEF Spec
<1> QED
  BY <1>2 DEF NoLaunchAfterFailure, Sound

-----------------------------------------------------------------------------
(* Only a creation and a launch take a slot, and only reservations, replays *)
(* and launches touch the ledger's records.                                *)
LEMMA OthersTakeNothing ==
  ASSUME Inv, Next,
         \A i \in Invocations : ~Start(i),
         \A i \in Invocations, s \in Scopes \cup {Root}, r \in Reservations \cup {NoReservation} :
             ~CreateInvocation(i, s, r)
  PROVE  /\ \A i \in Invocations : ~TakesSlot(i)
         /\ Reservation \/ record' = record
<1>1. ASSUME NEW i \in Invocations PROVE ~(main[i] = "absent" /\ main'[i] = "replayed")
  <2>1. ASSUME NEW j \in Invocations, InvocationStep(j), main[i] = "absent", main'[i] = "replayed" PROVE FALSE
    <3>1. main \in [Invocations -> MainStates]
      BY DEF Inv, StateTypeOK
    <3>2. CASE Run(j) \/ RunRefused(j) \/ AcquireRejected(j) \/ JobRejected(j)
      BY <2>1, <3>1, <3>2 DEF Run, RunRefused, AcquireRejected, JobRejected
    <3>3. CASE StartRefused(j) \/ WorkReturns(j) \/ WorkThrows(j) \/ Finish(j)
      BY <2>1, <3>1, <3>3 DEF StartRefused, Fail, WorkReturns, WorkThrows, Finish
    <3>4. ASSUME NEW s \in Scopes, WithChildren(j, s) PROVE FALSE
      BY <2>1, <3>4 DEF WithChildren
    <3> QED
      BY <2>1, <3>2, <3>3, <3>4 DEF InvocationStep
  <2>2. (\E s \in Scopes : ScopeStep(s)) => main' = main
    BY DEF ScopeStep, ChildrenEnd, Drained, Resumed, ResumeRejected
  <2>3. (\E close \in BOOLEAN : Abort(close)) \/ DeadlinePasses \/ Reservation => main' = main
    BY DEF Abort, DeadlinePasses, Reservation, stateVars
  <2> QED
    BY <2>1, <2>2, <2>3 DEF Next
<1>2. \A i \in Invocations : ~TakesSlot(i)
  BY <1>1, OnlyStartLaunches DEF TakesSlot, Inv
<1>3. ASSUME NEW j \in Invocations, InvocationStep(j) PROVE record' = record
  <2>1. CASE Run(j) \/ RunRefused(j) \/ AcquireRejected(j) \/ JobRejected(j)
    BY <2>1 DEF Run, RunRefused, AcquireRejected, JobRejected, budgetVars
  <2>2. CASE StartRefused(j) \/ WorkReturns(j) \/ WorkThrows(j) \/ Finish(j)
    BY <2>2 DEF StartRefused, Fail, WorkReturns, WorkThrows, Finish, budgetVars
  <2>3. ASSUME NEW s \in Scopes, WithChildren(j, s) PROVE record' = record
    BY <2>3 DEF WithChildren, budgetVars
  <2> QED
    BY <1>3, <2>1, <2>2, <2>3 DEF InvocationStep
<1>4. (\E s \in Scopes : ScopeStep(s)) => record' = record
  BY DEF ScopeStep, ChildrenEnd, Drained, Resumed, ResumeRejected, budgetVars
<1>5. (\E close \in BOOLEAN : Abort(close)) \/ DeadlinePasses => record' = record
  BY DEF Abort, DeadlinePasses, budgetVars
<1> QED
  BY <1>2, <1>3, <1>4, <1>5 DEF Next

(* One slot of reservation q is consumed for invocation i, which it backs.  *)
LEMMA ConsumedByBacked ==
  ASSUME Inv, NEW i \in Invocations, NEW q \in Reservations, NEW r \in Reservations,
         Consume(q), backing'[i] = q, TakesSlot(i),
         \A j \in Invocations \ {i} : ~TakesSlot(j)
  PROVE  record[r].remaining - record'[r].remaining = Cardinality(TakenFrom(r))
<1>1. record \in [Reservations -> RecordType] /\ record[r].remaining \in Int
  BY BudgetAssumption DEF Inv, BudgetInv, BudgetTypeOK, RecordType
<1>2. CASE q = r
  <2>1. TakenFrom(r) = {i}
    BY <1>2 DEF TakenFrom
  <2>2. Cardinality(TakenFrom(r)) = 1
    BY <2>1, FS_Singleton
  <2>3. record'[r].remaining = record[r].remaining - 1
    BY <1>1, <1>2 DEF Consume, RecordType
  <2> QED
    BY <1>1, <2>2, <2>3
<1>3. CASE q # r
  <2>1. TakenFrom(r) = {}
    BY <1>3 DEF TakenFrom
  <2>2. Cardinality(TakenFrom(r)) = 0
    BY <2>1, FS_EmptySet
  <2>3. record'[r] = record[r]
    BY <1>1, <1>3 DEF Consume
  <2> QED
    BY <1>1, <2>2, <2>3
<1> QED
  BY <1>2, <1>3

(* Nobody takes a slot of r, and its record keeps its slots.               *)
LEMMA NothingConsumed ==
  ASSUME Inv, NEW r \in Reservations, record'[r].remaining = record[r].remaining,
         TakenFrom(r) = {}
  PROVE  record[r].remaining - record'[r].remaining = Cardinality(TakenFrom(r))
<1>1. record[r].remaining \in Int
  BY BudgetAssumption DEF Inv, BudgetInv, BudgetTypeOK, RecordType
<1>2. Cardinality(TakenFrom(r)) = 0
  BY FS_EmptySet
<1> QED
  BY <1>1, <1>2

LEMMA CreationTakes ==
  ASSUME Inv, NEW i \in Invocations, NEW s \in Scopes \cup {Root},
         NEW q \in Reservations \cup {NoReservation}, CreateInvocation(i, s, q), NEW r \in Reservations
  PROVE  record[r].remaining - record'[r].remaining = Cardinality(TakenFrom(r))
<1>1. /\ main \in [Invocations -> MainStates] /\ backing' = [backing EXCEPT ![i] = q]
      /\ backing \in [Invocations -> Reservations \cup {NoReservation}] /\ main[i] = "absent"
  BY DEF CreateInvocation, Inv, StateTypeOK
<1>2. \A j \in Invocations \ {i} : main'[j] = main[j] /\ ~TakesSlot(j)
  BY <1>1 DEF CreateInvocation, TakesSlot
<1>3. backing'[i] = q
  BY <1>1
<1>4. CASE AllocateFresh /\ main' = [main EXCEPT ![i] = "created"]
  <2>1. TakenFrom(r) = {}
    BY <1>1, <1>2, <1>4 DEF TakenFrom, TakesSlot
  <2>2. record'[r].remaining = record[r].remaining
    BY <1>4 DEF AllocateFresh
  <2> QED
    BY <2>1, <2>2, NothingConsumed
<1>5. CASE AllocateReplayed(q) /\ main' = [main EXCEPT ![i] = "replayed"]
  <2>1. CASE q = NoReservation
    <3>1. TakenFrom(r) = {}
      BY <1>2, <1>3, <2>1, BudgetAssumption DEF TakenFrom
    <3>2. record'[r].remaining = record[r].remaining
      BY <1>5, <2>1 DEF AllocateReplayed
    <3> QED
      BY <3>1, <3>2, NothingConsumed
  <2>2. CASE q # NoReservation
    <3>1. TakesSlot(i)
      BY <1>1, <1>5 DEF TakesSlot
    <3>2. q \in Reservations /\ Consume(q)
      BY <1>5, <2>2 DEF AllocateReplayed
    <3> QED
      BY <1>2, <1>3, <3>1, <3>2, ConsumedByBacked
  <2> QED
    BY <2>1, <2>2
<1> QED
  BY <1>4, <1>5 DEF CreateInvocation

LEMMA StartTakes ==
  ASSUME Inv, NEW i \in Invocations, Start(i), NEW r \in Reservations
  PROVE  record[r].remaining - record'[r].remaining = Cardinality(TakenFrom(r))
<1>1. /\ main \in [Invocations -> MainStates] /\ backing' = backing
      /\ main[i] = "queued" /\ main' = [main EXCEPT ![i] = "working"] /\ Charge(backing[i])
      /\ backing[i] \in Reservations \cup {NoReservation}
  BY DEF Start, Inv, StateTypeOK, identityVars
<1>2. \A j \in Invocations \ {i} : ~TakesSlot(j)
  BY <1>1 DEF TakesSlot
<1>3. CASE backing[i] = NoReservation
  <2>1. TakenFrom(r) = {}
    BY <1>1, <1>2, <1>3, BudgetAssumption DEF TakenFrom
  <2>2. record'[r].remaining = record[r].remaining
    BY <1>1, <1>3 DEF Charge
  <2> QED
    BY <2>1, <2>2, NothingConsumed
<1>4. CASE backing[i] # NoReservation
  <2>1. TakesSlot(i)
    BY <1>1 DEF TakesSlot
  <2>2. backing[i] \in Reservations /\ Consume(backing[i]) /\ backing'[i] = backing[i]
    BY <1>1, <1>4 DEF Charge
  <2> QED
    BY <1>2, <2>1, <2>2, ConsumedByBacked
<1> QED
  BY <1>3, <1>4

(* reserve() and release() leave the slots of other reservations, and the   *)
(* one they change was or is no longer active.                             *)
LEMMA ReservationTakes ==
  ASSUME Inv, Reservation, NEW r \in Reservations, record[r].active, record'[r].active,
         TakenFrom(r) = {}
  PROVE  record[r].remaining - record'[r].remaining = Cardinality(TakenFrom(r))
<1>1. record \in [Reservations -> RecordType]
  BY DEF Inv, BudgetInv, BudgetTypeOK
<1>2. ASSUME NEW q \in Reservations, NEW count \in 1..MaxCount, Reserve(q, count) PROVE record'[r] = record[r]
  BY <1>1, <1>2 DEF Reserve, Inv, BudgetInv, ActiveWasMade
<1>3. ASSUME NEW q \in Reservations, ReleaseReservation(q) PROVE record'[r] = record[r]
  BY <1>1, <1>3 DEF ReleaseReservation, RecordType
<1>4. record'[r] = record[r]
  BY <1>2, <1>3 DEF Reservation
<1> QED
  BY <1>4, NothingConsumed

(* A promised slot goes to an invocation its reservation backs, and stays   *)
(* for it when somebody else is launched (execution-budget.ts:36-42, 62-82, *)
(* execution-state.ts:78-82, 130).                                         *)
THEOREM PromiseKept == Spec => PromisedSlotsStay
<1> DEFINE Kept(r) == record[r].active /\ record'[r].active =>
                          record[r].remaining - record'[r].remaining = Cardinality(TakenFrom(r))
           Fitting == Capped /\ (\E i \in TakenFrom(NoReservation) : main'[i] = "working") =>
                          charged' + Cardinality(HeldSlots') <= TotalAgents
<1>1. ASSUME Inv, Next, NEW r \in Reservations PROVE Kept(r)
  <2>1. ASSUME NEW i \in Invocations, Start(i) PROVE Kept(r)
    BY <1>1, <2>1, StartTakes
  <2>2. ASSUME NEW i \in Invocations, NEW s \in Scopes \cup {Root},
               NEW q \in Reservations \cup {NoReservation}, CreateInvocation(i, s, q)
        PROVE  Kept(r)
    BY <1>1, <2>2, CreationTakes
  <2>3. ASSUME \A i \in Invocations : ~TakesSlot(i), Reservation \/ record' = record
        PROVE  Kept(r)
    <3>1. TakenFrom(r) = {}
      BY <2>3 DEF TakenFrom
    <3> QED
      BY <1>1, <2>3, <3>1, ReservationTakes, NothingConsumed
  <2> QED
    BY <1>1, <2>1, <2>2, <2>3, OthersTakeNothing
<1>2. Inv' => Fitting
  BY DEF Inv, BudgetInv, ReservationsAddUp, LaunchCap, Capped
<1>3. Inv /\ Inv' /\ [Next]_vars => [/\ \A r \in Reservations : Kept(r)
                                    /\ Fitting]_vars
  BY <1>1, <1>2
<1> HIDE DEF Kept, Fitting
<1>4. Spec => [][/\ \A r \in Reservations : Kept(r)
                 /\ Fitting]_vars
  BY <1>3, SpecInv, PTL DEF Spec
<1> QED
  BY <1>4 DEF PromisedSlotsStay, Kept, Fitting

-----------------------------------------------------------------------------
(***************************************************************************)

(* The execution owner implements AgentLaunches: under the invariant of     *)
(* the execution owner every step changes the status of at most one         *)
(* invocation, in a way AgentLaunches allows, or of none.                  *)
(***************************************************************************)

(* The refinement mapping.                                                 *)
StatusMap == [i \in Invocations |-> Status(i)]
ParentMap == [i \in Invocations |-> IF home[i] = Root THEN Root ELSE owner[home[i]]]

(* The status of an invocation is decided by main and by Executing.         *)
LEMMA StatusValues ==
  ASSUME Inv, NEW i \in Invocations
  PROVE  /\ main[i] = "absent" => Status(i) = "absent"
         /\ main[i] \in {"created", "queued", "rejecting", "stray"} => Status(i) = "waiting"
         /\ main[i] \in AtWork /\ i \in Executing => Status(i) = "executing"
         /\ main[i] \in AtWork /\ i \notin Executing => Status(i) = "yielded"
         /\ main[i] \in Settled => Status(i) = "ended"
<1>1. i \in Executing <=> permit[i] = "executing"
  BY StateAssumption DEF Executing
<1> QED
  BY <1>1 DEF Status, AtWork, Settled

LEMMA MainValues ==
  ASSUME Inv, NEW i \in Invocations
  PROVE  main[i] \in {"absent", "created", "queued", "rejecting", "stray"} \cup AtWork \cup Settled
BY DEF Inv, StateTypeOK, MainStates, Joined, Pending, AtWork

LEMMA ExecutingIsStatus ==
  ASSUME Inv
  PROVE  Launches!ExecutingAgents = Executing
<1>1. ASSUME NEW i \in Invocations PROVE i \in Executing <=> Status(i) = "executing"
  <2>1. i \in Executing => main[i] \in AtWork
    BY DEF Inv, SlotInv
  <2> QED
    BY <2>1, StatusValues, MainValues
<1> QED
  BY <1>1, StateAssumption DEF Launches!ExecutingAgents, Executing

(* Whose place and permit stay keeps its status.                           *)
LEMMA StatusStays ==
  ASSUME Inv, Inv', NEW j \in Invocations, main'[j] = main[j], j \in Executing' <=> j \in Executing
  PROVE  Status(j)' = Status(j)
<1>1. /\ j \in Executing <=> permit[j] = "executing"
      /\ j \in Executing' <=> permit'[j] = "executing"
  BY StateAssumption DEF Executing
<1> QED
  BY <1>1 DEF Status

LEMMA OneMoves ==
  ASSUME Inv, Inv', NEW i \in Invocations,
         \A j \in Invocations \ {i} : main'[j] = main[j] /\ (j \in Executing' <=> j \in Executing)
  PROVE  StatusMap' = [StatusMap EXCEPT ![i] = Status(i)']
BY StatusStays DEF StatusMap

LEMMA NobodyMoves ==
  ASSUME Inv, Inv', \A j \in Invocations : Status(j)' = Status(j), UNCHANGED <<home, owner, charged>>
  PROVE  UNCHANGED <<StatusMap, ParentMap, charged>>
BY DEF StatusMap, ParentMap

(* The owner of a scope in use has yielded.                                *)
LEMMA OwnerYielded ==
  ASSUME Inv, NEW s \in Scopes, stage[s] \in Active
  PROVE  owner[s] \in Invocations /\ delegation[owner[s]] = s /\ Status(owner[s]) = "yielded"
<1>1. owner[s] \in Invocations /\ delegation[owner[s]] = s /\ s # NoScope
  BY StateAssumption DEF Inv, ScopeInv, Active
<1>2. main[owner[s]] \in AtWork /\ owner[s] \notin Executing
  BY <1>1 DEF Inv, ScopeInv, SlotInv
<1> QED
  BY <1>1, <1>2, StatusValues

(* Who has no scope left to join has no descendant at work.                *)
LEMMA NoChildrenLeft ==
  ASSUME Inv, NEW i \in Invocations,
         delegation[i] # NoScope => stage[delegation[i]] = "resuming"
  PROVE  Launches!ChildrenEnded(i)
<1>1. ASSUME NEW j \in Invocations, ParentMap[j] = i PROVE Status(j) \notin {"executing", "yielded"}
  <2>1. home[j] \in Scopes /\ owner[home[j]] = i /\ home[j] # Root
    BY <1>1, StateAssumption DEF ParentMap, Inv, StateTypeOK
  <2>2. stage[home[j]] \notin {"children", "draining"}
    BY <2>1, StateAssumption DEF Inv, ScopeInv, Active
  <2>3. main[j] \notin AtWork
    BY <2>1, <2>2 DEF Inv, ScopeInv, Joined, Pending, AtWork
  <2> QED
    BY <2>3, StatusValues, MainValues
<1> QED
  BY <1>1 DEF Launches!ChildrenEnded, Launches!Running, ParentMap

(* A permit that is about to be activated leaves room to execute.          *)
LEMMA RoomToExecute ==
  ASSUME Inv, Inv', NEW i \in Invocations, Activate(i)
  PROVE  Cardinality(Launches!ExecutingAgents) < Concurrency
<1>1. active = Cardinality(Executing) /\ active \in 0..Concurrency
  BY DEF Inv, SchedulerInv, PermitLedger, SchedulerTypeOK
<1>2. active' = active + 1 /\ active' \in 0..Concurrency
  BY DEF Activate, Inv, SchedulerInv, SchedulerTypeOK
<1> QED
  BY <1>1, <1>2, ExecutingIsStatus, SchedulerAssumption

-----------------------------------------------------------------------------
(* The steps of an invocation.                                             *)
LEMMA CreateEnters ==
  ASSUME Inv, Inv', NEW i \in Invocations, NEW s \in Scopes \cup {Root},
         NEW r \in Reservations \cup {NoReservation}, CreateInvocation(i, s, r)
  PROVE  Launches!AbstractNext
<1> DEFINE p == IF s = Root THEN Root ELSE owner[s]
<1>1. /\ main[i] = "absent" /\ main'[i] \in {"created", "replayed"}
      /\ \A j \in Invocations \ {i} : main'[j] = main[j]
      /\ home' = [home EXCEPT ![i] = s] /\ home \in [Invocations -> Scopes \cup {Root}]
      /\ UNCHANGED <<schedulerVars, owner, charged>>
  BY DEF CreateInvocation, AllocateFresh, AllocateReplayed, Inv, StateTypeOK
<1>2. PICK how \in {"waiting", "ended"} : how = Status(i)' /\ Status(i) = "absent"
  BY <1>1, StatusValues DEF Status, Settled
<1>3. p = Root \/ (p \in Invocations /\ Status(p) = "yielded")
  BY OwnerYielded DEF CreateInvocation, Open, ScopeClosed, Active
<1>4. StatusMap' = [StatusMap EXCEPT ![i] = how]
  <2>1. Executing' = Executing
    BY <1>1, StutterEffect
  <2> QED
    BY <1>1, <1>2, <2>1, OneMoves
<1>5. ParentMap' = [ParentMap EXCEPT ![i] = p]
  BY <1>1 DEF ParentMap
<1>6. Launches!Enter(i, p, how)
  BY <1>1, <1>2, <1>3, <1>4, <1>5 DEF Launches!Enter, StatusMap, ParentMap
<1>7. p \in Invocations \cup {Root}
  BY <1>3
<1> HIDE DEF p
<1> QED
  BY <1>2, <1>6, <1>7 DEF Launches!AbstractNext

LEMMA StrictlyBelow ==
  ASSUME NEW a \in Nat, NEW b \in Nat, NEW c \in Nat, a + 1 + b <= c
  PROVE  a < c
OBVIOUS

LEMMA StartLaunches ==
  ASSUME Inv, Inv', NEW i \in Invocations, Start(i)
  PROVE  Launches!AbstractNext
<1>1. /\ main[i] = "queued" /\ main'[i] = "working"
      /\ \A j \in Invocations \ {i} : main'[j] = main[j]
      /\ UNCHANGED <<home, owner>>
  BY DEF Start, Inv, StateTypeOK, identityVars
<1>2. Executing' = Executing \cup {i}
  BY ActivateEffect DEF Start, Inv
<1>3. Status(i) = "waiting" /\ Status(i)' = "executing"
  <2>1. permit'[i] = "executing"
    BY <1>2, StateAssumption DEF Executing
  <2>2. Status(i)' = "executing"
    BY <1>1, <2>1 DEF Status, Settled
  <2> QED
    BY <1>1, <2>2, StatusValues
<1>4. StatusMap' = [StatusMap EXCEPT ![i] = "executing"] /\ ParentMap' = ParentMap
  BY <1>1, <1>2, <1>3, OneMoves DEF ParentMap
<1>5. ParentMap[i] = Root \/ StatusMap[ParentMap[i]] = "yielded"
  <2>1. CASE home[i] # Root
    <3>1. home[i] \in Scopes /\ stage[home[i]] \in Active
      BY <1>1, <2>1 DEF Inv, StateTypeOK, ScopeInv, Joined, Pending, Active
    <3> QED
      BY <2>1, <3>1, OwnerYielded DEF ParentMap, StatusMap
  <2> QED
    BY <2>1 DEF ParentMap
<1>6. charged' = charged + 1 /\ (TotalAgents # 0 => charged < TotalAgents)
  <2>1. charged' = charged + 1
    BY DEF Start, Charge
  <2>2. charged \in Nat /\ reserved' \in Nat /\ TotalAgents \in Nat
    BY BudgetAssumption DEF Inv, BudgetInv, BudgetTypeOK
  <2>3. TotalAgents # 0 => charged' + reserved' <= TotalAgents
    BY DEF Inv, BudgetInv, LaunchCap, Capped
  <2>4. ASSUME TotalAgents # 0 PROVE charged < TotalAgents
    <3>1. charged + 1 + reserved' <= TotalAgents
      BY <2>1, <2>3, <2>4
    <3> QED
      BY <2>2, <3>1, StrictlyBelow
  <2> QED
    BY <2>1, <2>4
<1>7. Launches!Cardinality(Launches!ExecutingAgents) < Concurrency
  BY RoomToExecute DEF Start, Launches!Cardinality, Cardinality
<1>8. Launches!Launch(i)
  BY <1>3, <1>4, <1>5, <1>6, <1>7 DEF Launches!Launch, StatusMap, ParentMap
<1> QED
  BY <1>8 DEF Launches!AbstractNext

(* What leaves the queue unlaunched is refused, what leaves its work ends.  *)
LEMMA LeaverEnds ==
  ASSUME Inv, Inv', NEW i \in Invocations,
         main[i] \in {"created", "queued", "rejecting", "stray"} \cup AtWork, main'[i] \in Settled,
         main[i] \in AtWork => delegation[i] = NoScope,
         \A j \in Invocations \ {i} : main'[j] = main[j] /\ (j \in Executing' <=> j \in Executing),
         UNCHANGED <<home, owner, charged>>
  PROVE  Launches!AbstractNext
<1>1. Status(i)' = "ended"
  BY DEF Status, Settled
<1>2. StatusMap' = [StatusMap EXCEPT ![i] = "ended"] /\ ParentMap' = ParentMap
  BY <1>1, OneMoves DEF ParentMap
<1>3. CASE main[i] \in AtWork
  <2>1. Status(i) \in {"executing", "yielded"} /\ Launches!ChildrenEnded(i)
    BY <1>3, StatusValues, NoChildrenLeft
  <2>2. Launches!End(i)
    BY <1>2, <2>1 DEF Launches!End, Launches!Move, Launches!Running, StatusMap, ParentMap
  <2> QED
    BY <2>2 DEF Launches!AbstractNext
<1>4. CASE main[i] \notin AtWork
  <2>1. Status(i) = "waiting"
    BY <1>4, StatusValues
  <2>2. Launches!Refuse(i)
    BY <1>2, <2>1 DEF Launches!Refuse, Launches!Move, StatusMap, ParentMap
  <2> QED
    BY <2>2 DEF Launches!AbstractNext
<1> QED
  BY <1>3, <1>4

LEMMA WithChildrenYields ==
  ASSUME Inv, Inv', NEW i \in Invocations, NEW s \in Scopes, WithChildren(i, s)
  PROVE  Launches!AbstractNext
<1>1. main[i] = "working" /\ main' = main /\ i \in Executing /\ UNCHANGED <<home, charged>>
  BY DEF WithChildren, Inv, SlotInv, identityVars, budgetVars
<1>2. Executing' = Executing \ {i}
  BY ReleaseEffect DEF WithChildren, Inv
<1>3. Status(i) = "executing" /\ Status(i)' = "yielded"
  <2>1. permit'[i] # "executing"
    BY <1>2, StateAssumption DEF Executing
  <2> QED
    BY <1>1, <2>1, StatusValues DEF Status, AtWork
<1>4. StatusMap' = [StatusMap EXCEPT ![i] = "yielded"]
  BY <1>1, <1>2, <1>3, OneMoves
<1>5. ParentMap' = ParentMap
  <2>1. \A j \in Invocations : home[j] # Root => home[j] # s /\ home[j] \in Scopes
    BY DEF WithChildren, Inv, ScopeInv, StateTypeOK
  <2>2. \A t \in Scopes \ {s} : owner'[t] = owner[t]
    BY DEF WithChildren, Inv, StateTypeOK
  <2> QED
    BY <1>1, <2>1, <2>2 DEF ParentMap
<1>6. Launches!Yield(i)
  BY <1>1, <1>3, <1>4, <1>5 DEF Launches!Yield, Launches!Move, StatusMap, ParentMap
<1> QED
  BY <1>6 DEF Launches!AbstractNext

(* A move within the queue or within the work shows nothing.               *)
LEMMA MoveIsInvisible ==
  ASSUME Inv, Inv', NEW i \in Invocations, Executing' = Executing,
         \/ {main[i], main'[i]} \subseteq {"created", "queued", "rejecting", "stray"}
         \/ {main[i], main'[i]} \subseteq AtWork,
         \A j \in Invocations \ {i} : main'[j] = main[j],
         UNCHANGED <<home, owner, charged>>
  PROVE  UNCHANGED <<StatusMap, ParentMap, charged>>
<1>1. i \in Executing' <=> i \in Executing
  OBVIOUS
<1>2. /\ i \in Executing <=> permit[i] = "executing"
      /\ i \in Executing' <=> permit'[i] = "executing"
  BY StateAssumption DEF Executing
<1>3. CASE {main[i], main'[i]} \subseteq {"created", "queued", "rejecting", "stray"}
  <2>1. Status(i)' = "waiting" /\ Status(i) = "waiting"
    BY <1>3 DEF Status, Settled
  <2> QED
    BY <2>1, StatusStays, NobodyMoves
<1>4. CASE {main[i], main'[i]} \subseteq AtWork
  <2>1. Status(i)' = Status(i)
    BY <1>1, <1>2, <1>4 DEF Status, AtWork, Settled
  <2> QED
    BY <2>1, StatusStays, NobodyMoves
<1> QED
  BY <1>3, <1>4

LEMMA InvocationStepSimulates ==
  ASSUME Inv, Inv', NEW i \in Invocations, InvocationStep(i)
  PROVE  Launches!AbstractNext \/ UNCHANGED <<StatusMap, ParentMap, charged>>
<1> DEFINE Quiet == UNCHANGED <<StatusMap, ParentMap, charged>>
<1>0. main \in [Invocations -> MainStates]
  BY DEF Inv, StateTypeOK
<1>1. ASSUME NEW s \in Scopes \cup {Root}, NEW r \in Reservations \cup {NoReservation}, CreateInvocation(i, s, r)
      PROVE  Launches!AbstractNext
  BY <1>1, CreateEnters
<1>2. CASE Run(i)
  <2>1. /\ main[i] = "created" /\ main'[i] = "queued" /\ Acquire(i)
        /\ \A j \in Invocations \ {i} : main'[j] = main[j]
        /\ UNCHANGED <<home, owner, charged>>
    BY <1>0, <1>2 DEF Run, budgetVars, identityVars
  <2>2. Executing' = Executing
    BY <2>1, AcquireEffect DEF Inv
  <2> QED
    BY <2>1, <2>2, MoveIsInvisible
<1>3. CASE RunRefused(i) \/ AcquireRejected(i)
  <2>1. /\ main[i] \in {"created", "queued"} /\ main'[i] \in {"rejecting", "stray"}
        /\ \A j \in Invocations \ {i} : main'[j] = main[j]
        /\ UNCHANGED schedulerVars /\ UNCHANGED <<home, owner, charged>>
    BY <1>0, <1>3 DEF RunRefused, AcquireRejected, budgetVars, identityVars
  <2>2. Executing' = Executing
    BY <2>1, StutterEffect
  <2> QED
    BY <2>1, <2>2, MoveIsInvisible
<1>4. CASE JobRejected(i)
  <2>1. /\ main[i] \in {"rejecting", "stray"} /\ main'[i] \in {"refused", "failed"}
        /\ \A j \in Invocations \ {i} : main'[j] = main[j]
        /\ UNCHANGED <<home, owner, charged>>
    BY <1>0, <1>4 DEF JobRejected, budgetVars, identityVars
  <2>2. Executing' = Executing
    BY <1>4, FireEffect DEF JobRejected, Inv
  <2> QED
    BY <2>1, <2>2, LeaverEnds DEF AtWork, Settled
<1>5. CASE Start(i)
  BY <1>5, StartLaunches
<1>6. CASE StartRefused(i) \/ Finish(i)
  <2>1. /\ main[i] = "queued" \/ (main[i] \in {"returned", "thrown"} /\ delegation[i] = NoScope)
        /\ main'[i] \in {"ok", "failed"}
        /\ \A j \in Invocations \ {i} : main'[j] = main[j]
        /\ UNCHANGED <<home, owner, charged>>
    BY <1>0, <1>6 DEF StartRefused, Finish, Fail, budgetVars, identityVars
  <2>2. Executing' = Executing \ {i}
    BY <1>6, FireAndReleaseEffect DEF StartRefused, Finish, Fail, Inv
  <2> QED
    BY <2>1, <2>2, LeaverEnds DEF AtWork, Settled
<1>7. ASSUME NEW s \in Scopes, WithChildren(i, s) PROVE Launches!AbstractNext
  BY <1>7, WithChildrenYields
<1>8. CASE WorkReturns(i) \/ WorkThrows(i)
  <2>1. /\ main[i] = "working" /\ main'[i] \in {"returned", "thrown"}
        /\ \A j \in Invocations \ {i} : main'[j] = main[j]
        /\ UNCHANGED <<home, owner, charged>>
    BY <1>0, <1>8 DEF WorkReturns, WorkThrows, budgetVars, identityVars
  <2>2. Executing' = Executing
    BY <1>8, FireEffect DEF WorkReturns, WorkThrows, Inv
  <2> QED
    BY <2>1, <2>2, MoveIsInvisible DEF AtWork
<1> QED
  BY <1>1, <1>2, <1>3, <1>4, <1>5, <1>6, <1>7, <1>8 DEF InvocationStep

-----------------------------------------------------------------------------
(* The steps of a scope, and of the root.                                  *)
LEMMA NobodyMovesAtAll ==
  ASSUME Inv, Inv', main' = main, Executing' = Executing, UNCHANGED <<home, owner, charged>>
  PROVE  UNCHANGED <<StatusMap, ParentMap, charged>>
BY StatusStays, NobodyMoves

LEMMA ResumedResumes ==
  ASSUME Inv, Inv', NEW s \in Scopes, Resumed(s)
  PROVE  Launches!AbstractNext \/ UNCHANGED <<StatusMap, ParentMap, charged>>
<1>1. /\ stage[s] = "resuming" /\ main' = main /\ UNCHANGED <<home, owner, charged>>
      /\ Activate(owner[s]) \/ Release(owner[s], {})
  BY DEF Resumed, budgetVars, identityVars
<1>2. PICK i \in Invocations : i = owner[s] /\ delegation[i] = s /\ Status(i) = "yielded"
  BY <1>1, OwnerYielded DEF Active
<1>3. i \notin Executing /\ main[i] \in AtWork
  BY <1>1, <1>2, StateAssumption DEF Inv, SlotInv, ScopeInv
<1>4. CASE Release(i, {})
  <2>1. Executing' = Executing
    BY <1>3, <1>4, ReleaseEffect DEF Inv
  <2> QED
    BY <1>1, <2>1, NobodyMovesAtAll
<1>5. CASE Activate(i)
  <2>1. Executing' = Executing \cup {i}
    BY <1>5, ActivateEffect DEF Inv
  <2>2. Status(i)' = "executing"
    <3>1. permit'[i] = "executing"
      BY <2>1, StateAssumption DEF Executing
    <3> QED
      BY <1>1, <1>3, <3>1 DEF Status, AtWork, Settled
  <2>3. StatusMap' = [StatusMap EXCEPT ![i] = "executing"] /\ ParentMap' = ParentMap
    BY <1>1, <2>1, <2>2, OneMoves DEF ParentMap
  <2>4. Launches!ChildrenEnded(i)
    BY <1>1, <1>2, NoChildrenLeft
  <2>5. Launches!Cardinality(Launches!ExecutingAgents) < Concurrency
    BY <1>5, RoomToExecute DEF Launches!Cardinality, Cardinality
  <2>6. Launches!Resume(i)
    BY <1>1, <1>2, <2>3, <2>4, <2>5 DEF Launches!Resume, Launches!Move, StatusMap, ParentMap
  <2> QED
    BY <2>6 DEF Launches!AbstractNext
<1> QED
  BY <1>1, <1>2, <1>4, <1>5

LEMMA ScopeStepSimulates ==
  ASSUME Inv, Inv', NEW s \in Scopes, ScopeStep(s)
  PROVE  Launches!AbstractNext \/ UNCHANGED <<StatusMap, ParentMap, charged>>
<1>1. ASSUME NEW threw \in BOOLEAN, ChildrenEnd(s, threw)
      PROVE  UNCHANGED <<StatusMap, ParentMap, charged>>
  <2>1. Executing' = Executing
    BY <1>1, FireEffect DEF ChildrenEnd, Inv
  <2> QED
    BY <1>1, <2>1, NobodyMovesAtAll DEF ChildrenEnd, budgetVars, identityVars
<1>2. CASE Drained(s)
  <2>1. owner[s] \in Invocations
    BY <1>2, OwnerYielded DEF Drained, Active
  <2>2. Executing' = Executing
    BY <1>2, <2>1, AcquireEffect, StutterEffect DEF Drained, Inv
  <2> QED
    BY <1>2, <2>2, NobodyMovesAtAll DEF Drained, budgetVars, identityVars
<1>3. CASE Resumed(s)
  BY <1>3, ResumedResumes
<1>4. CASE ResumeRejected(s)
  <2>1. Executing' = Executing
    BY <1>4, StutterEffect DEF ResumeRejected
  <2> QED
    BY <1>4, <2>1, NobodyMovesAtAll DEF ResumeRejected, budgetVars, identityVars
<1> QED
  BY <1>1, <1>2, <1>3, <1>4 DEF ScopeStep

LEMMA NextSimulates ==
  ASSUME Inv, Inv', [Next]_vars
  PROVE  Launches!AbstractNext \/ UNCHANGED <<StatusMap, ParentMap, charged>>
<1>1. ASSUME NEW close \in BOOLEAN, Abort(close)
      PROVE  UNCHANGED <<StatusMap, ParentMap, charged>>
  <2>1. Executing' = Executing
    BY <1>1, FireEffect DEF Abort, Inv
  <2> QED
    BY <1>1, <2>1, NobodyMovesAtAll DEF Abort, budgetVars, identityVars
<1>2. CASE DeadlinePasses \/ Reservation \/ UNCHANGED vars
  <2>1. /\ UNCHANGED schedulerVars
        /\ main' = main /\ UNCHANGED <<home, owner, charged>>
    BY <1>2 DEF DeadlinePasses, Reservation, Reserve, ReleaseReservation, vars, budgetVars, stateVars, identityVars
  <2>2. Executing' = Executing
    BY <2>1, StutterEffect
  <2> QED
    BY <2>1, <2>2, NobodyMovesAtAll
<1> QED
  BY <1>1, <1>2, InvocationStepSimulates, ScopeStepSimulates DEF Next

(* Queues, scopes, signals and the ledger together keep the promise of      *)
(* AgentLaunches: bounded, capped and structured launches                  *)
(* (execution-state.ts:111-219).                                           *)
THEOREM LaunchesImplemented == Spec => ImplementsAgentLaunches
<1>1. Init => Launches!AbstractInit
  <2> SUFFICES ASSUME Init PROVE Launches!AbstractInit
    OBVIOUS
  <2>1. Inv /\ \A i \in Invocations : main[i] = "absent"
    BY InitInv DEF Init
  <2>2. \A i \in Invocations : Status(i) = "absent"
    BY <2>1, StatusValues
  <2> QED
    BY <2>2 DEF Init, BudgetInit, Launches!AbstractInit
<1>2. Inv /\ Inv' /\ [Next]_vars => [Launches!AbstractNext]_(Launches!abstractVars)
  BY NextSimulates DEF Launches!abstractVars, StatusMap, ParentMap
<1> QED
  BY <1>1, <1>2, SpecInv, PTL DEF Spec, ImplementsAgentLaunches, Launches!AbstractSpec
=============================================================================
