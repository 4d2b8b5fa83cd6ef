------------------------- MODULE ExecutionBudget -------------------------
(***************************************************************************)
(* The physical-launch ledger of one root execution                        *)
(* (extensions/_shared/runtime/execution-budget.ts).                       *)
(*                                                                         *)
(* A root may be capped at TotalAgents launches.  A caller may set slots    *)
(* aside with a reservation before it starts; every launch is charged once, *)
(* either to a reservation or to the unreserved rest of the cap, and a      *)
(* replayed call takes a sequence number without a charge.                  *)
(***************************************************************************)
EXTENDS Integers, FiniteSets

CONSTANTS Reservations,   \* the reservation objects the ledger may hand out
          TotalAgents,    \* options.totalAgents; 0 when the option is absent
          MaxCount,       \* bound: the largest count one reserve() asks for
          MaxSequence,    \* bound: the identities one root allocates
          NoReservation   \* the absent reservation argument

ASSUME BudgetAssumption ==
    /\ TotalAgents \in Nat
    /\ MaxCount \in Nat \ {0}
    /\ MaxSequence \in Nat
    /\ IsFiniteSet(Reservations)
    /\ NoReservation \notin Reservations

VARIABLES sequence,   \* identities allocated so far
          charged,    \* launches charged
          replayed,   \* replayed identities
          reserved,   \* slots set aside in active reservations
          record      \* the private record behind each reservation object

budgetVars == <<sequence, charged, replayed, reserved, record>>

Capped == TotalAgents # 0

RecordType == [made: BOOLEAN, active: BOOLEAN, remaining: 0..MaxCount]

BudgetTypeOK ==
    /\ sequence \in 0..MaxSequence
    /\ charged \in Nat
    /\ replayed \in Nat
    /\ reserved \in Nat
    /\ record \in [Reservations -> RecordType]

BudgetInit ==
    /\ sequence = 0
    /\ charged = 0
    /\ replayed = 0
    /\ reserved = 0
    /\ record = [r \in Reservations |-> [made |-> FALSE, active |-> FALSE, remaining |-> 0]]

-----------------------------------------------------------------------------
Fits(count) == Capped => count <= TotalAgents - charged - reserved

(* reserve(): sets count slots aside, or is refused by the cap.            *)
Reserve(r, count) ==
    /\ ~record[r].made
    /\ Fits(count)
    /\ record' = [record EXCEPT ![r] = [made |-> TRUE, active |-> TRUE, remaining |-> count]]
    /\ reserved' = reserved + count
    /\ UNCHANGED <<sequence, charged, replayed>>

(* release(): returns what is left; a second release changes nothing.      *)
ReleaseReservation(r) ==
    /\ record[r].active
    /\ reserved' = reserved - record[r].remaining
    /\ record' = [record EXCEPT ![r].remaining = 0, ![r].active = FALSE]
    /\ UNCHANGED <<sequence, charged, replayed>>

Consumable(r) == record[r].active /\ record[r].remaining >= 1

(* consume(): one slot leaves the reservation and the shared counter.      *)
Consume(r) ==
    /\ record' = [record EXCEPT ![r].remaining = @ - 1]
    /\ reserved' = reserved - 1

(* allocate("fresh"): an identity before queueing, without a charge.        *)
AllocateFresh ==
    /\ sequence < MaxSequence
    /\ sequence' = sequence + 1
    /\ UNCHANGED <<charged, replayed, reserved, record>>

(* allocate("replayed"): a replayed call uses up its reserved slot.         *)
AllocateReplayed(r) ==
    /\ sequence < MaxSequence
    /\ sequence' = sequence + 1
    /\ replayed' = replayed + 1
    /\ IF r = NoReservation THEN UNCHANGED <<record, reserved>>
                            ELSE Consumable(r) /\ Consume(r)
    /\ UNCHANGED charged

(* Mutant: an unreserved charge ignores the slots set aside for others.    *)
ChargeableIgnoringReserved(r) ==
    IF r = NoReservation THEN Capped => charged < TotalAgents ELSE Consumable(r)

(* charge() is refused when the reservation is spent, or when the rest of   *)
(* the cap is charged or set aside.                                        *)
Chargeable(r) ==
    IF r = NoReservation THEN Capped => charged + reserved < TotalAgents ELSE Consumable(r)

(* Mutant: the reservation of the call is lost before the charge.           *)
ChargeUnbacked(r) ==
    /\ Chargeable(r)
    /\ charged' = charged + 1
    /\ UNCHANGED <<sequence, replayed, reserved, record>>

Charge(r) ==
    /\ Chargeable(r)
    /\ charged' = charged + 1
    /\ IF r = NoReservation THEN UNCHANGED <<record, reserved>> ELSE Consume(r)
    /\ UNCHANGED <<sequence, replayed>>

-----------------------------------------------------------------------------
(* On its own the ledger is driven by any order of calls; a charge follows *)
(* the allocation of its identity, so at most `sequence` calls are charged *)
(* or replayed.                                                            *)
ChargeAllocated(r) == charged + replayed < sequence /\ Charge(r)

BudgetNext ==
    \/ \E r \in Reservations, count \in 1..MaxCount : Reserve(r, count)
    \/ \E r \in Reservations : ReleaseReservation(r)
    \/ AllocateFresh
    \/ \E r \in Reservations \cup {NoReservation} : AllocateReplayed(r)
    \/ \E r \in Reservations \cup {NoReservation} : ChargeAllocated(r)

BudgetSpec == BudgetInit /\ [][BudgetNext]_budgetVars

-----------------------------------------------------------------------------
(* The slots set aside, one pair per slot: reservation r holds the pairs    *)
(* <<r, 1>> .. <<r, remaining>>.                                            *)
HeldSlots == {s \in Reservations \X (1..MaxCount) : s[2] <= record[s[1]].remaining}

(* The shared counter is what the active reservations still hold, and a     *)
(* released one holds nothing.  A drift either leaks launch slots for the   *)
(* rest of the run or lets a run exceed its cap.                            *)
ReservationsAddUp ==
    /\ reserved = Cardinality(HeldSlots)
    /\ \A r \in Reservations : record[r].remaining > 0 => record[r].active

(* The cap is never overdrawn: what was launched and what was promised to   *)
(* a reservation fit into it together, so a promised slot is always there.  *)
LaunchCap == Capped => charged + reserved <= TotalAgents
=============================================================================
