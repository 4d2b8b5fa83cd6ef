------------------------ MODULE AgentSession_proofs ------------------------
(***************************************************************************)
(* Proofs about child agents, for every set of calls, rows and turns.       *)
(*                                                                         *)
(* A step moves one call, or aborts several.  What the invariant says of a  *)
(* call speaks of that call and its row only, and the store lets no call    *)
(* write a row that is another's, so that the calls which do not move keep  *)
(* what was true of them.                                                  *)
(***************************************************************************)
EXTENDS AgentSession, TLAPS

Statuses == {"absent", "queued", "working", "done", "cancelled", "error"}
Stores ==
    [Rows -> [execution : Calls \cup {None}, status : Statuses, model : BOOLEAN,
              cancel : Calls \cup {None}, input : Calls \cup {None}]]

Owners == {None, "run", "call-timeout", "ask-failed"}
Results == {"completed", "failed", "cancelled", "blocked"}
Verdicts == Results \cup {"call-timeout", "ask-failed", "storage-failed", "refused"}
Outcomes == {None, "completed", "failed", "cancelled"}
Settling == {"stopping", "halting", "finishing", "closing"}

AgentTypeOK ==
    /\ at \in [Calls -> Awaits \cup {"idle", "returned"}]
    /\ child \in [Calls -> {"none", "created", "prompted", "streaming", "steered", "ended", "gone"}]
    /\ turn \in [Calls -> 0..MaxTurns]
    /\ ran \subseteq Calls /\ executed \subseteq Calls /\ aborted \subseteq Calls
    /\ owner \in [Calls -> Owners]
    /\ outcome \in [Calls -> Outcomes]
    /\ envelope \in [Calls -> Verdicts \cup {None, "unwritten"}]
    /\ verdict \in [Calls -> Verdicts \cup {None}]
    /\ ask \in [Calls -> {"none", "shown", "over"}]
    /\ runStopped \in BOOLEAN
    /\ store \in Stores
    /\ held \in Calls \cup {None}

\* What is local to a call: who may own it, what it has settled on, and on what evidence.
CallInv(c) ==
    /\ ask[c] # "none" => c \in Asking
    /\ c \in Tasks => owner[c] = None
    /\ outcome[c] # None <=> at[c] \in Settling
    /\ outcome[c] = "completed" => c \in ran
    /\ outcome[c] = "cancelled" => c \in aborted
    /\ child[c] \in {"streaming", "steered", "ended"} => c \in ran
    /\ at[c] # "returned" => envelope[c] = None
    /\ at[c] \in {"idle", "resolving", "creating", "admitting"} => turn[c] = 0
    /\ at[c] = "resolving" => c \in Tasks

\* Its row: a final row names a model only if it ran, and input reaches a child that is driven.
RowInv(c) ==
    /\ Owns(store, c) /\ at[c] = "closing" /\ store[RowOf[c]].model => c \in executed
    /\ store[RowOf[c]].input = c => Driving(c)

AgentInv == AgentTypeOK /\ \A c \in Calls : CallInv(c) /\ RowInv(c)

LEMMA InitAgents == AgentInit => AgentInv
<1> SUFFICES ASSUME AgentInit PROVE AgentInv
  OBVIOUS
<1>1. 0 \in 0..MaxTurns /\ None \notin Calls /\ RowOf \in [Calls -> Rows]
  BY CallsAssumption, RowsAssumption
<1>2. store \in Stores /\ \A r \in Rows : store[r].input = None /\ store[r].execution = None
  BY DEF AgentInit, EmptyStore, NoRow, Stores, Statuses
<1>3. AgentTypeOK
  BY <1>1, <1>2 DEF AgentInit, AgentTypeOK, Owners, Outcomes
<1>4. \A c \in Calls : CallInv(c)
  BY CallsAssumption DEF AgentInit, CallInv, Settling
<1>5. \A c \in Calls : RowInv(c)
  BY <1>1, <1>2 DEF RowInv, Owns
<1> QED
  BY <1>3, <1>4, <1>5 DEF AgentInv

-----------------------------------------------------------------------------
(* The store                                                               *)

\* What a write may do to the row of another call: take it over, and never more.
Others(c, old, new) ==
    \A d \in Calls \ {c} :
       /\ Owns(new, d) => Owns(old, d) /\ new[RowOf[d]].model = old[RowOf[d]].model
       /\ new[RowOf[d]].input = d => old[RowOf[d]].input = d

LEMMA OthersTransitive ==
  ASSUME NEW c \in Calls, NEW a, NEW b, NEW d, Others(c, a, b), Others(c, b, d)
  PROVE  Others(c, a, d)
BY DEF Others

LEMMA OthersReflexive == \A c \in Calls : \A a : Others(c, a, a)
BY DEF Others

\* A write through the handle of c changes the row that c owns, or nothing.
LEMMA WriteFacts ==
  ASSUME NEW st \in Stores, NEW c \in Calls,
         NEW row \in [execution : Calls \cup {None}, status : Statuses, model : BOOLEAN,
                      cancel : Calls \cup {None}, input : Calls \cup {None}],
         row.execution = st[RowOf[c]].execution, row.input \in {st[RowOf[c]].input, c}
  PROVE  /\ Write(st, c, row) \in Stores
         /\ Others(c, st, Write(st, c, row))
         /\ Owns(Write(st, c, row), c) <=> Owns(st, c)
         /\ Owns(st, c) => Write(st, c, row)[RowOf[c]] = row
         /\ ~Owns(st, c) => Write(st, c, row) = st
<1>0. RowOf \in [Calls -> Rows]
  BY RowsAssumption
<1>1. CASE ~Owns(st, c)
  BY <1>1, OthersReflexive DEF Write
<1>2. CASE Owns(st, c)
  <2> DEFINE new == [st EXCEPT ![RowOf[c]] = row]
  <2>1. Write(st, c, row) = new
    BY <1>2 DEF Write
  <2>2. new \in Stores /\ new[RowOf[c]] = row /\ \A r \in Rows \ {RowOf[c]} : new[r] = st[r]
    BY <1>0 DEF Stores
  <2>3. \A d \in Calls \ {c} : RowOf[d] = RowOf[c] => ~Owns(st, d) /\ ~Owns(new, d)
    BY <1>2, <2>2 DEF Owns
  <2>4. Others(c, st, new)
    <3> SUFFICES ASSUME NEW d \in Calls \ {c}
                 PROVE  /\ Owns(new, d) => Owns(st, d) /\ new[RowOf[d]].model = st[RowOf[d]].model
                        /\ new[RowOf[d]].input = d => st[RowOf[d]].input = d
      BY DEF Others
    <3>1. CASE RowOf[d] = RowOf[c]
      BY <2>2, <2>3, <3>1
    <3>2. CASE RowOf[d] # RowOf[c]
      BY <1>0, <2>2, <3>2 DEF Owns
    <3> QED
      BY <3>1, <3>2
  <2> QED
    BY <1>2, <2>1, <2>2, <2>4 DEF Owns
<1> QED
  BY <1>1, <1>2

LEMMA PatchFacts ==
  ASSUME NEW st \in Stores, NEW c \in Calls, NEW s \in Statuses
  PROVE  /\ PatchExecution(st, c, s) \in Stores
         /\ Others(c, st, PatchExecution(st, c, s))
         /\ Owns(PatchExecution(st, c, s), c) =>
               /\ Owns(st, c)
               /\ PatchExecution(st, c, s)[RowOf[c]].status = s
               /\ PatchExecution(st, c, s)[RowOf[c]].model = st[RowOf[c]].model
         /\ PatchExecution(st, c, s)[RowOf[c]].input = st[RowOf[c]].input
<1> DEFINE row == [st[RowOf[c]] EXCEPT !.status = s]
<1>0. RowOf[c] \in Rows
  BY RowsAssumption
<1>1. /\ row \in [execution : Calls \cup {None}, status : Statuses, model : BOOLEAN,
                  cancel : Calls \cup {None}, input : Calls \cup {None}]
      /\ row.execution = st[RowOf[c]].execution /\ row.input = st[RowOf[c]].input
      /\ row.status = s /\ row.model = st[RowOf[c]].model
  BY <1>0 DEF Stores
<1>2. PatchExecution(st, c, s) = Write(st, c, row)
  BY DEF PatchExecution
<1> HIDE DEF row
<1> QED
  BY <1>1, <1>2, WriteFacts

LEMMA PatchWithoutReadbackFacts ==
  ASSUME NEW st \in Stores, NEW c \in Calls, NEW s \in Statuses
  PROVE  /\ PatchExecutionWithoutReadback(st, c, s) \in Stores
         /\ Others(c, st, PatchExecutionWithoutReadback(st, c, s))
         /\ Owns(PatchExecutionWithoutReadback(st, c, s), c) =>
               /\ Owns(st, c)
               /\ PatchExecutionWithoutReadback(st, c, s)[RowOf[c]].status = s
               /\ ~PatchExecutionWithoutReadback(st, c, s)[RowOf[c]].model
         /\ PatchExecutionWithoutReadback(st, c, s)[RowOf[c]].input = st[RowOf[c]].input
<1> DEFINE row == [st[RowOf[c]] EXCEPT !.status = s, !.model = FALSE]
<1>0. RowOf[c] \in Rows
  BY RowsAssumption
<1>1. /\ row \in [execution : Calls \cup {None}, status : Statuses, model : BOOLEAN,
                  cancel : Calls \cup {None}, input : Calls \cup {None}]
      /\ row.execution = st[RowOf[c]].execution /\ row.input = st[RowOf[c]].input
      /\ row.status = s /\ row.model = FALSE
  BY <1>0 DEF Stores
<1>2. PatchExecutionWithoutReadback(st, c, s) = Write(st, c, row)
  BY DEF PatchExecutionWithoutReadback
<1> HIDE DEF row
<1> QED
  BY <1>1, <1>2, WriteFacts

LEMMA PatchTerminalFacts ==
  ASSUME NEW st \in Stores, NEW c \in Calls, NEW s \in Statuses
  PROVE  /\ PatchTerminalRow(st, c, s) \in Stores
         /\ Others(c, st, PatchTerminalRow(st, c, s))
         /\ Owns(PatchTerminalRow(st, c, s), c) =>
               /\ Owns(st, c)
               /\ PatchTerminalRow(st, c, s)[RowOf[c]].status = s
               /\ PatchTerminalRow(st, c, s)[RowOf[c]].model => c \in executed
         /\ PatchTerminalRow(st, c, s)[RowOf[c]].input = st[RowOf[c]].input
<1>1. CASE c \in executed
  BY <1>1, PatchFacts DEF PatchTerminalRow
<1>2. CASE c \notin executed
  BY <1>2, PatchWithoutReadbackFacts DEF PatchTerminalRow
<1> QED
  BY <1>1, <1>2

LEMMA RegisterCancelFacts ==
  ASSUME NEW st \in Stores, NEW c \in Calls
  PROVE  /\ RegisterCancel(st, c) \in Stores
         /\ Others(c, st, RegisterCancel(st, c))
         /\ RegisterCancel(st, c)[RowOf[c]].input = st[RowOf[c]].input
<1> DEFINE row == [st[RowOf[c]] EXCEPT !.cancel = c]
<1>0. RowOf[c] \in Rows
  BY RowsAssumption
<1>1. /\ row \in [execution : Calls \cup {None}, status : Statuses, model : BOOLEAN,
                  cancel : Calls \cup {None}, input : Calls \cup {None}]
      /\ row.execution = st[RowOf[c]].execution /\ row.input = st[RowOf[c]].input
  BY <1>0 DEF Stores
<1>2. RegisterCancel(st, c) = Write(st, c, row)
  BY DEF RegisterCancel
<1> HIDE DEF row
<1> QED
  BY <1>1, <1>2, WriteFacts

LEMMA RegisterInputFacts ==
  ASSUME NEW st \in Stores, NEW c \in Calls
  PROVE  RegisterInput(st, c) \in Stores /\ Others(c, st, RegisterInput(st, c))
<1> DEFINE row == [st[RowOf[c]] EXCEPT !.input = c]
<1>0. RowOf[c] \in Rows
  BY RowsAssumption
<1>1. /\ row \in [execution : Calls \cup {None}, status : Statuses, model : BOOLEAN,
                  cancel : Calls \cup {None}, input : Calls \cup {None}]
      /\ row.execution = st[RowOf[c]].execution /\ row.input = c
  BY <1>0 DEF Stores
<1>2. RegisterInput(st, c) = Write(st, c, row)
  BY DEF RegisterInput
<1> HIDE DEF row
<1> QED
  BY <1>1, <1>2, WriteFacts

LEMMA BeginFacts ==
  ASSUME NEW st \in Stores, NEW c \in Calls
  PROVE  /\ BeginExecution(st, c) \in Stores
         /\ Others(c, st, BeginExecution(st, c))
         /\ BeginExecution(st, c)[RowOf[c]].input = None
<1> DEFINE row == [NoRow EXCEPT !.execution = c, !.status = "queued", !.model = TRUE]
<1>0. RowOf \in [Calls -> Rows] /\ None \notin Calls
  BY RowsAssumption
<1>1. /\ row \in [execution : Calls \cup {None}, status : Statuses, model : BOOLEAN,
                  cancel : Calls \cup {None}, input : Calls \cup {None}]
      /\ row.execution = c /\ row.input = None
  BY DEF NoRow, Statuses
<1>2. BeginExecution(st, c) = [st EXCEPT ![RowOf[c]] = row]
  BY DEF BeginExecution
<1> HIDE DEF row
<1>3. /\ BeginExecution(st, c) \in Stores /\ BeginExecution(st, c)[RowOf[c]] = row
      /\ \A r \in Rows \ {RowOf[c]} : BeginExecution(st, c)[r] = st[r]
  BY <1>0, <1>1, <1>2 DEF Stores
<1>4. Others(c, st, BeginExecution(st, c))
  <2> SUFFICES ASSUME NEW d \in Calls \ {c}
               PROVE  /\ Owns(BeginExecution(st, c), d) =>
                           Owns(st, d) /\ BeginExecution(st, c)[RowOf[d]].model = st[RowOf[d]].model
                      /\ BeginExecution(st, c)[RowOf[d]].input = d => st[RowOf[d]].input = d
    BY DEF Others
  <2>1. CASE RowOf[d] = RowOf[c]
    BY <1>0, <1>1, <1>3, <2>1 DEF Owns
  <2>2. CASE RowOf[d] # RowOf[c]
    BY <1>0, <1>3, <2>2 DEF Owns
  <2> QED
    BY <2>1, <2>2
<1> QED
  BY <1>1, <1>3, <1>4

LEMMA UnregisterCancelFacts ==
  ASSUME NEW st \in Stores, NEW c \in Calls
  PROVE  /\ UnregisterCancel(st, c) \in Stores
         /\ \A r \in Rows : /\ UnregisterCancel(st, c)[r].execution = st[r].execution
                            /\ UnregisterCancel(st, c)[r].model = st[r].model
                            /\ UnregisterCancel(st, c)[r].input = st[r].input
<1> DEFINE row == [st[RowOf[c]] EXCEPT !.cancel = None]
<1>0. RowOf[c] \in Rows
  BY RowsAssumption
<1>1. /\ row \in [execution : Calls \cup {None}, status : Statuses, model : BOOLEAN,
                  cancel : Calls \cup {None}, input : Calls \cup {None}]
      /\ row.execution = st[RowOf[c]].execution /\ row.input = st[RowOf[c]].input
      /\ row.model = st[RowOf[c]].model
  BY <1>0 DEF Stores
<1>2. UnregisterCancel(st, c) = IF st[RowOf[c]].cancel = c THEN [st EXCEPT ![RowOf[c]] = row] ELSE st
  BY DEF UnregisterCancel
<1> HIDE DEF row
<1> QED
  BY <1>0, <1>1, <1>2 DEF Stores

LEMMA UnregisterInputsFacts ==
  ASSUME NEW st \in Stores, NEW cs \in SUBSET Calls
  PROVE  /\ UnregisterInputs(st, cs) \in Stores
         /\ \A r \in Rows : /\ UnregisterInputs(st, cs)[r].execution = st[r].execution
                            /\ UnregisterInputs(st, cs)[r].model = st[r].model
                            /\ UnregisterInputs(st, cs)[r].input =
                                  IF st[r].input \in cs THEN None ELSE st[r].input
<1>1. \A r \in Rows :
         /\ [st[r] EXCEPT !.input = None] \in
               [execution : Calls \cup {None}, status : Statuses, model : BOOLEAN,
                cancel : Calls \cup {None}, input : Calls \cup {None}]
         /\ [st[r] EXCEPT !.input = None].execution = st[r].execution
         /\ [st[r] EXCEPT !.input = None].model = st[r].model
         /\ [st[r] EXCEPT !.input = None].input = None
  BY DEF Stores
<1>2. UnregisterInputs(st, cs) =
        [r \in Rows |-> IF st[r].input \in cs THEN [st[r] EXCEPT !.input = None] ELSE st[r]]
  BY DEF UnregisterInputs
<1> QED
  BY <1>1, <1>2 DEF Stores

-----------------------------------------------------------------------------
(* What one call does                                                      *)

\* The part of VerdictStands that is about one call.
Verdict(c) ==
    /\ Live(c)' /\ owner[c] # None => owner'[c] = owner[c]
    /\ Live(c) /\ at'[c] = "returned" =>
         /\ {owner[c], verdict'[c]} \cap {"call-timeout", "ask-failed"} # {} => verdict'[c] = owner[c]
         /\ verdict'[c] = "completed" => c \in ran
         /\ verdict'[c] = "cancelled" => c \in aborted
         /\ envelope'[c] \in {None, "unwritten", verdict'[c]}
         /\ Owns(store', c) =>
              /\ store'[RowOf[c]].model => c \in executed
              /\ c \in Tasks => store'[RowOf[c]].status = StatusOf(verdict'[c])

Untouched(d) ==
    /\ at'[d] = at[d] /\ child'[d] = child[d] /\ turn'[d] = turn[d] /\ owner'[d] = owner[d]
    /\ outcome'[d] = outcome[d] /\ envelope'[d] = envelope[d] /\ ask'[d] = ask[d]
    /\ d \in ran' <=> d \in ran
    /\ d \in executed' <=> d \in executed
    /\ d \in aborted' <=> d \in aborted

NotSteered(c) == child'[c] = "steered" => child[c] = "steered"

\* A step of c alone.
Effect(c) ==
    /\ AgentTypeOK'
    /\ \A d \in Calls \ {c} : Untouched(d)
    /\ Others(c, store, store')
    /\ CallInv(c)' /\ RowInv(c)'
    /\ Verdict(c) /\ NotSteered(c)

LEMMA EffectKeeps ==
  ASSUME AgentInv, NEW c \in Calls, Effect(c)
  PROVE  AgentInv' /\ \A d \in Calls : Verdict(d) /\ NotSteered(d)
<1>1. ASSUME NEW d \in Calls \ {c}
      PROVE  CallInv(d)' /\ RowInv(d)' /\ Verdict(d) /\ NotSteered(d)
  <2>1. Untouched(d) /\ CallInv(d) /\ RowInv(d) /\ AgentTypeOK
    BY <1>1 DEF Effect, AgentInv
  <2>2. CallInv(d)'
    BY <2>1 DEF Untouched, CallInv
  <2>3. /\ Owns(store', d) => Owns(store, d) /\ store'[RowOf[d]].model = store[RowOf[d]].model
        /\ store'[RowOf[d]].input = d => store[RowOf[d]].input = d
    BY <1>1 DEF Effect, Others
  <2>4. RowInv(d)'
    BY <2>1, <2>3 DEF Untouched, RowInv, Driving, Owns
  <2>5. Verdict(d)
    BY <2>1 DEF Untouched, Verdict, Live, Awaits
  <2>6. NotSteered(d)
    BY <2>1 DEF Untouched, NotSteered
  <2> QED
    BY <2>2, <2>4, <2>5, <2>6
<1> QED
  BY <1>1 DEF Effect, AgentInv

\* The result a call is given: an abort the bridge names, or what the host reports.
LEMMA GivenFacts ==
  ASSUME NEW c \in Calls, NEW result \in Results, NEW own \in Owners, NEW stored \in BOOLEAN
  PROVE  LET given == Given(c, Finalized(result, own), stored, own)
         IN  /\ given \in Verdicts /\ StatusOf(given) \in Statuses
             /\ Finalized(result, own) \in Verdicts
             /\ stored => Finalized(result, own) = given
             /\ given \in {"call-timeout", "ask-failed"} \/ own \in {"call-timeout", "ask-failed"} => given = own
             /\ given \in {"completed", "cancelled"} => result = given
BY CallsAssumption DEF Given, Finalized, Named, Results, Verdicts, StatusOf, Statuses

LEMMA DepartEffect ==
  ASSUME AgentInv, NEW c \in Calls, NEW result \in Results, NEW own \in Owners, NEW rows \in Stores,
         own = owner[c] \/ (c \in Tasks /\ own = None) \/ ~Live(c),
         result = "completed" => c \in ran, result = "cancelled" => c \in aborted \/ ~Live(c),
         Others(c, store, rows), rows[RowOf[c]].input # c,
         Live(c) /\ Owns(rows, c) /\ rows[RowOf[c]].model => c \in executed,
         Depart(c, result, own, rows)
  PROVE  Effect(c)
<1>t. AgentTypeOK /\ CallInv(c) /\ RowOf \in [Calls -> Rows] /\ None \notin Calls
  BY RowsAssumption DEF AgentInv
<1> PICK stored \in BOOLEAN :
         LET final == Finalized(result, own)
             given == Given(c, final, stored, own)
             left == UnregisterCancel(rows, c)
         IN  /\ envelope' = [envelope EXCEPT ![c] = IF stored THEN final ELSE "unwritten"]
             /\ verdict' = [verdict EXCEPT ![c] = given]
             /\ store' = IF c \in Tasks THEN PatchExecution(left, c, StatusOf(given)) ELSE left
  BY DEF Depart
<1> DEFINE given == Given(c, Finalized(result, own), stored, own)
           left == UnregisterCancel(rows, c)
<1>g. /\ given \in Verdicts /\ StatusOf(given) \in Statuses /\ Finalized(result, own) \in Verdicts
      /\ stored => Finalized(result, own) = given
      /\ given \in {"call-timeout", "ask-failed"} \/ own \in {"call-timeout", "ask-failed"} => given = own
      /\ given \in {"completed", "cancelled"} => result = given
  BY GivenFacts
<1>d. /\ at' = [at EXCEPT ![c] = "returned"] /\ outcome' = [outcome EXCEPT ![c] = None]
      /\ child' = [child EXCEPT ![c] = IF @ = "none" THEN @ ELSE "gone"]
      /\ turn' = [turn EXCEPT ![c] = 0]
      /\ ran' = ran \ {c} /\ executed' = executed \ {c} /\ aborted' = aborted \ {c}
      /\ owner' = [owner EXCEPT ![c] = None] /\ ask' = [ask EXCEPT ![c] = "none"]
      /\ UNCHANGED <<runStopped, held>>
  BY DEF Depart, Goes, Decides
<1>e. envelope' = [envelope EXCEPT ![c] = IF stored THEN given ELSE "unwritten"] /\ verdict' = [verdict EXCEPT ![c] = given]
  BY <1>g
<1>l. /\ left \in Stores
      /\ \A r \in Rows : left[r].execution = rows[r].execution /\ left[r].model = rows[r].model /\ left[r].input = rows[r].input
  BY UnregisterCancelFacts
<1>s. store' = IF c \in Tasks THEN PatchExecution(left, c, StatusOf(given)) ELSE left
  OBVIOUS
<1> HIDE DEF given, left
<1>1. Others(c, rows, left) /\ (Owns(left, c) => Owns(rows, c)) /\ left[RowOf[c]].input # c
  BY <1>t, <1>l DEF Others, Owns
<1>2. /\ store' \in Stores /\ Others(c, left, store') /\ store'[RowOf[c]].input # c
      /\ Owns(store', c) => /\ Owns(left, c) /\ store'[RowOf[c]].model = left[RowOf[c]].model
                            /\ c \in Tasks => store'[RowOf[c]].status = StatusOf(given)
  BY <1>g, <1>l, <1>s, <1>1, PatchFacts, OthersReflexive
<1>3. Others(c, store, store')
  BY <1>1, <1>2, OthersTransitive
<1>4. AgentTypeOK'
  <2>1. at' \in [Calls -> Awaits \cup {"idle", "returned"}] /\ outcome' \in [Calls -> Outcomes]
    BY <1>t, <1>d DEF AgentTypeOK, Outcomes
  <2>2. /\ child' \in [Calls -> {"none", "created", "prompted", "streaming", "steered", "ended", "gone"}]
        /\ ask' \in [Calls -> {"none", "shown", "over"}] /\ owner' \in [Calls -> Owners]
    BY <1>t, <1>d DEF AgentTypeOK, Owners
  <2>3. turn' \in [Calls -> 0..MaxTurns]
    BY <1>t, <1>d, CallsAssumption DEF AgentTypeOK
  <2>4. envelope' \in [Calls -> Verdicts \cup {None, "unwritten"}] /\ verdict' \in [Calls -> Verdicts \cup {None}]
    BY <1>t, <1>e, <1>g DEF AgentTypeOK
  <2> QED
    BY <1>t, <1>d, <1>2, <2>1, <2>2, <2>3, <2>4 DEF AgentTypeOK
<1>5. \A d \in Calls \ {c} : Untouched(d)
  BY <1>t, <1>d, <1>e DEF AgentTypeOK, Untouched
<1>6. CallInv(c)'
  BY <1>t, <1>d, CallsAssumption DEF AgentTypeOK, CallInv, Settling
<1>7. RowInv(c)'
  BY <1>t, <1>d, <1>2 DEF AgentTypeOK, RowInv
<1>8. Verdict(c)
  <2>1. at'[c] = "returned" /\ verdict'[c] = given /\ envelope'[c] \in {"unwritten", given}
    BY <1>t, <1>d, <1>e DEF AgentTypeOK
  <2>2. Live(c) /\ {owner[c], given} \cap {"call-timeout", "ask-failed"} # {} => given = owner[c]
    BY <1>t, <1>g, CallsAssumption DEF CallInv
  <2>3. Live(c) => (given = "completed" => c \in ran) /\ (given = "cancelled" => c \in aborted)
    BY <1>g
  <2>4. Live(c) /\ Owns(store', c) =>
          /\ store'[RowOf[c]].model => c \in executed
          /\ c \in Tasks => store'[RowOf[c]].status = StatusOf(given)
    BY <1>t, <1>l, <1>1, <1>2
  <2> QED
    BY <2>1, <2>2, <2>3, <2>4 DEF Verdict, Live, Awaits
<1>9. NotSteered(c)
  BY <1>t, <1>d DEF AgentTypeOK, NotSteered
<1> QED
  BY <1>3, <1>4, <1>5, <1>6, <1>7, <1>8, <1>9 DEF Effect

\* A call that does not return goes on to another await, on the evidence it has by then.
Advances(c, to, kid, n, out) ==
    /\ at' = [at EXCEPT ![c] = to] /\ child' = [child EXCEPT ![c] = kid]
    /\ turn' = [turn EXCEPT ![c] = n] /\ outcome' = [outcome EXCEPT ![c] = out]
    /\ ran' \in {ran, ran \cup {c}} /\ executed' \in {executed, executed \cup {c}}
    /\ ask' \in {ask, [ask EXCEPT ![c] = "over"]} \/ (ask' = [ask EXCEPT ![c] = "shown"] /\ c \in Asking)
    /\ UNCHANGED <<aborted, owner, envelope, verdict, runStopped, held>>

Earned(c, to, kid, n, out) ==
    /\ at[c] # "returned" /\ to \in Awaits
    /\ kid \in {"none", "created", "prompted", "streaming", "steered", "ended", "gone"}
    /\ n \in 0..MaxTurns /\ out \in Outcomes
    /\ out # None <=> to \in Settling
    /\ out = "completed" => c \in ran'
    /\ out = "cancelled" => c \in aborted
    /\ kid \in {"streaming", "steered", "ended"} => c \in ran'
    /\ to \in {"idle", "resolving", "creating", "admitting"} => n = 0
    /\ to = "resolving" => c \in Tasks
    /\ kid = "steered" => child[c] = "steered"
    /\ ask[c] = "none" => ask'[c] = "none" \/ c \in Asking

LEMMA AdvanceEffect ==
  ASSUME AgentInv, NEW c \in Calls, NEW to, NEW kid, NEW n, NEW out,
         Advances(c, to, kid, n, out), Earned(c, to, kid, n, out),
         store' \in Stores, Others(c, store, store'), RowInv(c)'
  PROVE  Effect(c)
<1>t. AgentTypeOK /\ CallInv(c)
  BY DEF AgentInv
<1>1. AgentTypeOK'
  <2>1. at' \in [Calls -> Awaits \cup {"idle", "returned"}] /\ outcome' \in [Calls -> Outcomes]
    BY <1>t DEF AgentTypeOK, Advances, Earned
  <2>2. child' \in [Calls -> {"none", "created", "prompted", "streaming", "steered", "ended", "gone"}]
    BY <1>t DEF AgentTypeOK, Advances, Earned
  <2>3. turn' \in [Calls -> 0..MaxTurns]
    BY <1>t DEF AgentTypeOK, Advances, Earned
  <2>4. ask' \in [Calls -> {"none", "shown", "over"}]
    BY <1>t DEF AgentTypeOK, Advances
  <2>5. ran' \subseteq Calls /\ executed' \subseteq Calls
    BY <1>t DEF AgentTypeOK, Advances
  <2>6. aborted' = aborted /\ owner' = owner /\ envelope' = envelope /\ verdict' = verdict /\ runStopped' = runStopped /\ held' = held
    BY DEF Advances
  <2> QED
    BY <1>t, <2>1, <2>2, <2>3, <2>4, <2>5, <2>6 DEF AgentTypeOK
<1>2. ASSUME NEW d \in Calls \ {c} PROVE Untouched(d)
  BY <1>t DEF AgentTypeOK, Advances, Untouched
<1>3. /\ at'[c] = to /\ child'[c] = kid /\ turn'[c] = n /\ outcome'[c] = out
      /\ ask'[c] # "none" => c \in Asking
  BY <1>t DEF AgentTypeOK, Advances, Earned, CallInv
<1>4. CallInv(c)'
  BY <1>t, <1>3 DEF Advances, Earned, CallInv
<1>5. Verdict(c) /\ NotSteered(c)
  BY <1>3 DEF Advances, Earned, Verdict, NotSteered, Awaits
<1> QED
  BY <1>1, <1>2, <1>4, <1>5 DEF Effect

\* A step that leaves the call where it is, in a variable.
LEMMA Stays ==
  ASSUME AgentTypeOK, NEW c \in Calls
  PROVE  /\ at' = at => at' = [at EXCEPT ![c] = at[c]]
         /\ child' = child => child' = [child EXCEPT ![c] = child[c]]
         /\ turn' = turn => turn' = [turn EXCEPT ![c] = turn[c]]
         /\ outcome' = outcome => outcome' = [outcome EXCEPT ![c] = outcome[c]]
BY DEF AgentTypeOK

LEMMA NoInput ==
  ASSUME AgentInv, NEW c \in Calls, ~Driving(c)
  PROVE  store[RowOf[c]].input # c
BY DEF AgentInv, RowInv

LEMMA WithoutInputFacts ==
  ASSUME AgentTypeOK, NEW c \in Calls
  PROVE  /\ WithoutInput(c) \in Stores /\ Others(c, store, WithoutInput(c))
         /\ WithoutInput(c)[RowOf[c]].input # c
<1>0. RowOf \in [Calls -> Rows] /\ None \notin Calls /\ store \in Stores
  BY RowsAssumption DEF AgentTypeOK
<1>1. /\ WithoutInput(c) \in Stores
      /\ \A r \in Rows : /\ WithoutInput(c)[r].execution = store[r].execution
                         /\ WithoutInput(c)[r].model = store[r].model
                         /\ WithoutInput(c)[r].input = IF store[r].input \in {c} THEN None ELSE store[r].input
  BY <1>0, UnregisterInputsFacts DEF WithoutInput
<1> QED
  BY <1>0, <1>1 DEF Others, Owns

LEMMA PromptEffect ==
  ASSUME AgentInv, NEW c \in Calls, NEW rows \in Stores, Others(c, store, rows),
         Prompt(c, rows), outcome' = outcome, outcome[c] = None,
         turn[c] < MaxTurns, at[c] # "returned",
         ran' = ran, executed' \in {executed, executed \cup {c}},
         UNCHANGED <<aborted, owner, envelope, verdict, ask, runStopped, held>>
  PROVE  Effect(c)
<1>t. AgentTypeOK /\ turn[c] \in 0..MaxTurns /\ MaxTurns \in Nat
  BY CallsAssumption DEF AgentInv, AgentTypeOK
<1>1. Advances(c, "driving", "prompted", turn[c] + 1, None)
  BY <1>t, Stays DEF Prompt, Goes, Advances
<1>2. turn[c] + 1 \in 0..MaxTurns
  BY <1>t
<1>3. Earned(c, "driving", "prompted", turn[c] + 1, None)
  BY <1>1, <1>2, CallsAssumption DEF Earned, Awaits, Outcomes, Settling
<1>4. store' \in Stores /\ Others(c, store, store')
  BY RegisterInputFacts, OthersTransitive DEF Prompt
<1>5. RowInv(c)'
  BY <1>t DEF Prompt, Goes, RowInv, Driving, AgentTypeOK
<1> QED
  BY <1>1, <1>3, <1>4, <1>5, AdvanceEffect

LEMMA StopTurnEffect ==
  ASSUME AgentInv, NEW c \in Calls, Driving(c), NEW out \in {"failed", "cancelled"},
         out = "cancelled" => c \in aborted, StopTurn(c, out),
         UNCHANGED <<ran, aborted, owner, envelope, verdict, ask, runStopped, held>>
  PROVE  Effect(c)
<1>t. AgentTypeOK /\ CallInv(c)
  BY DEF AgentInv
<1> DEFINE settled == IF c \in aborted THEN "cancelled" ELSE out
<1>1. Advances(c, "stopping", child[c], turn[c], settled)
  BY <1>t, Stays DEF StopTurn, Goes, Decides, TurnOver, Advances
<1>2. Earned(c, "stopping", child[c], turn[c], settled)
  BY <1>t, CallsAssumption DEF Earned, CallInv, AgentTypeOK, Driving, Awaits, Outcomes, Settling
<1>3. store' \in Stores /\ Others(c, store, store') /\ store'[RowOf[c]].input # c
  BY <1>t, WithoutInputFacts DEF StopTurn
<1>4. RowInv(c)'
  BY <1>t, <1>3 DEF StopTurn, Goes, RowInv, AgentTypeOK
<1> QED
  BY <1>1, <1>2, <1>3, <1>4, AdvanceEffect

LEMMA EnterEffect ==
  ASSUME AgentInv, NEW c \in Calls, NEW stopped \in BOOLEAN, NEW own \in Owners, NEW rows \in Stores,
         at[c] \in {"idle", "resolving"}, own = owner[c] \/ (c \in Tasks /\ own = None) \/ ~Live(c),
         stopped => c \in aborted \/ ~Live(c),
         Others(c, store, rows), rows[RowOf[c]].input # c,
         Enter(c, stopped, own, rows)
  PROVE  Effect(c)
<1>t. AgentTypeOK /\ CallInv(c)
  BY DEF AgentInv
<1>1. CASE stopped
  <2> DEFINE patched == PatchExecutionWithoutReadback(rows, c, "cancelled")
  <2>1. /\ patched \in Stores /\ Others(c, rows, patched) /\ patched[RowOf[c]].input # c
        /\ Owns(patched, c) => ~patched[RowOf[c]].model
    BY PatchWithoutReadbackFacts DEF Statuses
  <2>2. Others(c, store, patched)
    BY <2>1, OthersTransitive
  <2>3. Depart(c, "cancelled", own, patched)
    BY <1>1 DEF Enter
  <2> HIDE DEF patched
  <2> QED
    BY <1>1, <2>1, <2>2, <2>3, DepartEffect DEF Results
<1>2. CASE ~stopped
  <2>1. Advances(c, "creating", child[c], turn[c], outcome[c])
    BY <1>2, <1>t, Stays DEF Enter, Goes, Advances
  <2>2. Earned(c, "creating", child[c], turn[c], outcome[c])
    BY <1>2, <1>t DEF Enter, Earned, CallInv, AgentTypeOK, Awaits, Settling
  <2>3. store' \in Stores /\ Others(c, store, store') /\ store'[RowOf[c]].input # c
    BY <1>2, RegisterCancelFacts, OthersTransitive DEF Enter
  <2>4. RowInv(c)'
    BY <1>t, <2>1, <2>3 DEF Advances, RowInv, AgentTypeOK
  <2> QED
    BY <2>1, <2>2, <2>3, <2>4, AdvanceEffect
<1> QED
  BY <1>1, <1>2

LEMMA RefuseEffect == ASSUME AgentInv, NEW c \in Calls, Refuse(c) PROVE Effect(c)
<1>t. AgentTypeOK /\ CallInv(c) /\ at[c] = "idle"
  BY DEF AgentInv, Refuse, Uncalled
<1>1. AgentTypeOK'
  <2>1. at' \in [Calls -> Awaits \cup {"idle", "returned"}]
    BY <1>t DEF AgentTypeOK, Refuse, Goes
  <2>2. verdict' \in [Calls -> Verdicts \cup {None}]
    BY <1>t DEF AgentTypeOK, Refuse, Verdicts
  <2> QED
    BY <1>t, <2>1, <2>2 DEF AgentTypeOK, Refuse
<1>2. /\ at'[c] = "returned" /\ \A d \in Calls \ {c} : at'[d] = at[d]
      /\ UNCHANGED <<child, turn, ran, executed, aborted, owner, outcome, envelope, ask, store>>
  BY <1>t DEF AgentTypeOK, Refuse, Goes
<1>3. (\A d \in Calls \ {c} : Untouched(d)) /\ NotSteered(c) /\ Others(c, store, store')
  BY <1>2, OthersReflexive DEF Untouched, NotSteered
<1>4. CallInv(c)'
  BY <1>t, <1>2 DEF CallInv, Settling
<1>5. RowInv(c)'
  BY <1>t, <1>2, NoInput DEF RowInv, Driving
<1>6. Verdict(c)
  BY <1>t, <1>2 DEF Verdict, Live, Awaits
<1> QED
  BY <1>1, <1>3, <1>4, <1>5, <1>6 DEF Effect

LEMMA CallEffect == ASSUME AgentInv, NEW c \in Calls, Call(c) PROVE Effect(c)
<1>1. AgentTypeOK /\ store \in Stores /\ runStopped \in BOOLEAN /\ None \notin Calls
  BY RowsAssumption DEF AgentInv, AgentTypeOK
<1>2. at[c] = "idle" /\ ~Live(c) /\ Enter(c, runStopped, "run", BeginExecution(store, c))
  BY DEF Call, Uncalled, Live, Awaits
<1>3. /\ BeginExecution(store, c) \in Stores /\ Others(c, store, BeginExecution(store, c))
      /\ BeginExecution(store, c)[RowOf[c]].input # c
  BY <1>1, BeginFacts
<1> QED
  BY <1>1, <1>2, <1>3, EnterEffect DEF Owners

LEMMA CallTaskEffect == ASSUME AgentInv, NEW c \in Calls, CallTask(c) PROVE Effect(c)
<1>t. AgentTypeOK /\ CallInv(c) /\ at[c] = "idle" /\ None \notin Calls /\ store \in Stores
  BY RowsAssumption DEF AgentInv, AgentTypeOK, CallTask, Uncalled
<1>1. Advances(c, "resolving", child[c], turn[c], outcome[c])
  BY <1>t, Stays DEF CallTask, Goes, Advances
<1>2. Earned(c, "resolving", child[c], turn[c], outcome[c])
  BY <1>t DEF CallTask, Earned, CallInv, AgentTypeOK, Awaits, Settling
<1>3. store' \in Stores /\ Others(c, store, store') /\ store'[RowOf[c]].input # c
  BY <1>t, BeginFacts DEF CallTask
<1>4. RowInv(c)'
  BY <1>t, <1>1, <1>3 DEF Advances, RowInv, AgentTypeOK
<1> QED
  BY <1>1, <1>2, <1>3, <1>4, AdvanceEffect

LEMMA ResolveEffect == ASSUME AgentInv, NEW c \in Calls, Resolve(c) PROVE Effect(c)
<1>t. /\ AgentTypeOK /\ CallInv(c) /\ at[c] = "resolving" /\ c \in Tasks /\ store \in Stores
      /\ store[RowOf[c]].input # c /\ owner[c] = None
  BY NoInput DEF AgentInv, AgentTypeOK, Resolve, CallInv, Driving
<1>1. CASE Enter(c, c \in aborted, None, store)
  <2> DEFINE stopped == c \in aborted
  <2>1. stopped \in BOOLEAN /\ (stopped => c \in aborted) /\ Enter(c, stopped, None, store) /\ None \in Owners
    BY <1>1 DEF Owners
  <2> HIDE DEF stopped
  <2> QED
    BY <1>t, <2>1, OthersReflexive, EnterEffect
<1>2. CASE /\ Goes(c, "returned")
           /\ verdict' = [verdict EXCEPT ![c] = "failed"]
           /\ aborted' = aborted \ {c}
           /\ store' = PatchExecutionWithoutReadback(store, c, "error")
           /\ UNCHANGED <<child, turn, ran, executed, owner, outcome, envelope, ask, runStopped, held>>
  <2>1. /\ store' \in Stores /\ Others(c, store, store') /\ store'[RowOf[c]].input # c
        /\ Owns(store', c) => store'[RowOf[c]].status = "error" /\ ~store'[RowOf[c]].model
    BY <1>2, <1>t, PatchWithoutReadbackFacts DEF Statuses
  <2>2. /\ at'[c] = "returned" /\ verdict'[c] = "failed" /\ \A d \in Calls \ {c} : at'[d] = at[d]
        /\ UNCHANGED <<child, turn, ran, executed, owner, outcome, envelope, ask, runStopped, held>>
    BY <1>2, <1>t DEF AgentTypeOK, Goes
  <2>3. AgentTypeOK'
    <3>1. at' \in [Calls -> Awaits \cup {"idle", "returned"}]
      BY <1>2, <1>t DEF AgentTypeOK, Goes
    <3>2. verdict' \in [Calls -> Verdicts \cup {None}]
      BY <1>2, <1>t DEF AgentTypeOK, Verdicts, Results
    <3> QED
      BY <1>2, <1>t, <2>1, <3>1, <3>2 DEF AgentTypeOK
  <2>4. (\A d \in Calls \ {c} : Untouched(d)) /\ NotSteered(c)
    BY <1>2, <2>2 DEF Untouched, NotSteered
  <2>5. CallInv(c)'
    BY <1>t, <2>2, CallsAssumption DEF CallInv, Settling
  <2>6. RowInv(c)'
    BY <2>1, <2>2 DEF RowInv
  <2>7. Verdict(c)
    BY <1>t, <2>1, <2>2, CallsAssumption DEF Verdict, StatusOf, CallInv
  <2> QED
    BY <2>1, <2>3, <2>4, <2>5, <2>6, <2>7 DEF Effect
<1> QED
  BY <1>1, <1>2 DEF Resolve

LEMMA CreateFailsEffect == ASSUME AgentInv, NEW c \in Calls, CreateFails(c) PROVE Effect(c)
<1>t. AgentTypeOK /\ at[c] = "creating" /\ store \in Stores /\ owner[c] \in Owners /\ store[RowOf[c]].input # c
  BY NoInput DEF AgentInv, AgentTypeOK, CreateFails, Driving
<1> DEFINE patched == PatchExecutionWithoutReadback(store, c, "error")
<1>1. /\ patched \in Stores /\ Others(c, store, patched) /\ patched[RowOf[c]].input # c
      /\ Owns(patched, c) => ~patched[RowOf[c]].model
  BY <1>t, PatchWithoutReadbackFacts DEF Statuses
<1>2. PICK out \in {"blocked", "failed"} : Depart(c, out, owner[c], patched)
  BY DEF CreateFails
<1> HIDE DEF patched
<1> QED
  BY <1>t, <1>1, <1>2, DepartEffect DEF Results

LEMMA CreatedEffect == ASSUME AgentInv, NEW c \in Calls, Created(c) PROVE Effect(c)
<1>t. /\ AgentTypeOK /\ CallInv(c) /\ at[c] = "creating" /\ store \in Stores /\ store[RowOf[c]].input # c
      /\ outcome[c] = None /\ turn[c] = 0 /\ 0 < MaxTurns
  BY NoInput, CallsAssumption DEF AgentInv, AgentTypeOK, Created, Driving, CallInv, Settling
<1>u. UNCHANGED <<ran, executed, aborted, owner, envelope, verdict, ask, runStopped, held>>
  BY DEF Created
<1> DEFINE working == PatchExecution(store, c, "working")
           ends(out) == /\ Goes(c, "closing") /\ Decides(c, out)
                        /\ child' = [child EXCEPT ![c] = "created"]
                        /\ store' = PatchExecutionWithoutReadback(working, c, StatusOf(out))
                        /\ UNCHANGED turn
<1>w. working \in Stores /\ Others(c, store, working) /\ working[RowOf[c]].input # c
  BY <1>t, PatchFacts DEF Statuses
<1>1. \/ c \in aborted /\ ends("cancelled")
      \/ ends("failed")
      \/ /\ Goes(c, "admitting")
         /\ child' = [child EXCEPT ![c] = "created"]
         /\ store' = working
         /\ UNCHANGED <<turn, outcome>>
      \/ Prompt(c, working) /\ UNCHANGED outcome
  BY DEF Created
<1> HIDE DEF working
<1>2. ASSUME NEW out \in {"cancelled", "failed"}, out = "cancelled" => c \in aborted, ends(out)
      PROVE  Effect(c)
  <2>1. Advances(c, "closing", "created", turn[c], out)
    BY <1>2, <1>t, <1>u, Stays DEF Goes, Decides, Advances
  <2>2. Earned(c, "closing", "created", turn[c], out)
    BY <1>2, <1>t, <1>u, CallsAssumption DEF Earned, Awaits, Outcomes, Settling
  <2>3. StatusOf(out) \in Statuses
    BY <1>2 DEF StatusOf, Statuses
  <2>4. /\ store' \in Stores /\ Others(c, store, store') /\ store'[RowOf[c]].input # c
        /\ Owns(store', c) => ~store'[RowOf[c]].model
    BY <1>2, <1>w, <2>3, PatchWithoutReadbackFacts, OthersTransitive
  <2>5. RowInv(c)'
    BY <2>4 DEF RowInv
  <2> QED
    BY <2>1, <2>2, <2>4, <2>5, AdvanceEffect
<1>3. CASE /\ Goes(c, "admitting")
           /\ child' = [child EXCEPT ![c] = "created"]
           /\ store' = working
           /\ UNCHANGED <<turn, outcome>>
  <2>1. Advances(c, "admitting", "created", turn[c], outcome[c])
    BY <1>3, <1>t, <1>u, Stays DEF Goes, Advances
  <2>2. Earned(c, "admitting", "created", turn[c], outcome[c])
    BY <1>3, <1>t, <1>u, CallsAssumption DEF Earned, Awaits, Outcomes, Settling
  <2>3. RowInv(c)'
    BY <1>3, <1>t, <1>w DEF RowInv, Goes, AgentTypeOK
  <2> QED
    BY <1>3, <1>w, <2>1, <2>2, <2>3, AdvanceEffect
<1>4. CASE Prompt(c, working) /\ UNCHANGED outcome
  BY <1>4, <1>t, <1>u, <1>w, PromptEffect
<1> QED
  BY <1>1, <1>2, <1>3, <1>4

LEMMA AdmittedEffect == ASSUME AgentInv, NEW c \in Calls, Admitted(c) PROVE Effect(c)
<1>t. /\ AgentTypeOK /\ CallInv(c) /\ at[c] = "admitting" /\ store \in Stores /\ store[RowOf[c]].input # c
      /\ outcome[c] = None /\ turn[c] = 0 /\ 0 < MaxTurns
  BY NoInput, CallsAssumption DEF AgentInv, AgentTypeOK, Admitted, Driving, CallInv, Settling
<1>u. UNCHANGED <<ran, executed, aborted, owner, envelope, verdict, ask, runStopped, held>>
  BY DEF Admitted
<1>1. CASE Prompt(c, store) /\ UNCHANGED outcome
  BY <1>1, <1>t, <1>u, OthersReflexive, PromptEffect
<1>2. CASE /\ Goes(c, "closing") /\ Decides(c, "failed")
           /\ store' = PatchTerminalRow(store, c, "error")
           /\ UNCHANGED <<child, turn>>
  <2>1. Advances(c, "closing", child[c], turn[c], "failed")
    BY <1>2, <1>t, <1>u, Stays DEF Goes, Decides, Advances
  <2>2. Earned(c, "closing", child[c], turn[c], "failed")
    BY <1>2, <1>t, <1>u, CallsAssumption DEF Earned, CallInv, AgentTypeOK, Awaits, Outcomes, Settling
  <2>3. /\ store' \in Stores /\ Others(c, store, store') /\ store'[RowOf[c]].input # c
        /\ Owns(store', c) /\ store'[RowOf[c]].model => c \in executed
    BY <1>2, <1>t, PatchTerminalFacts DEF Statuses
  <2>4. RowInv(c)'
    BY <1>u, <2>3 DEF RowInv
  <2> QED
    BY <2>1, <2>2, <2>3, <2>4, AdvanceEffect
<1> QED
  BY <1>1, <1>2 DEF Admitted

-----------------------------------------------------------------------------
(* The child's turn                                                        *)

LEMMA ChildStartsEffect == ASSUME AgentInv, NEW c \in Calls, ChildStarts(c) PROVE Effect(c)
<1>t. /\ AgentTypeOK /\ CallInv(c) /\ at[c] = "driving" /\ store \in Stores
  BY DEF AgentInv, AgentTypeOK, ChildStarts, Driving
<1>1. Advances(c, at[c], "streaming", turn[c], outcome[c])
  BY <1>t, Stays DEF ChildStarts, Advances
<1>2. Earned(c, at[c], "streaming", turn[c], outcome[c])
  BY <1>t, CallsAssumption DEF ChildStarts, Earned, CallInv, AgentTypeOK
<1>3. store' \in Stores /\ Others(c, store, store')
  BY <1>t, PatchFacts DEF ChildStarts, Statuses
<1>4. RowInv(c)'
  BY <1>t DEF ChildStarts, RowInv, Driving
<1> QED
  BY <1>1, <1>2, <1>3, <1>4, AdvanceEffect

LEMMA ChildEndsEffect == ASSUME AgentInv, NEW c \in Calls, ChildEnds(c) PROVE Effect(c)
<1>t. /\ AgentTypeOK /\ CallInv(c) /\ at[c] = "driving" /\ store \in Stores
  BY DEF AgentInv, AgentTypeOK, ChildEnds, Driving
<1> DEFINE kid == IF child[c] = "steered" THEN "streaming" ELSE "ended"
<1>0. child' = [child EXCEPT ![c] = kid]
  BY <1>t DEF ChildEnds, AgentTypeOK
<1>1. Advances(c, at[c], kid, turn[c], outcome[c])
  BY <1>t, <1>0, Stays DEF ChildEnds, Advances
<1>2. Earned(c, at[c], kid, turn[c], outcome[c])
  BY <1>t, CallsAssumption DEF ChildEnds, Earned, CallInv, AgentTypeOK
<1>3. store' \in Stores /\ Others(c, store, store')
  BY <1>t, PatchFacts, OthersReflexive DEF ChildEnds, Statuses
<1>4. RowInv(c)'
  BY <1>t DEF ChildEnds, RowInv, Driving
<1> QED
  BY <1>1, <1>2, <1>3, <1>4, AdvanceEffect

LEMMA TurnCompletesEffect == ASSUME AgentInv, NEW c \in Calls, TurnCompletes(c) PROVE Effect(c)
<1>t. /\ AgentTypeOK /\ CallInv(c) /\ at[c] = "driving" /\ Driving(c) /\ child[c] = "ended" /\ c \in ran
      /\ outcome[c] = None
  BY DEF AgentInv, TurnCompletes, Driving, CallInv, Settling
<1>u. UNCHANGED <<ran, aborted, owner, envelope, verdict, ask, runStopped, held>>
  BY DEF TurnCompletes
<1>w. /\ WithoutInput(c) \in Stores /\ Others(c, store, WithoutInput(c))
      /\ WithoutInput(c)[RowOf[c]].input # c
  BY <1>t, WithoutInputFacts
<1>1. CASE c \in aborted /\ StopTurn(c, "cancelled")
  BY <1>1, <1>t, <1>u, StopTurnEffect
<1>2. CASE StopTurn(c, "failed")
  BY <1>2, <1>t, <1>u, StopTurnEffect
<1>3. CASE turn[c] < MaxTurns /\ Prompt(c, WithoutInput(c)) /\ TurnOver(c) /\ UNCHANGED outcome
  <2>1. executed' \in {executed, executed \cup {c}}
    BY <1>3 DEF TurnOver
  <2> QED
    BY <1>3, <1>t, <1>u, <1>w, <2>1, PromptEffect
<1>4. ASSUME NEW out \in {"completed", "failed"}, Goes(c, "finishing"), Decides(c, out), TurnOver(c),
             store' = WithoutInput(c), UNCHANGED <<child, turn>>
      PROVE  Effect(c)
  <2>1. Advances(c, "finishing", child[c], turn[c], out)
    BY <1>4, <1>t, <1>u, Stays DEF Goes, Decides, TurnOver, Advances
  <2>2. Earned(c, "finishing", child[c], turn[c], out)
    BY <1>4, <1>t, <1>u, CallsAssumption DEF Earned, AgentTypeOK, Awaits, Outcomes, Settling
  <2>3. RowInv(c)'
    BY <1>4, <1>t, <1>w DEF RowInv, Goes, AgentTypeOK
  <2> QED
    BY <1>4, <1>w, <2>1, <2>2, <2>3, AdvanceEffect
<1> QED
  BY <1>1, <1>2, <1>3, <1>4 DEF TurnCompletes

\* The turn is given up, with the row patched at once.
LEMMA GivenUpEffect ==
  ASSUME AgentInv, NEW c \in Calls, Driving(c), Goes(c, "closing"), Decides(c, "failed"),
         store' = PatchTerminalRow(WithoutInput(c), c, "error"),
         UNCHANGED <<child, turn, ran, executed, aborted, owner, envelope, verdict, ask, runStopped, held>>
  PROVE  Effect(c)
<1>t. AgentTypeOK /\ CallInv(c) /\ at[c] = "driving"
  BY DEF AgentInv, Driving
<1>1. Advances(c, "closing", child[c], turn[c], "failed")
  BY <1>t, Stays DEF Goes, Decides, Advances
<1>2. Earned(c, "closing", child[c], turn[c], "failed")
  BY <1>t, CallsAssumption DEF Earned, CallInv, AgentTypeOK, Awaits, Outcomes, Settling
<1>3. /\ WithoutInput(c) \in Stores /\ Others(c, store, WithoutInput(c))
      /\ WithoutInput(c)[RowOf[c]].input # c
  BY <1>t, WithoutInputFacts
<1>4. /\ store' \in Stores /\ Others(c, store, store') /\ store'[RowOf[c]].input # c
      /\ Owns(store', c) /\ store'[RowOf[c]].model => c \in executed
  BY <1>3, PatchTerminalFacts, OthersTransitive DEF Statuses
<1>5. RowInv(c)'
  BY <1>4 DEF RowInv
<1> QED
  BY <1>1, <1>2, <1>4, <1>5, AdvanceEffect

LEMMA PromptAbsorbedEffect == ASSUME AgentInv, NEW c \in Calls, PromptAbsorbed(c) PROVE Effect(c)
<1>1. CASE c \in aborted /\ StopTurn(c, "cancelled")
  BY <1>1, StopTurnEffect DEF PromptAbsorbed
<1>2. CASE /\ Goes(c, "closing") /\ Decides(c, "failed")
           /\ store' = PatchTerminalRow(WithoutInput(c), c, "error")
           /\ UNCHANGED <<child, turn, executed>>
  BY <1>2, GivenUpEffect DEF PromptAbsorbed
<1> QED
  BY <1>1, <1>2 DEF PromptAbsorbed

LEMMA PromptRejectsEffect == ASSUME AgentInv, NEW c \in Calls, PromptRejects(c) PROVE Effect(c)
BY GivenUpEffect DEF PromptRejects

LEMMA BudgetStopsEffect == ASSUME AgentInv, NEW c \in Calls, BudgetStops(c) PROVE Effect(c)
BY StopTurnEffect DEF BudgetStops

LEMMA DeadlinePassesEffect == ASSUME AgentInv, NEW c \in Calls, DeadlinePasses(c) PROVE Effect(c)
BY StopTurnEffect DEF DeadlinePasses

LEMMA ChildStoppedEffect == ASSUME AgentInv, NEW c \in Calls, ChildStopped(c) PROVE Effect(c)
<1>t. AgentTypeOK /\ CallInv(c) /\ at[c] = "stopping" /\ store[RowOf[c]].input # c
  BY NoInput DEF AgentInv, ChildStopped, Driving
<1>1. Advances(c, "halting", child[c], turn[c], outcome[c])
  BY <1>t, Stays DEF ChildStopped, Goes, Advances
<1>2. Earned(c, "halting", child[c], turn[c], outcome[c])
  BY <1>t DEF ChildStopped, Earned, CallInv, AgentTypeOK, Awaits, Settling
<1>3. store' \in Stores /\ Others(c, store, store')
  BY <1>t, OthersReflexive DEF ChildStopped, AgentTypeOK
<1>4. RowInv(c)'
  BY <1>t DEF ChildStopped, RowInv, Goes, AgentTypeOK
<1> QED
  BY <1>1, <1>2, <1>3, <1>4, AdvanceEffect

LEMMA ExportedEffect == ASSUME AgentInv, NEW c \in Calls, Exported(c) PROVE Effect(c)
<1>t. /\ AgentTypeOK /\ CallInv(c) /\ RowInv(c) /\ at[c] \in {"halting", "finishing", "closing"}
      /\ store \in Stores /\ store[RowOf[c]].input # c /\ owner[c] \in Owners
  BY NoInput DEF AgentInv, AgentTypeOK, Exported, Driving
<1>1. PICK out \in Concluded(c) :
         Depart(c, out, owner[c],
                IF at[c] = "closing" THEN store ELSE PatchTerminalRow(store, c, StatusOf(out)))
  BY DEF Exported
<1>2. /\ out \in Results
      /\ out = "completed" => c \in ran
      /\ out = "cancelled" => c \in aborted
  BY <1>t DEF Concluded, CallInv, AgentTypeOK, Outcomes, Settling, Results
<1>3. CASE at[c] = "closing"
  <2>1. Depart(c, out, owner[c], store)
    BY <1>1, <1>3
  <2>2. Owns(store, c) /\ store[RowOf[c]].model => c \in executed
    BY <1>3, <1>t DEF RowInv
  <2> QED
    BY <1>t, <1>2, <2>1, <2>2, OthersReflexive, DepartEffect
<1>4. CASE at[c] # "closing"
  <2> DEFINE patched == PatchTerminalRow(store, c, StatusOf(out))
  <2>1. Depart(c, out, owner[c], patched)
    BY <1>1, <1>4
  <2>2. StatusOf(out) \in Statuses
    BY <1>2 DEF StatusOf, Statuses
  <2>3. /\ patched \in Stores /\ Others(c, store, patched) /\ patched[RowOf[c]].input # c
        /\ Owns(patched, c) /\ patched[RowOf[c]].model => c \in executed
    BY <1>t, <2>2, PatchTerminalFacts
  <2> HIDE DEF patched
  <2> QED
    BY <1>t, <1>2, <2>1, <2>3, DepartEffect
<1> QED
  BY <1>3, <1>4

LEMMA AskShownEffect == ASSUME AgentInv, NEW c \in Calls, AskShown(c) PROVE Effect(c)
<1>t. AgentTypeOK /\ CallInv(c) /\ RowInv(c) /\ at[c] = "driving"
  BY DEF AgentInv, AskShown, Driving
<1>1. Advances(c, at[c], child[c], turn[c], outcome[c])
  BY <1>t, Stays DEF AskShown, Advances
<1>2. Earned(c, at[c], child[c], turn[c], outcome[c])
  BY <1>t DEF AskShown, Earned, CallInv, AgentTypeOK
<1>3. store' \in Stores /\ Others(c, store, store')
  BY <1>t, OthersReflexive DEF AskShown, AgentTypeOK
<1>4. RowInv(c)'
  BY <1>t DEF AskShown, RowInv, Driving
<1> QED
  BY <1>1, <1>2, <1>3, <1>4, AdvanceEffect

-----------------------------------------------------------------------------
(* Aborts, and what the operator does                                      *)

\* The first to abort a call owns its result, and only a turn that is driven hears of it.
LEMMA AbortStep ==
  ASSUME AgentInv, NEW cs \in SUBSET Calls, NEW by \in Owners, Abort(cs),
         owner' = owner \/ owner' = [c \in Calls |-> IF c \in cs THEN by ELSE owner[c]],
         owner' # owner => \A c \in cs : owner[c] = None /\ c \notin Tasks,
         ask' \in [Calls -> {"none", "shown", "over"}], \A c \in Calls : ask'[c] # "none" => c \in Asking,
         runStopped' \in BOOLEAN
  PROVE  AgentInv' /\ \A c \in Calls : Verdict(c) /\ NotSteered(c)
<1> DEFINE heard == {c \in cs \ aborted : Driving(c)}
<1>t. AgentTypeOK /\ RowOf \in [Calls -> Rows] /\ None \notin Calls /\ heard \in SUBSET Calls
  BY RowsAssumption DEF AgentInv
<1>a. /\ aborted' = aborted \cup cs
      /\ at' = [c \in Calls |-> IF c \in heard THEN "stopping" ELSE at[c]]
      /\ outcome' = [c \in Calls |-> IF c \in heard THEN "cancelled" ELSE outcome[c]]
      /\ executed' = executed \cup (heard \cap ran)
      /\ store' = UnregisterInputs(store, heard)
      /\ UNCHANGED <<child, turn, ran, envelope, verdict, held>>
  BY DEF Abort
<1>h. \A c \in heard : c \in cs /\ at[c] = "driving"
  BY DEF Driving
<1> HIDE DEF heard
<1>s. /\ store' \in Stores
      /\ \A r \in Rows : /\ store'[r].execution = store[r].execution /\ store'[r].model = store[r].model
                         /\ store'[r].input = IF store[r].input \in heard THEN None ELSE store[r].input
  BY <1>t, <1>a, UnregisterInputsFacts DEF AgentTypeOK
<1>o. /\ owner' \in [Calls -> Owners]
      /\ \A c \in Calls : owner[c] # None => owner'[c] = owner[c]
      /\ \A c \in Tasks \cap Calls : owner'[c] = owner[c]
  BY <1>t DEF AgentTypeOK
<1>1. AgentTypeOK'
  <2>1. /\ at' \in [Calls -> Awaits \cup {"idle", "returned"}]
        /\ outcome' \in [Calls -> Outcomes]
    BY <1>t, <1>a DEF AgentTypeOK, Awaits, Outcomes
  <2>2. aborted' \subseteq Calls /\ executed' \subseteq Calls
    BY <1>t, <1>a DEF AgentTypeOK
  <2> QED
    BY <1>t, <1>a, <1>s, <1>o, <2>1, <2>2 DEF AgentTypeOK
<1>2. ASSUME NEW c \in Calls PROVE CallInv(c)' /\ RowInv(c)' /\ Verdict(c) /\ NotSteered(c)
  <2>1. CallInv(c) /\ RowInv(c)
    BY DEF AgentInv
  <2>2. CASE c \in heard
    <3>1. /\ at[c] = "driving" /\ at'[c] = "stopping" /\ outcome'[c] = "cancelled" /\ c \in aborted'
      BY <1>a, <1>h, <2>2
    <3>2. CallInv(c)'
      BY <1>a, <1>o, <2>1, <3>1, CallsAssumption DEF CallInv, Settling
    <3>3. RowInv(c)'
      BY <1>t, <1>s, <2>2, <3>1 DEF RowInv
    <3>4. Verdict(c) /\ NotSteered(c)
      BY <1>a, <1>o, <3>1 DEF Verdict, NotSteered
    <3> QED
      BY <3>2, <3>3, <3>4
  <2>3. CASE c \notin heard
    <3>1. at'[c] = at[c] /\ outcome'[c] = outcome[c]
      BY <1>a, <2>3
    <3>2. CallInv(c)'
      BY <1>a, <1>o, <2>1, <3>1 DEF CallInv
    <3>3. RowInv(c)'
      BY <1>t, <1>a, <1>s, <2>1, <2>3, <3>1 DEF RowInv, Owns, Driving
    <3>4. Verdict(c) /\ NotSteered(c)
      BY <1>a, <1>o, <3>1 DEF Verdict, NotSteered, Live, Awaits
    <3> QED
      BY <3>2, <3>3, <3>4
  <2> QED
    BY <2>2, <2>3
<1> QED
  BY <1>1, <1>2 DEF AgentInv

LEMMA OwnStep ==
  ASSUME AgentInv, NEW cs \in SUBSET (Calls \ Tasks), NEW by \in {"run", "call-timeout", "ask-failed"}, Own(cs, by),
         ask' \in [Calls -> {"none", "shown", "over"}], \A c \in Calls : ask'[c] # "none" => c \in Asking,
         runStopped' \in BOOLEAN
  PROVE  AgentInv' /\ \A c \in Calls : Verdict(c) /\ NotSteered(c)
<1> DEFINE first == {c \in cs : owner[c] = None}
<1>1. /\ first \in SUBSET Calls /\ by \in Owners /\ Abort(first)
      /\ owner' = [c \in Calls |-> IF c \in first THEN by ELSE owner[c]]
      /\ \A c \in first : owner[c] = None /\ c \notin Tasks
  BY DEF Own, Owners
<1> HIDE DEF first
<1> QED
  BY <1>1, AbortStep

\* What the session does as a whole is not the step of one call.
LEMMA SessionStep ==
  ASSUME AgentInv, SessionStarts \/ \E r \in Rows : View(r)
  PROVE  AgentInv' /\ \A c \in Calls : Verdict(c) /\ NotSteered(c)
<1>t. AgentTypeOK /\ RowOf \in [Calls -> Rows] /\ None \notin Calls
  BY RowsAssumption DEF AgentInv
<1>u. UNCHANGED <<at, child, turn, ran, executed, aborted, owner, outcome, envelope, verdict, ask, runStopped>>
  BY DEF SessionStarts, View
<1>1. \A c \in Calls : CallInv(c)' /\ Verdict(c) /\ NotSteered(c)
  BY <1>u DEF AgentInv, CallInv, Verdict, NotSteered, Live, Awaits
<1>2. CASE SessionStarts
  <2>1. store' \in Stores /\ held' \in Calls \cup {None}
    BY <1>2 DEF SessionStarts, EmptyStore, NoRow, Stores, Statuses
  <2>2. \A r \in Rows : store'[r].execution = None /\ store'[r].input = None
    BY <1>2 DEF SessionStarts, EmptyStore, NoRow
  <2>3. \A c \in Calls : RowInv(c)'
    BY <1>t, <2>2 DEF RowInv, Owns
  <2> QED
    BY <1>t, <1>u, <1>1, <2>1, <2>3 DEF AgentInv, AgentTypeOK
<1>3. ASSUME NEW r \in Rows, View(r) PROVE AgentInv' /\ \A c \in Calls : Verdict(c) /\ NotSteered(c)
  <2>1. store' = store /\ held' \in Calls \cup {None}
    BY <1>3, <1>t DEF View, AgentTypeOK, Stores
  <2>2. \A c \in Calls : RowInv(c)'
    BY <1>u, <2>1 DEF AgentInv, RowInv, Owns, Driving
  <2> QED
    BY <1>t, <1>u, <1>1, <2>1, <2>2 DEF AgentInv, AgentTypeOK
<1> QED
  BY <1>2, <1>3

\* The operator's text reaches the child they are looking at, which is being driven.
LEMMA SteerStep ==
  ASSUME AgentInv, Steer
  PROVE  /\ AgentInv' /\ \A c \in Calls : Verdict(c)
         /\ \A c \in Calls : child'[c] = "steered" /\ child[c] # "steered" => held = c /\ Driving(c)
<1>t. AgentTypeOK
  BY DEF AgentInv
<1>1. /\ held \in Calls /\ child[held] = "streaming" /\ child' = [child EXCEPT ![held] = "steered"]
      /\ store[RowOf[held]].input = held
      /\ UNCHANGED <<at, turn, ran, executed, aborted, owner, outcome, envelope, verdict, ask, runStopped, store, held>>
  BY <1>t DEF Steer, InputTarget, AgentTypeOK
<1>2. Driving(held) /\ held \in ran
  BY <1>1 DEF AgentInv, RowInv, CallInv
<1>3. AgentTypeOK'
  BY <1>t, <1>1 DEF AgentTypeOK
<1>4. ASSUME NEW c \in Calls PROVE CallInv(c)' /\ RowInv(c)' /\ Verdict(c)
  <2>1. CallInv(c) /\ RowInv(c)
    BY DEF AgentInv
  <2>2. child'[c] = child[c] \/ c \in ran
    BY <1>t, <1>1, <1>2 DEF AgentTypeOK
  <2> QED
    BY <1>1, <2>1, <2>2 DEF CallInv, RowInv, Verdict, Driving, Live, Awaits
<1>5. \A c \in Calls : child'[c] = "steered" /\ child[c] # "steered" => held = c /\ Driving(c)
  BY <1>t, <1>1, <1>2 DEF AgentTypeOK
<1> QED
  BY <1>3, <1>4, <1>5 DEF AgentInv

LEMMA AskSettlesStep ==
  ASSUME AgentInv, NEW c \in Calls, AskSettles(c)
  PROVE  AgentInv' /\ \A d \in Calls : Verdict(d) /\ NotSteered(d)
<1>t. AgentTypeOK /\ CallInv(c) /\ RowInv(c) /\ c \in Asking \ Tasks /\ Live(c)
  BY CallsAssumption DEF AgentInv, AskSettles, CallInv
<1>a. ask' = [ask EXCEPT ![c] = "over"] /\ runStopped' = runStopped
  BY DEF AskSettles
<1>1. CASE UNCHANGED <<at, child, turn, ran, executed, aborted, owner, outcome, envelope, verdict, store, held>>
  <2>1. Advances(c, at[c], child[c], turn[c], outcome[c])
    BY <1>1, <1>t, <1>a, Stays DEF Advances
  <2>2. Earned(c, at[c], child[c], turn[c], outcome[c])
    BY <1>1, <1>t, <1>a DEF Earned, CallInv, AgentTypeOK, Live, Awaits
  <2>3. store' \in Stores /\ Others(c, store, store')
    BY <1>1, <1>t, OthersReflexive DEF AgentTypeOK
  <2>4. RowInv(c)'
    BY <1>1, <1>t DEF RowInv, Owns, Driving
  <2> QED
    BY <2>1, <2>2, <2>3, <2>4, AdvanceEffect, EffectKeeps
<1>2. CASE Own({c}, "ask-failed")
  <2>1. ask' \in [Calls -> {"none", "shown", "over"}] /\ \A d \in Calls : ask'[d] # "none" => d \in Asking
    BY <1>t, <1>a DEF AgentInv, AgentTypeOK, CallInv
  <2>2. runStopped' \in BOOLEAN /\ {c} \in SUBSET (Calls \ Tasks)
    BY <1>t, <1>a DEF AgentTypeOK
  <2> QED
    BY <1>2, <2>1, <2>2, OwnStep
<1> QED
  BY <1>1, <1>2 DEF AskSettles

LEMMA AbortingStep ==
  ASSUME AgentInv,
         RunStops \/ \E c \in Calls : FuseFires(c) \/ TaskStops(c) \/ FleetStops(c) \/ AskUnavailable(c)
  PROVE  AgentInv' /\ \A d \in Calls : Verdict(d) /\ NotSteered(d)
<1>t. AgentTypeOK /\ runStopped \in BOOLEAN
  BY DEF AgentInv, AgentTypeOK
<1>a. ask \in [Calls -> {"none", "shown", "over"}] /\ \A c \in Calls : ask[c] # "none" => c \in Asking
  BY DEF AgentInv, AgentTypeOK, CallInv
<1>1. CASE RunStops
  <2>1. {c \in Calls \ Tasks : Live(c)} \in SUBSET (Calls \ Tasks)
    OBVIOUS
  <2>2. Own({c \in Calls \ Tasks : Live(c)}, "run") /\ ask' = ask /\ runStopped' \in BOOLEAN
    BY <1>1 DEF RunStops
  <2> QED
    BY <1>a, <2>1, <2>2, OwnStep
<1>2. ASSUME NEW c \in Calls, FuseFires(c) PROVE AgentInv' /\ \A d \in Calls : Verdict(d) /\ NotSteered(d)
  <2>1. {c} \in SUBSET (Calls \ Tasks) /\ Own({c}, "call-timeout") /\ ask' = ask /\ runStopped' \in BOOLEAN
    BY <1>2, <1>t, CallsAssumption DEF FuseFires
  <2> QED
    BY <1>a, <2>1, OwnStep
<1>3. ASSUME NEW c \in Calls, TaskStops(c) \/ FleetStops(c)
      PROVE  AgentInv' /\ \A d \in Calls : Verdict(d) /\ NotSteered(d)
  <2>1. {c} \in SUBSET Calls /\ Abort({c}) /\ UNCHANGED <<owner, ask, runStopped>> /\ None \in Owners
    BY <1>3 DEF TaskStops, FleetStops, Owners
  <2> QED
    BY <1>t, <1>a, <2>1, AbortStep
<1>4. ASSUME NEW c \in Calls, AskUnavailable(c)
      PROVE  AgentInv' /\ \A d \in Calls : Verdict(d) /\ NotSteered(d)
  <2>1. {c} \in SUBSET (Calls \ Tasks) /\ Own({c}, "ask-failed") /\ runStopped' \in BOOLEAN
    BY <1>4, <1>t, CallsAssumption DEF AskUnavailable
  <2>2. ask' \in [Calls -> {"none", "shown", "over"}] /\ \A d \in Calls : ask'[d] # "none" => d \in Asking
    BY <1>4, <1>a DEF AskUnavailable
  <2> QED
    BY <2>1, <2>2, OwnStep
<1> QED
  BY <1>1, <1>2, <1>3, <1>4

-----------------------------------------------------------------------------
LEMMA AgentStep ==
  AgentInv /\ [Next]_vars =>
    /\ AgentInv' /\ \A c \in Calls : Verdict(c)
    /\ \A c \in Calls : child'[c] = "steered" /\ child[c] # "steered" => held = c /\ Driving(c)
<1> SUFFICES ASSUME AgentInv, [Next]_vars
             PROVE  /\ AgentInv' /\ \A c \in Calls : Verdict(c)
                    /\ \A c \in Calls : child'[c] = "steered" /\ child[c] # "steered" => held = c /\ Driving(c)
  OBVIOUS
<1> DEFINE Kept == AgentInv' /\ \A c \in Calls : Verdict(c) /\ NotSteered(c)
<1>1. ASSUME NEW c \in Calls,
             \/ Refuse(c) \/ Call(c) \/ CallTask(c) \/ Resolve(c) \/ CreateFails(c) \/ Created(c) \/ Admitted(c)
             \/ DeadlinePasses(c) \/ ChildStopped(c) \/ Exported(c) \/ ChildStarts(c) \/ ChildEnds(c)
             \/ TurnCompletes(c) \/ PromptAbsorbed(c) \/ PromptRejects(c) \/ BudgetStops(c) \/ AskShown(c)
      PROVE  Kept
  <2>1. Effect(c)
    BY <1>1, RefuseEffect, CallEffect, CallTaskEffect, ResolveEffect, CreateFailsEffect, CreatedEffect, AdmittedEffect,
       DeadlinePassesEffect, ChildStoppedEffect, ExportedEffect, ChildStartsEffect, ChildEndsEffect,
       TurnCompletesEffect, PromptAbsorbedEffect, PromptRejectsEffect, BudgetStopsEffect, AskShownEffect
  <2> QED
    BY <2>1, EffectKeeps
<1>2. ASSUME RunStops \/ \E c \in Calls : FuseFires(c) \/ TaskStops(c) \/ FleetStops(c) \/ AskUnavailable(c)
      PROVE  Kept
  BY <1>2, AbortingStep
<1>3. ASSUME NEW c \in Calls, AskSettles(c) PROVE Kept
  BY <1>3, AskSettlesStep
<1>4. ASSUME SessionStarts \/ \E r \in Rows : View(r) PROVE Kept
  BY <1>4, SessionStep
<1>5. ASSUME UNCHANGED vars PROVE Kept
  <2>1. AgentInv'
    BY <1>5 DEF vars, AgentInv, AgentTypeOK, CallInv, RowInv, Driving
  <2>2. \A c \in Calls : Verdict(c) /\ NotSteered(c)
    BY <1>5 DEF vars, Verdict, NotSteered, Live, Awaits
  <2> QED
    BY <2>1, <2>2
<1>6. Kept => \A c \in Calls : child'[c] = "steered" /\ child[c] # "steered" => held = c /\ Driving(c)
  BY DEF NotSteered
<1>7. CASE Steer
  BY <1>7, SteerStep
<1>8. Kept \/ Steer
  <2> HIDE DEF Kept
  <2> QED
    BY <1>1, <1>2, <1>3, <1>4, <1>5 DEF Next, Progress, Kept
<1> QED
  BY <1>6, <1>7, <1>8

THEOREM AgentsInductive == AgentSpec => []AgentInv
<1>1. AgentInv /\ [Next]_vars => AgentInv'
  BY AgentStep
<1> QED
  BY InitAgents, <1>1, PTL DEF AgentSpec

(* The types of calls, child sessions and live rows.  No child is prompted  *)
(* more often than its contract allows (maxAttempts).                      *)
THEOREM AgentTypeCorrect == AgentSpec => []AgentTypeOK
<1>1. AgentInv => AgentTypeOK
  BY DEF AgentInv
<1> QED
  BY AgentsInductive, <1>1, PTL

(* VerdictStands, for any number of calls, rounds in a row, operators and   *)
(* aborts: the first to abort a call names its result, and a success, a     *)
(* cancellation, the envelope and the row stand on what the child did.      *)
THEOREM VerdictsStand == AgentSpec => VerdictStands
<1> DEFINE V ==
    /\ \A c \in Calls : Live(c)' /\ owner[c] # None => owner'[c] = owner[c]
    /\ \A c \in Calls : Live(c) /\ at'[c] = "returned" =>
        /\ {owner[c], verdict'[c]} \cap {"call-timeout", "ask-failed"} # {} => verdict'[c] = owner[c]
        /\ verdict'[c] = "completed" => c \in ran
        /\ verdict'[c] = "cancelled" => c \in aborted
        /\ envelope'[c] \in {None, "unwritten", verdict'[c]}
        /\ Owns(store', c) =>
             /\ store'[RowOf[c]].model => c \in executed
             /\ c \in Tasks => store'[RowOf[c]].status = StatusOf(verdict'[c])
<1>1. AgentInv /\ [Next]_vars => [V]_vars
  BY AgentStep DEF Verdict
<1> QED
  BY AgentsInductive, <1>1, PTL DEF AgentSpec, VerdictStands

(* SteeringHitsTarget: an operator's text reaches only the child whose      *)
(* execution is on the screen, and only while its turn is driven.           *)
THEOREM SteeringHits == AgentSpec => SteeringHitsTarget
<1> DEFINE S == \A c \in Calls : child'[c] = "steered" /\ child[c] # "steered" => held = c /\ Driving(c)
<1>1. AgentInv /\ [Next]_vars => [S]_vars
  BY AgentStep
<1> QED
  BY AgentsInductive, <1>1, PTL DEF AgentSpec, SteeringHitsTarget
=============================================================================
