----------------------- MODULE StructuredCall_proofs ------------------------
(***************************************************************************)
(* Proofs about one structured call: what it generates is bounded by what  *)
(* it may submit, and work is done only by research.                       *)
(***************************************************************************)
EXTENDS StructuredCall, FiniteSetTheorems, TLAPS

-----------------------------------------------------------------------------
ItemType == [call : CallIds, name : Names, arguments : Arguments \cup {None}]

TurnType == [responseId : Responses \cup {None}, terminal : BOOLEAN, workTools : BOOLEAN,
             rejectedBatch : BOOLEAN, calls : Seq(CallIds), items : Seq(ItemType)]

VerdictType == [arguments : Arguments \cup {None}, validation : {"accepted", "rejected", "duplicate"}]

ReturnType == [turns : Seq(TurnType), verdicts : [CallIds -> VerdictType \cup {None}], attempts : Nat,
               accepted : {None} \cup [value : Values, executed : BOOLEAN], failed : BOOLEAN]

Places == {"between", "streaming", "tools", "broken", "ended", "closing", "returned"}

(* The types of a structured call.                                         *)
StructuredTypeOK ==
    /\ at \in Places
    /\ port \in ReturnType
    /\ ledger \in [toolCalls : Nat, admittedToolCalls : Nat, assistantTurns : Nat]
    /\ queue \in Seq(ItemType)
    /\ hooked \in BOOLEAN /\ expired \in BOOLEAN /\ limited \in BOOLEAN
    /\ effects \subseteq Nat
    /\ result \in {None, "failed", "completed"}

\* Every turn before the last one has cost a submission since the first that was not research.
PaidBefore(p) ==
    \A j \in 1..(Len(p.turns) - 1) : ~Research(p.turns[j]) => Len(p.turns) - j <= p.attempts

\* The last turn is paid for as well.
Paid(p) ==
    \A j \in 1..Len(p.turns) : ~Research(p.turns[j]) => Len(p.turns) - j + 1 <= p.attempts

\* There was a submission left for every turn that was asked for.
Afforded(p) ==
    \A j \in 1..Len(p.turns) : ~Research(p.turns[j]) => Len(p.turns) - j < MaxSubmissions

\* The arguments of a work tool mark its turn.
WorkMarked(t) ==
    \A k \in 1..Len(t.items) :
        t.items[k].name = "work" /\ t.items[k].arguments # None => t.workTools

\* A response is open: nothing of it was submitted.
Open(p) ==
    /\ p.turns # <<>> /\ p.accepted = None
    /\ PaidBefore(p) /\ WorkMarked(Current(p))
    /\ Current(p).calls = <<>> /\ ~Current(p).terminal

Streams == at = "streaming" => Open(port) /\ Len(port.turns) \notin effects

Answered(p) ==
    /\ PaidBefore(p) /\ WorkMarked(Current(p))
    /\ Current(p).terminal
    /\ \A k \in 1..Len(Current(p).items) : Current(p).items[k].arguments # None
    /\ IF Returns(Current(p)) = <<>>
       THEN Current(p).calls = <<>> /\ p.accepted = None
       ELSE Paid(p) /\ p.attempts > 0

Dispatches ==
    at = "tools" =>
        /\ port.turns # <<>>
        /\ ~port.failed => Answered(port)
        /\ \A i \in ToSet(queue) : i \in ToSet(Current(port).items)

Settles ==
    at \in {"between", "broken", "ended"} /\ ~port.failed /\ port.turns # <<>> /\ Current(port).terminal
        => Paid(port)

StructuredInv ==
    /\ StructuredTypeOK
    /\ Afforded(port) /\ Streams /\ Dispatches /\ Settles
    /\ effects \subseteq 1..Len(port.turns) /\ SiblingsNeverRun

-----------------------------------------------------------------------------
(* Sequences read item by item                                             *)

(* What holds of 0 and goes from each number to the next holds up to n.    *)
LEMMA UpTo ==
  ASSUME NEW n \in Nat, NEW S, 0 \in S, \A k \in 0..(n - 1) : k \in S => k + 1 \in S
  PROVE  0..n \subseteq S
<1> DEFINE Q == 0..n
           T == {0..k : k \in Q \ S}
<1> SUFFICES ASSUME Q \ S # {} PROVE FALSE
  OBVIOUS
<1>1. IsWellFoundedOn(StrictSubsetOrdering(Q), SUBSET Q)
  <2>1. IsFiniteSet(Q)
    BY FS_Interval
  <2>2. FiniteSubsetsOf(Q) = SUBSET Q
    BY <2>1, FS_FiniteSubsetsOfFinite
  <2>3. IsWellFoundedOn(StrictSubsetOrdering(Q), FiniteSubsetsOf(Q))
    BY <2>1, FS_StrictSubsetOrderingWellFounded
  <2> QED
    BY <2>2, <2>3
<1>2. T \subseteq SUBSET Q /\ T # {}
  OBVIOUS
<1>3. PICK x \in T : \A y \in T : ~ (<<y, x>> \in StrictSubsetOrdering(Q))
  BY <1>1, <1>2, WFMin
<1>4. PICK c \in Q \ S : x = 0..c
  BY <1>3
<1>5. c - 1 \in Q \ S
  BY <1>4
<1>6. 0..(c - 1) \in T /\ 0..(c - 1) # 0..c /\ 0..(c - 1) \subseteq 0..c /\ 0..c \subseteq Q
  BY <1>4, <1>5
<1> HIDE DEF T
<1>7. <<0..(c - 1), x>> \in StrictSubsetOrdering(Q)
  BY <1>4, <1>6 DEF StrictSubsetOrdering
<1> QED
  BY <1>3, <1>6, <1>7

Steps(n, S) == [1..n -> [S -> S]]

Computes(f, n, S, start, step) ==
    f \in [0..n -> S] /\ f[0] = start /\ \A k \in 1..n : f[k] = step[k][f[k - 1]]

(* A recursion over 1..n that stays in a set defines a function.           *)
LEMMA Recursion ==
  ASSUME NEW n \in Nat, NEW S, NEW start \in S, NEW step \in Steps(n, S)
  PROVE  \E f : Computes(f, n, S, start, step)
<1> DEFINE Rec(f, m) == /\ f \in [0..m -> S] /\ f[0] = start
                        /\ \A k \in 1..m : f[k] = step[k][f[k - 1]]
           Reached == {m \in 0..n : \E f : Rec(f, m)}
<1>1. Rec([k \in 0..0 |-> start], 0)
  OBVIOUS
<1>2. ASSUME NEW m \in 0..(n - 1), m \in Reached PROVE m + 1 \in Reached
  <2>1. PICK f : Rec(f, m)
    BY <1>2
  <2> DEFINE g == [j \in 0..(m + 1) |-> IF j = m + 1 THEN step[m + 1][f[m]] ELSE f[j]]
  <2>2. f[m] \in S /\ m + 1 \in 1..n
    BY <2>1
  <2>3. step[m + 1][f[m]] \in S
    BY <2>2 DEF Steps
  <2>4. g \in [0..(m + 1) -> S] /\ g[0] = start
    BY <2>1, <2>3
  <2>5. ASSUME NEW k \in 1..(m + 1) PROVE g[k] = step[k][g[k - 1]]
    <3>1. CASE k = m + 1
      <4>1. k - 1 = m /\ g[k - 1] = f[m] /\ g[k] = step[m + 1][f[m]]
        BY <3>1
      <4> HIDE DEF g
      <4> QED
        BY <3>1, <4>1
    <3>2. CASE k # m + 1
      <4>1. k \in 1..m /\ k - 1 \in 0..m /\ g[k] = f[k] /\ g[k - 1] = f[k - 1]
        BY <3>2
      <4> QED
        BY <2>1, <4>1
    <3> QED
      BY <3>1, <3>2
  <2> HIDE DEF g
  <2>6. Rec(g, m + 1)
    BY <2>4, <2>5
  <2> HIDE DEF Rec
  <2> QED
    BY <2>2, <2>6
<1>3. 0 \in Reached
  <2> HIDE DEF Rec
  <2> QED
    BY <1>1
<1>4. n \in 0..n
  OBVIOUS
<1>5. 0..n \subseteq Reached
  <2> HIDE DEF Reached
  <2> QED
    BY <1>2, <1>3, UpTo
<1>6. \E f : Rec(f, n)
  <2> HIDE DEF Rec
  <2> QED
    BY <1>4, <1>5
<1> QED
  BY <1>6 DEF Computes

Returned(t, k, s) == IF t.items[k].name = "workflow_return" THEN Append(s, t.items[k]) ELSE s

(* Returns reads the items one after the other.                            *)
LEMMA ReturnsSteps ==
  ASSUME NEW t, t.items \in Seq(ItemType)
  PROVE  \E g : /\ g[0] = <<>> /\ Returns(t) = g[Len(t.items)]
               /\ \A k \in 1..Len(t.items) : g[k] = Returned(t, k, g[k - 1])
<1> DEFINE n == Len(t.items)
           R == {i \in ToSet(t.items) : i.name = "workflow_return"}
           Rec(f) == f = [k \in 0..n |->
             IF k = 0 THEN <<>>
             ELSE IF t.items[k].name = "workflow_return" THEN Append(f[k - 1], t.items[k])
             ELSE f[k - 1]]
           Next1(k, s) == IF t.items[k].name = "workflow_return" THEN Append(s, t.items[k]) ELSE s
           step == [k \in 1..n |-> [s \in Seq(R) |-> Next1(k, s)]]
<1>1. n \in Nat /\ (\A k \in 1..n : t.items[k] \in ToSet(t.items))
  BY DEF ToSet
<1>2. \A k \in 1..n, s \in Seq(R) : Next1(k, s) \in Seq(R)
  BY <1>1
<1>3. step \in [1..n -> [Seq(R) -> Seq(R)]]
  BY <1>2
<1>4. PICK f \in [0..n -> Seq(R)] : f[0] = <<>> /\ \A k \in 1..n : f[k] = step[k][f[k - 1]]
  <2>1. <<>> \in Seq(R)
    OBVIOUS
  <2>2. step \in Steps(n, Seq(R))
    BY <1>3 DEF Steps
  <2> HIDE DEF n, R, step
  <2>3. \E f : Computes(f, n, Seq(R), <<>>, step)
    BY <1>1, <2>1, <2>2, Recursion
  <2> QED
    BY <2>3 DEF Computes
<1>5. Rec(f)
  <2>1. ASSUME NEW k \in 1..n PROVE f[k - 1] \in Seq(R) /\ step[k][f[k - 1]] = Next1(k, f[k - 1])
    <3>1. k - 1 \in 0..n
      BY <1>1
    <3>2. f[k - 1] \in Seq(R)
      BY <1>4, <3>1
    <3> HIDE DEF Next1
    <3> QED
      BY <3>2
  <2>2. \A k \in 1..n : f[k] = Next1(k, f[k - 1])
    BY <1>4, <2>1
  <2>3. \A k \in 0..n : f[k] = IF k = 0 THEN <<>> ELSE Next1(k, f[k - 1])
    BY <1>1, <1>4, <2>2
  <2> QED
    BY <2>3
<1> DEFINE g == CHOOSE h : Rec(h)
<1>6. Rec(g)
  BY <1>5
<1>7. Returns(t) = g[n]
  BY DEF Returns
<1> HIDE DEF g
<1>8. g[0] = <<>> /\ \A k \in 1..n : g[k] = Next1(k, g[k - 1])
  <2>1. \A k \in 0..n : g[k] = IF k = 0 THEN <<>> ELSE Next1(k, g[k - 1])
    BY <1>6
  <2>2. \A k \in 1..n : k \in 0..n /\ k # 0
    BY <1>1
  <2>3. 0 \in 0..n
    BY <1>1
  <2> HIDE DEF Next1, n
  <2> QED
    BY <2>1, <2>2, <2>3
<1> QED
  BY <1>7, <1>8 DEF Returned

(* What Returns computes: the returns, in order, none if there is none.     *)
LEMMA ReturnsFacts ==
  ASSUME NEW t, t.items \in Seq(ItemType)
  PROVE  /\ Returns(t) \in Seq({i \in ToSet(t.items) : i.name = "workflow_return"})
         /\ Returns(t) = <<>> <=> \A k \in 1..Len(t.items) : t.items[k].name # "workflow_return"
<1> DEFINE n == Len(t.items)
           R == {i \in ToSet(t.items) : i.name = "workflow_return"}
<1>1. n \in Nat /\ (\A k \in 1..n : t.items[k] \in ToSet(t.items))
  BY DEF ToSet
<1>2. \A k \in 1..n, s \in Seq(R) : Returned(t, k, s) \in Seq(R)
  BY <1>1 DEF Returned
<1>3. PICK g : /\ g[0] = <<>> /\ Returns(t) = g[n]
               /\ \A k \in 1..n : g[k] = Returned(t, k, g[k - 1])
  BY ReturnsSteps
<1> DEFINE Good == {k \in 0..n : g[k] \in Seq(R)
                     /\ (g[k] = <<>> <=> \A j \in 1..k : t.items[j].name # "workflow_return")}
<1> HIDE DEF n
<1>4. 0 \in Good
  <2>1. 0 \in 0..n /\ g[0] \in Seq(R)
    BY <1>1, <1>3
  <2>2. 1..0 = {}
    OBVIOUS
  <2> QED
    BY <1>3, <2>1, <2>2
<1>5. ASSUME NEW k \in 0..(n - 1), k \in Good PROVE k + 1 \in Good
  <2>1. g[k + 1] = Returned(t, k + 1, g[k]) /\ g[k] \in Seq(R) /\ k + 1 \in 1..n
    <3>1. k + 1 \in 1..n /\ (k + 1) - 1 = k
      BY <1>1
    <3>2. g[k + 1] = Returned(t, k + 1, g[(k + 1) - 1])
      BY <1>3, <3>1
    <3> QED
      BY <1>5, <3>1, <3>2
  <2>2. g[k + 1] \in Seq(R)
    BY <1>2, <2>1
  <2>3. g[k] = <<>> <=> \A j \in 1..k : t.items[j].name # "workflow_return"
    BY <1>5
  <2>4. CASE t.items[k + 1].name = "workflow_return"
    <3> DEFINE i == t.items[k + 1]
    <3>3. g[k + 1] = Append(g[k], i) /\ i \in R
      BY <1>1, <2>1, <2>4 DEF Returned
    <3> HIDE DEF i
    <3>4. Len(g[k + 1]) = Len(g[k]) + 1 /\ Len(g[k]) \in Nat
      BY <2>1, <3>3
    <3>1. g[k + 1] # <<>>
      BY <3>4
    <3>2. k + 1 \in 1..(k + 1)
      OBVIOUS
    <3> QED
      BY <1>1, <2>2, <2>4, <3>1, <3>2
  <2>5. CASE t.items[k + 1].name # "workflow_return"
    <3>1. g[k + 1] = g[k]
      BY <2>1, <2>5 DEF Returned
    <3>2. 1..(k + 1) = (1..k) \cup {k + 1} /\ k + 1 \in 0..n
      BY <1>1
    <3> QED
      BY <2>2, <2>3, <2>5, <3>1, <3>2
  <2> QED
    BY <2>4, <2>5
<1> HIDE DEF Good
<1>6. n \in Good
  <2>1. 0..n \subseteq Good
    BY <1>1, <1>4, <1>5, UpTo
  <2> QED
    BY <1>1, <2>1
<1> QED
  BY <1>3, <1>6 DEF Good, n

-----------------------------------------------------------------------------
(* The owner of the result, operator by operator                           *)

\* q is p with another last turn, if any.
SameBefore(p, q) ==
    /\ q \in ReturnType
    /\ Len(q.turns) = Len(p.turns)
    /\ \A k \in 1..(Len(p.turns) - 1) : q.turns[k] = p.turns[k]

\* The last turn holds the same tool items.
SameItems(p, q) ==
    /\ Current(q).items = Current(p).items
    /\ Current(q).workTools = Current(p).workTools

LEMMA ReturnFields ==
  ASSUME NEW p \in ReturnType
  PROVE  /\ p.turns \in Seq(TurnType) /\ Len(p.turns) \in Nat
         /\ p.turns # <<>> => Len(p.turns) \in 1..Len(p.turns) /\ Current(p) \in TurnType
         /\ \A k \in 1..Len(p.turns) : p.turns[k] \in TurnType
         /\ p.attempts \in Nat /\ p.failed \in BOOLEAN
<1>1. p.turns \in Seq(TurnType) /\ p.attempts \in Nat /\ p.failed \in BOOLEAN
  BY DEF ReturnType
<1>2. Len(p.turns) \in Nat /\ (p.turns # <<>> => Len(p.turns) > 0)
      /\ \A k \in 1..Len(p.turns) : p.turns[k] \in TurnType
  BY <1>1
<1> QED
  BY <1>1, <1>2 DEF Current

(* OnTurn() replaces the last turn and nothing else.                       *)
LEMMA OnTurnFacts ==
  ASSUME NEW p \in ReturnType, p.turns # <<>>, NEW t \in TurnType
  PROVE  /\ SameBefore(p, OnTurn(p, t))
         /\ Current(OnTurn(p, t)) = t /\ OnTurn(p, t).turns # <<>>
         /\ OnTurn(p, t).attempts = p.attempts
         /\ OnTurn(p, t).accepted = p.accepted
         /\ OnTurn(p, t).failed = p.failed
<1> DEFINE n == Len(p.turns)
           turns == [p.turns EXCEPT ![n] = t]
<1>1. p.turns \in Seq(TurnType) /\ n \in Nat /\ n > 0
  BY ReturnFields
<1>2. turns \in Seq(TurnType) /\ Len(turns) = n /\ turns[n] = t /\ \A k \in 1..(n - 1) : turns[k] = p.turns[k]
  BY <1>1
<1>3. OnTurn(p, t) = [p EXCEPT !.turns = turns]
  BY DEF OnTurn, ReturnType
<1> HIDE DEF turns
<1>4. /\ [p EXCEPT !.turns = turns].turns = turns
      /\ [p EXCEPT !.turns = turns].attempts = p.attempts
      /\ [p EXCEPT !.turns = turns].accepted = p.accepted
      /\ [p EXCEPT !.turns = turns].failed = p.failed
      /\ [p EXCEPT !.turns = turns] \in ReturnType
  BY <1>2 DEF ReturnType
<1> QED
  BY <1>1, <1>2, <1>3, <1>4 DEF SameBefore, Current

LEMMA FailedFacts ==
  ASSUME NEW p \in ReturnType
  PROVE  /\ Failed(p) \in ReturnType /\ Failed(p).failed
         /\ Failed(p).turns = p.turns /\ Failed(p).attempts = p.attempts
         /\ Failed(p).accepted = p.accepted /\ Failed(p).verdicts = p.verdicts
BY DEF Failed, ReturnType

LEMMA ExhaustedFacts ==
  ASSUME NEW p \in ReturnType
  PROVE  /\ Exhausted(p) \in ReturnType
         /\ Exhausted(p).turns = p.turns /\ Exhausted(p).attempts = p.attempts
         /\ Exhausted(p).accepted = p.accepted /\ Exhausted(p).verdicts = p.verdicts
         /\ p.failed => Exhausted(p).failed
         /\ ~Exhausted(p).failed /\ p.accepted = None => p.attempts < MaxSubmissions
BY FailedFacts, ReturnAssumption DEF Exhausted, ReturnType

LEMMA JudgedFacts ==
  ASSUME NEW p \in ReturnType, NEW c \in CallIds, NEW v \in VerdictType
  PROVE  /\ Judged(p, c, v) \in ReturnType
         /\ Judged(p, c, v).turns = p.turns /\ Judged(p, c, v).attempts = p.attempts
         /\ Judged(p, c, v).accepted = p.accepted /\ Judged(p, c, v).failed = p.failed
BY DEF Judged, ReturnType

LEMMA SameBeforeChain ==
  ASSUME NEW p, NEW q, NEW r, SameBefore(p, q), SameBefore(q, r)
  PROVE  SameBefore(p, r)
BY DEF SameBefore

(* Whether a turn is research is decided by its items and its mark.        *)
LEMMA SameResearch ==
  ASSUME NEW t, NEW u, t.items = u.items, t.workTools = u.workTools
  PROVE  Research(t) = Research(u) /\ Returns(t) = Returns(u)
<1>1. Returns(t) = Returns(u)
  BY DEF Returns
<1> QED
  BY <1>1 DEF Research

(* A return is a submission as long as nothing was accepted.               *)
LEMMA ProposeFacts ==
  ASSUME NEW p \in ReturnType, NEW item \in ItemType
  PROVE  /\ Propose(p, item) \in ReturnType
         /\ Propose(p, item).turns = p.turns
         /\ Propose(p, item).attempts = IF p.accepted = None THEN p.attempts + 1 ELSE p.attempts
<1> DEFINE over == IF p.attempts + 1 > MaxSubmissions THEN Failed(p) ELSE p
           q == [over EXCEPT !.attempts = @ + 1]
           a == [q EXCEPT !.accepted = [value |-> item.arguments, executed |-> FALSE]]
           d == IF item.arguments = p.accepted.value THEN p ELSE Failed(p)
<1>1. item.call \in CallIds /\ item.arguments \in Arguments \cup {None}
  BY DEF ItemType
<1>2. \A v \in {"accepted", "rejected", "duplicate"} : Verdict(item.arguments, v) \in VerdictType
  BY <1>1 DEF Verdict, VerdictType
<1>3. over \in ReturnType /\ over.turns = p.turns /\ over.attempts = p.attempts /\ over.accepted = p.accepted
  BY FailedFacts
<1>4. d \in ReturnType /\ d.turns = p.turns /\ d.attempts = p.attempts
  BY FailedFacts
<1> HIDE DEF over, d
<1>5. q \in ReturnType /\ q.turns = p.turns /\ q.attempts = p.attempts + 1 /\ q.accepted = p.accepted
  BY <1>3, ReturnFields DEF ReturnType
<1> HIDE DEF q
<1>6. item.arguments \in Values
        => a \in ReturnType /\ a.turns = p.turns /\ a.attempts = p.attempts + 1
  BY <1>5 DEF ReturnType
<1> HIDE DEF a
<1>7. CASE p.accepted # None
  <2>1. Propose(p, item) = Judged(d, item.call, Verdict(item.arguments, "duplicate"))
    BY <1>7 DEF Propose, d
  <2> QED
    BY <1>1, <1>2, <1>4, <1>7, <2>1, JudgedFacts
<1>8. CASE p.accepted = None /\ item.arguments \in Values /\ ~q.failed
  <2>1. Propose(p, item) = Judged(a, item.call, Verdict(item.arguments, "accepted"))
    BY <1>8 DEF Propose, a, q, over
  <2> QED
    BY <1>1, <1>2, <1>6, <1>8, <2>1, JudgedFacts
<1>9. CASE p.accepted = None /\ ~(item.arguments \in Values /\ ~q.failed)
  <2>1. Propose(p, item) = Judged(Exhausted(q), item.call, Verdict(item.arguments, "rejected"))
    BY <1>9 DEF Propose, q, over
  <2> QED
    BY <1>1, <1>2, <1>5, <1>9, <2>1, JudgedFacts, ExhaustedFacts
<1> QED
  BY <1>7, <1>8, <1>9

(* finalized() adds a call to the last turn and counts it.                 *)
LEMMA FinalizedFacts ==
  ASSUME NEW p \in ReturnType, p.turns # <<>>, NEW item \in ItemType
  PROVE  /\ SameBefore(p, Finalized(p, item)) /\ SameItems(p, Finalized(p, item))
         /\ Finalized(p, item).turns # <<>>
         /\ Finalized(p, item).attempts >= p.attempts
         /\ p.accepted = None => Finalized(p, item).attempts > p.attempts
<1> DEFINE t == [Current(p) EXCEPT !.calls = Append(@, item.call)]
           q == OnTurn(p, t)
           z == [q EXCEPT !.attempts = IF q.accepted = None THEN @ + 1 ELSE @]
           v == Verdict(item.arguments, "rejected")
<1>1. item.call \in CallIds /\ v \in VerdictType
  BY DEF ItemType, Verdict, VerdictType
<1>2. Current(p) \in TurnType
  BY ReturnFields
<1>3. t \in TurnType /\ t.items = Current(p).items /\ t.workTools = Current(p).workTools
  <2>1. Append(Current(p).calls, item.call) \in Seq(CallIds)
    BY <1>1, <1>2 DEF TurnType
  <2> QED
    BY <1>2, <2>1 DEF TurnType
<1> HIDE DEF t
<1>4. /\ SameBefore(p, q) /\ Current(q) = t /\ q.turns # <<>>
      /\ q.attempts = p.attempts /\ q.accepted = p.accepted
  BY <1>3, OnTurnFacts
<1>5. q \in ReturnType /\ q.attempts \in Nat
  BY <1>4, ReturnFields DEF SameBefore
<1> HIDE DEF q
<1>6. z \in ReturnType /\ z.turns = q.turns
      /\ z.attempts = IF q.accepted = None THEN q.attempts + 1 ELSE q.attempts
  BY <1>5 DEF ReturnType
<1> HIDE DEF z, v
<1> DEFINE r == Finalized(p, item)
<1>7. r \in ReturnType /\ r.turns = q.turns
      /\ r.attempts = IF q.accepted = None THEN q.attempts + 1 ELSE q.attempts
  <2>1. CASE ~q.failed
    <3>1. r = Propose(q, item)
      BY <2>1 DEF Finalized, q, t
    <3> HIDE DEF r
    <3> QED
      BY <1>5, <3>1, ProposeFacts
  <2>2. CASE q.failed
    <3>1. r = Judged(z, item.call, v)
      BY <2>2 DEF Finalized, q, t, z, v
    <3> HIDE DEF r
    <3> QED
      BY <1>1, <1>6, <3>1, JudgedFacts
  <2> QED
    BY <2>1, <2>2
<1> HIDE DEF r
<1>8. SameBefore(p, r) /\ SameItems(p, r) /\ r.turns # <<>>
  BY <1>3, <1>4, <1>7 DEF SameBefore, SameItems, Current
<1>9. r.attempts >= p.attempts /\ (p.accepted = None => r.attempts > p.attempts)
  BY <1>4, <1>5, <1>7
<1> QED
  BY <1>8, <1>9 DEF r

(* A batch of returns is judged one after the other.                       *)
LEMMA EachFinalizedSteps ==
  ASSUME NEW p \in ReturnType, p.turns # <<>>, NEW returns \in Seq(ItemType)
  PROVE  \E g : /\ g[0] = p /\ EachFinalized(p, returns) = g[Len(returns)]
               /\ \A k \in 1..Len(returns) : g[k] = Finalized(g[k - 1], returns[k])
<1> DEFINE n == Len(returns)
           S == {q \in ReturnType : q.turns # <<>>}
           Rec(f) == f = [k \in 0..n |-> IF k = 0 THEN p ELSE Finalized(f[k - 1], returns[k])]
           step == [k \in 1..n |-> [q \in S |-> Finalized(q, returns[k])]]
           g == CHOOSE h : Rec(h)
<1>1. n \in Nat /\ (\A k \in 1..n : returns[k] \in ItemType)
  OBVIOUS
<1>2. \A k \in 1..n : \A q \in S : Finalized(q, returns[k]) \in S
  BY <1>1, FinalizedFacts DEF SameBefore
<1>3. step \in Steps(n, S)
  BY <1>2 DEF Steps
<1>4. PICK f : Computes(f, n, S, p, step)
  <2>1. p \in S
    OBVIOUS
  <2> HIDE DEF n, S, step
  <2> QED
    BY <1>1, <1>3, <2>1, Recursion
<1>5. Rec(f)
  <2>1. ASSUME NEW k \in 1..n PROVE step[k][f[k - 1]] = Finalized(f[k - 1], returns[k])
    <3>1. k - 1 \in 0..n
      BY <1>1
    <3>2. f[k - 1] \in S
      BY <1>4, <3>1 DEF Computes
    <3> HIDE DEF S
    <3> QED
      BY <3>2
  <2>2. \A k \in 1..n : f[k] = Finalized(f[k - 1], returns[k])
    BY <1>4, <2>1 DEF Computes
  <2>3. \A k \in 0..n : f[k] = IF k = 0 THEN p ELSE Finalized(f[k - 1], returns[k])
    BY <1>1, <1>4, <2>2 DEF Computes
  <2>4. f = [k \in 0..n |-> f[k]]
    BY <1>4 DEF Computes
  <2> HIDE DEF n
  <2> QED
    BY <2>3, <2>4
<1>6. Rec(g)
  BY <1>5
<1>7. EachFinalized(p, returns) = g[n]
  BY DEF EachFinalized
<1> HIDE DEF g
<1>8. g[0] = p /\ \A k \in 1..n : g[k] = Finalized(g[k - 1], returns[k])
  <2>1. \A k \in 0..n : g[k] = IF k = 0 THEN p ELSE Finalized(g[k - 1], returns[k])
    BY <1>6
  <2>2. 0 \in 0..n /\ \A k \in 1..n : k \in 0..n /\ k # 0
    BY <1>1
  <2> HIDE DEF n
  <2> QED
    BY <2>1, <2>2
<1> QED
  BY <1>7, <1>8

(* A batch of returns: something is submitted if there is a return at all. *)
LEMMA EachFinalizedFacts ==
  ASSUME NEW p \in ReturnType, p.turns # <<>>, NEW returns \in Seq(ItemType)
  PROVE  /\ SameBefore(p, EachFinalized(p, returns)) /\ SameItems(p, EachFinalized(p, returns))
         /\ EachFinalized(p, returns).turns # <<>>
         /\ p.accepted = None /\ returns # <<>> => EachFinalized(p, returns).attempts > p.attempts
<1> DEFINE n == Len(returns)
<1>1. n \in Nat /\ (\A k \in 1..n : returns[k] \in ItemType)
  OBVIOUS
<1>2. PICK g : /\ g[0] = p /\ EachFinalized(p, returns) = g[n]
               /\ \A k \in 1..n : g[k] = Finalized(g[k - 1], returns[k])
  BY EachFinalizedSteps
<1> DEFINE Grown(q, k) == /\ SameBefore(p, q) /\ SameItems(p, q) /\ q.turns # <<>>
                          /\ q.attempts >= p.attempts /\ q.attempts \in Nat
                          /\ k > 0 /\ p.accepted = None => q.attempts > p.attempts
           Good == {k \in 0..n : Grown(g[k], k)}
<1> HIDE DEF n
<1>3. 0 \in Good
  <2>1. 0 \in 0..n
    BY <1>1
  <2> QED
    BY <1>2, <2>1, ReturnFields DEF SameBefore, SameItems
<1>4. ASSUME NEW k \in 0..(n - 1), k \in Good PROVE k + 1 \in Good
  <2>1. k + 1 \in 1..n /\ (k + 1) - 1 = k /\ k + 1 \in 0..n
    BY <1>1
  <2> DEFINE q == g[k]
             r == g[k + 1]
  <2>2. r = Finalized(q, returns[k + 1])
    BY <1>2, <2>1
  <2>3. Grown(q, k) /\ q \in ReturnType /\ returns[k + 1] \in ItemType
    BY <1>1, <1>4, <2>1 DEF SameBefore
  <2> HIDE DEF q, r
  <2>4. SameBefore(q, r) /\ SameItems(q, r) /\ r.turns # <<>> /\ r.attempts >= q.attempts
        /\ (q.accepted = None => r.attempts > q.attempts)
    BY <2>2, <2>3, FinalizedFacts
  <2>5. SameBefore(p, r) /\ SameItems(p, r)
    BY <2>3, <2>4, SameBeforeChain DEF SameItems
  <2>6. r.attempts \in Nat /\ p.attempts \in Nat
    BY <2>5, ReturnFields DEF SameBefore
  <2>7. r.attempts >= p.attempts
    BY <2>3, <2>4, <2>6
  <2>8. p.accepted = None => r.attempts > p.attempts
    <3>1. k = 0 => q = p
      BY <1>2 DEF q
    <3>2. k = 0 \/ k > 0
      BY <1>1
    <3>3. q.attempts \in Nat
      BY <2>3
    <3> QED
      BY <2>3, <2>4, <2>6, <3>1, <3>2, <3>3
  <2> QED
    BY <2>1, <2>4, <2>5, <2>6, <2>7, <2>8 DEF r
<1> HIDE DEF Good
<1>5. n \in Good
  <2>1. 0..n \subseteq Good
    BY <1>1, <1>3, <1>4, UpTo
  <2> QED
    BY <1>1, <2>1
<1>6. returns # <<>> => n > 0
  BY DEF n
<1> QED
  BY <1>2, <1>5, <1>6 DEF Good

\* A batch with work is one submission.
LEMMA RejectBatchFacts ==
  ASSUME NEW p \in ReturnType, p.turns # <<>>
  PROVE  /\ SameBefore(p, RejectBatch(p)) /\ SameItems(p, RejectBatch(p))
         /\ RejectBatch(p).turns # <<>>
         /\ RejectBatch(p).attempts > p.attempts
<1> DEFINE t == Current(p)
           R == Returns(t)
           calls == [k \in DOMAIN R |-> R[k].call]
           mixed == {R[k].call : k \in DOMAIN R}
           u == [t EXCEPT !.rejectedBatch = TRUE, !.calls = calls]
           q == OnTurn(p, u)
           verdicts == [c \in CallIds |->
                           IF c \in mixed
                           THEN Verdict((CHOOSE i \in ToSet(t.items) : i.call = c).arguments, "rejected")
                           ELSE q.verdicts[c]]
           z == [q EXCEPT !.attempts = @ + 1, !.verdicts = verdicts]
<1>1. t \in TurnType /\ t.items \in Seq(ItemType)
  BY ReturnFields DEF TurnType
<1>2. R \in Seq({i \in ToSet(t.items) : i.name = "workflow_return"})
  BY <1>1, ReturnsFacts
<1>3. \A i \in ToSet(t.items) : i \in ItemType
  BY <1>1 DEF ToSet
<1>4. \A k \in DOMAIN R : R[k] \in ToSet(t.items)
  BY <1>2
<1>5. calls \in Seq(CallIds)
  <2>1. DOMAIN R = 1..Len(R) /\ Len(R) \in Nat
    BY <1>2
  <2>2. \A k \in DOMAIN R : R[k].call \in CallIds
    BY <1>3, <1>4 DEF ItemType
  <2> QED
    BY <2>1, <2>2
<1> HIDE DEF calls
<1>6. u \in TurnType /\ u.items = t.items /\ u.workTools = t.workTools
  BY <1>1, <1>5 DEF TurnType
<1> HIDE DEF u
<1>7. SameBefore(p, q) /\ Current(q) = u /\ q.turns # <<>> /\ q.attempts = p.attempts
  BY <1>6, OnTurnFacts
<1>8. q \in ReturnType
  BY <1>7 DEF SameBefore
<1> HIDE DEF q
<1>9. verdicts \in [CallIds -> VerdictType \cup {None}]
  <2>1. ASSUME NEW c \in mixed
        PROVE  Verdict((CHOOSE i \in ToSet(t.items) : i.call = c).arguments, "rejected") \in VerdictType
    <3>1. \E i \in ToSet(t.items) : i.call = c
      BY <1>4
    <3>2. (CHOOSE i \in ToSet(t.items) : i.call = c) \in ItemType
      BY <1>3, <3>1
    <3> QED
      BY <3>2 DEF ItemType, Verdict, VerdictType
  <2>2. \A c \in CallIds : q.verdicts[c] \in VerdictType \cup {None}
    BY <1>8 DEF ReturnType
  <2> HIDE DEF mixed
  <2> QED
    BY <2>1, <2>2
<1> HIDE DEF verdicts
<1>10. z \in ReturnType /\ z.turns = q.turns /\ z.attempts = p.attempts + 1
  <2> DEFINE m == q.attempts + 1
  <2>1. m \in Nat /\ m = p.attempts + 1
    BY <1>7, <1>8, ReturnFields
  <2>2. z = [q EXCEPT !.attempts = m, !.verdicts = verdicts]
    BY <1>8 DEF ReturnType
  <2> HIDE DEF m
  <2> QED
    BY <1>8, <1>9, <2>1, <2>2 DEF ReturnType
<1>11. RejectBatch(p) = Exhausted(z)
  BY DEF RejectBatch, z, verdicts, q, u, calls, mixed, R, t
<1> HIDE DEF z, t
<1>12. /\ Exhausted(z) \in ReturnType /\ Exhausted(z).turns = q.turns
       /\ Exhausted(z).attempts = p.attempts + 1
  BY <1>10, ExhaustedFacts
<1> QED
  BY <1>6, <1>7, <1>11, <1>12, ReturnFields DEF SameBefore, SameItems, Current, t

\* The terminal of a response that can be judged submits its returns.
LEMMA ReconciledFacts ==
  ASSUME NEW p \in ReturnType, p.turns # <<>>
  PROVE  /\ SameBefore(p, Reconciled(p)) /\ SameItems(p, Reconciled(p))
         /\ Reconciled(p).turns # <<>>
         /\ ~Submits(p) => Reconciled(p) = p
         /\ Submits(p) /\ p.accepted = None => Reconciled(p).attempts > p.attempts
<1>1. Returns(Current(p)) \in Seq(ItemType)
  <2>1. Current(p).items \in Seq(ItemType)
    BY ReturnFields DEF TurnType
  <2> DEFINE X == {i \in ToSet(Current(p).items) : i.name = "workflow_return"}
  <2>2. X \subseteq ItemType
    BY <2>1 DEF ToSet
  <2>3. Returns(Current(p)) \in Seq(X)
    BY <2>1, ReturnsFacts
  <2> HIDE DEF X
  <2> QED
    BY <2>2, <2>3
<1>2. CASE ~Submits(p)
  BY <1>2, ReturnFields DEF Reconciled, SameBefore, SameItems
<1>3. CASE Submits(p) /\ Current(p).workTools
  BY <1>3, RejectBatchFacts DEF Reconciled
<1>4. CASE Submits(p) /\ ~Current(p).workTools
  BY <1>1, <1>4, EachFinalizedFacts DEF Reconciled, Submits
<1> QED
  BY <1>2, <1>3, <1>4

(* What a turn costs.                                                      *)
LEMMA ResearchIsFree ==
  ASSUME NEW p \in ReturnType, PaidBefore(p), p.attempts = 0, NEW j \in 1..(Len(p.turns) - 1)
  PROVE  Research(p.turns[j])
BY ReturnFields DEF PaidBefore

LEMMA OnePays ==
  ASSUME NEW p \in ReturnType, NEW q, p.turns # <<>>, PaidBefore(p), SameBefore(p, q), q.attempts > p.attempts
  PROVE  Paid(q) /\ PaidBefore(q) /\ q.attempts > 0
<1>1. p.attempts \in Nat /\ q.attempts \in Nat /\ Len(p.turns) \in Nat /\ Len(q.turns) = Len(p.turns)
  BY ReturnFields DEF SameBefore
<1>2. \A j \in 1..(Len(p.turns) - 1) : ~Research(q.turns[j]) => Len(p.turns) - j <= p.attempts
  BY DEF PaidBefore, SameBefore
<1>3. ASSUME NEW j \in 1..Len(q.turns), ~Research(q.turns[j])
      PROVE  Len(q.turns) - j + 1 <= q.attempts
  BY <1>1, <1>2, <1>3
<1>4. ASSUME NEW j \in 1..(Len(q.turns) - 1), ~Research(q.turns[j])
      PROVE  Len(q.turns) - j <= q.attempts
  BY <1>1, <1>2, <1>4
<1> QED
  BY <1>1, <1>3, <1>4 DEF Paid, PaidBefore

LEMMA PaidBeforeStays ==
  ASSUME NEW p \in ReturnType, NEW q, PaidBefore(p), SameBefore(p, q), q.attempts >= p.attempts
  PROVE  PaidBefore(q)
<1>1. p.attempts \in Nat /\ q.attempts \in Nat /\ Len(p.turns) \in Nat /\ Len(q.turns) = Len(p.turns)
  BY ReturnFields DEF SameBefore
<1> QED
  BY <1>1 DEF PaidBefore, SameBefore

LEMMA AffordedStays ==
  ASSUME NEW p \in ReturnType, NEW q, Afforded(p), SameBefore(p, q)
  PROVE  Afforded(q)
<1>1. p.attempts \in Nat /\ Len(p.turns) \in Nat /\ Len(q.turns) = Len(p.turns) /\ MaxSubmissions \in Nat \ {0}
  BY ReturnFields, ReturnAssumption DEF SameBefore
<1>2. ASSUME NEW j \in 1..Len(q.turns), ~Research(q.turns[j])
      PROVE  Len(q.turns) - j < MaxSubmissions
  <2>1. CASE j = Len(q.turns)
    BY <1>1, <2>1
  <2>2. CASE j # Len(q.turns)
    BY <1>1, <1>2, <2>2 DEF Afforded, SameBefore
  <2> QED
    BY <2>1, <2>2
<1> QED
  BY <1>2 DEF Afforded

LEMMA SameItemsMarked ==
  ASSUME NEW p, NEW q, SameItems(p, q), WorkMarked(Current(p))
  PROVE  WorkMarked(Current(q))
BY DEF SameItems, WorkMarked

(* A response that is completed is judged: what the owner does not fail for *)
(* is a batch that was paid for, or a turn without a return.                *)
LEMMA TerminalFacts ==
  ASSUME NEW p \in ReturnType, p.turns # <<>>, p.accepted = None, PaidBefore(p),
         WorkMarked(Current(p)), Current(p).calls = <<>>, NEW r, NEW output
  PROVE  /\ SameBefore(p, TerminalCompleted(p, r, output))
         /\ SameItems(p, TerminalCompleted(p, r, output))
         /\ TerminalCompleted(p, r, output).turns # <<>>
         /\ ~TerminalCompleted(p, r, output).failed => Answered(TerminalCompleted(p, r, output))
<1> DEFINE c == Confirmed(p, output)
           q == Reconciled(c)
           t == [Current(q) EXCEPT !.terminal = TRUE]
           e == OnTurn(q, t)
<1>1. /\ c \in ReturnType /\ c.turns = p.turns /\ c.attempts = p.attempts /\ c.accepted = p.accepted
      /\ ~c.failed => \A k \in 1..Len(Current(p).items) : Current(p).items[k].arguments # None
  <2>1. Current(p).items \in Seq(ItemType)
    BY ReturnFields DEF TurnType
  <2> QED
    BY <2>1, FailedFacts DEF Confirmed, ToSet
<1> HIDE DEF c
<1>2. SameBefore(p, c) /\ SameItems(p, c) /\ Current(c) = Current(p)
  BY <1>1 DEF SameBefore, SameItems, Current
<1>3. /\ SameBefore(c, q) /\ SameItems(c, q) /\ q.turns # <<>>
      /\ (~Submits(c) => q = c) /\ (Submits(c) => q.attempts > c.attempts)
  BY <1>1, ReconciledFacts
<1> HIDE DEF q
<1>4. q \in ReturnType
  BY <1>3 DEF SameBefore
<1>5. t \in TurnType /\ t.items = Current(q).items /\ t.workTools = Current(q).workTools
      /\ t.terminal /\ t.calls = Current(q).calls
  BY <1>3, <1>4, ReturnFields DEF TurnType
<1> HIDE DEF t
<1>6. /\ SameBefore(q, e) /\ Current(e) = t /\ e.turns # <<>>
      /\ e.attempts = q.attempts /\ e.accepted = q.accepted /\ e.failed = q.failed
  BY <1>3, <1>4, <1>5, OnTurnFacts
<1> HIDE DEF e
<1>7. SameBefore(c, e) /\ SameBefore(p, e) /\ SameItems(p, e)
  BY <1>2, <1>3, <1>5, <1>6, SameBeforeChain DEF SameItems
<1>8. ASSUME ~e.failed PROVE Answered(e)
  <2>1. ~c.failed
    BY <1>3, <1>6, <1>8 DEF Submits
  <2>2. Returns(Current(e)) = Returns(Current(c)) /\ Current(e).items = Current(p).items
    BY <1>2, <1>7, SameResearch DEF SameItems
  <2>3. WorkMarked(Current(e)) /\ Current(e).terminal
        /\ \A k \in 1..Len(Current(e).items) : Current(e).items[k].arguments # None
    BY <1>1, <1>5, <1>6, <1>7, <2>1, <2>2, SameItemsMarked
  <2>4. CASE Returns(Current(e)) = <<>>
    <3>1. ~Submits(c) /\ q = c
      BY <1>3, <2>2, <2>4 DEF Submits
    <3>2. Current(e).calls = <<>> /\ e.accepted = None
      BY <1>1, <1>2, <1>5, <1>6, <3>1
    <3>3. e.attempts = p.attempts /\ p.attempts \in Nat
      BY <1>1, <1>6, <3>1, ReturnFields
    <3>4. PaidBefore(e)
      BY <1>7, <3>3, PaidBeforeStays
    <3> QED
      BY <2>3, <2>4, <3>2, <3>4 DEF Answered
  <2>5. CASE Returns(Current(e)) # <<>>
    <3>1. Submits(c)
      BY <2>1, <2>2, <2>5 DEF Submits
    <3>2. e.attempts > p.attempts
      BY <1>1, <1>3, <1>6, <3>1
    <3>3. Paid(e) /\ PaidBefore(e) /\ e.attempts > 0
      BY <1>7, <3>2, OnePays
    <3> QED
      BY <2>3, <2>5, <3>3 DEF Answered
  <2> QED
    BY <2>4, <2>5
<1>9. CASE Current(p).responseId \in {None} \cup (Responses \ {r})
  <2>1. TerminalCompleted(p, r, output) = Failed(p)
    BY <1>9 DEF TerminalCompleted
  <2> QED
    BY <2>1, FailedFacts DEF SameBefore, SameItems, Current
<1>10. CASE ~(Current(p).responseId \in {None} \cup (Responses \ {r}))
  <2>1. TerminalCompleted(p, r, output) = e
    BY <1>10 DEF TerminalCompleted, e, t, q, c
  <2> QED
    BY <1>6, <1>7, <1>8, <2>1
<1> QED
  BY <1>9, <1>10

(* A raw event leaves the response open and the earlier turns alone.       *)
LEMMA FailedOpen ==
  ASSUME NEW p \in ReturnType, Open(p)
  PROVE  SameBefore(p, Failed(p)) /\ Open(Failed(p))
<1>1. /\ Failed(p) \in ReturnType /\ Failed(p).turns = p.turns
      /\ Failed(p).attempts = p.attempts /\ Failed(p).accepted = p.accepted
  BY FailedFacts
<1> HIDE DEF Failed
<1> QED
  BY <1>1 DEF Open, SameBefore, PaidBefore, Current

LEMMA OnTurnOpen ==
  ASSUME NEW p \in ReturnType, Open(p), NEW t \in TurnType,
         t.calls = <<>>, ~t.terminal, WorkMarked(t)
  PROVE  SameBefore(p, OnTurn(p, t)) /\ Open(OnTurn(p, t))
<1> DEFINE q == OnTurn(p, t)
<1>1. /\ SameBefore(p, q) /\ Current(q) = t /\ q.turns # <<>>
      /\ q.attempts = p.attempts /\ q.accepted = p.accepted
  BY OnTurnFacts DEF Open
<1>2. q.attempts >= p.attempts
  BY <1>1, ReturnFields
<1> HIDE DEF q
<1>3. PaidBefore(q)
  BY <1>1, <1>2, PaidBeforeStays DEF Open
<1> QED
  BY <1>1, <1>3 DEF Open, q

LEMMA CreatedOpen ==
  ASSUME NEW p \in ReturnType, Open(p), NEW r \in Responses
  PROVE  SameBefore(p, ResponseCreated(p, r)) /\ Open(ResponseCreated(p, r))
<1> DEFINE t == [Current(p) EXCEPT !.responseId = r]
<1>1. Current(p) \in TurnType
  BY ReturnFields DEF Open
<1>2. t \in TurnType /\ t.calls = <<>> /\ ~t.terminal /\ WorkMarked(t)
  BY <1>1 DEF Open, TurnType, WorkMarked
<1> HIDE DEF t
<1>3. SameBefore(p, OnTurn(p, t)) /\ Open(OnTurn(p, t))
  BY <1>2, OnTurnOpen
<1> QED
  BY <1>3, FailedOpen DEF ResponseCreated, t

LEMMA AddedOpen ==
  ASSUME NEW p \in ReturnType, Open(p), NEW c \in CallIds, NEW n \in Names
  PROVE  SameBefore(p, ToolAdded(p, c, n)) /\ Open(ToolAdded(p, c, n))
<1> DEFINE i == Item(c, n)
           t == [Current(p) EXCEPT !.items = Append(@, i)]
           items == Current(p).items
<1>1. Current(p) \in TurnType /\ items \in Seq(ItemType)
  BY ReturnFields DEF Open, TurnType
<1>2. i \in ItemType /\ i.arguments = None
  BY DEF Item, ItemType
<1> HIDE DEF i
<1>3. t \in TurnType /\ t.calls = <<>> /\ ~t.terminal /\ t.items = Append(items, i)
      /\ t.workTools = Current(p).workTools
  <2>1. Append(items, i) \in Seq(ItemType)
    BY <1>1, <1>2
  <2> QED
    BY <1>1, <2>1 DEF Open, TurnType
<1>4. WorkMarked(t)
  <2>1. \A k \in 1..Len(t.items) : t.items[k] = i \/ (k \in 1..Len(items) /\ t.items[k] = items[k])
    BY <1>1, <1>2, <1>3
  <2> HIDE DEF t
  <2> QED
    BY <1>2, <1>3, <2>1 DEF Open, WorkMarked
<1> HIDE DEF t
<1>5. SameBefore(p, OnTurn(p, t)) /\ Open(OnTurn(p, t))
  BY <1>3, <1>4, OnTurnOpen
<1> QED
  BY <1>5, FailedOpen DEF ToolAdded, t, i

LEMMA FinalizedOpen ==
  ASSUME NEW p \in ReturnType, Open(p), NEW c \in CallIds, NEW arg \in Arguments, NEW twice
  PROVE  SameBefore(p, ItemFinalized(p, c, arg, twice)) /\ Open(ItemFinalized(p, c, arg, twice))
<1> DEFINE items == Current(p).items
           known == {k \in DOMAIN items : items[k].call = c}
           after == [k \in DOMAIN items |-> IF k \in known THEN [items[k] EXCEPT !.arguments = arg] ELSE items[k]]
           marked == Current(p).workTools \/ (\E k \in known : items[k].name = "work")
           t == [Current(p) EXCEPT !.items = after, !.workTools = marked]
<1>1. Current(p) \in TurnType /\ items \in Seq(ItemType)
  BY ReturnFields DEF Open, TurnType
<1>2. \A k \in DOMAIN items : items[k] \in ItemType
  BY <1>1
<1>3. \A k \in DOMAIN items : after[k] \in ItemType /\ after[k].name = items[k].name
                              /\ (k \notin known => after[k] = items[k])
  BY <1>2 DEF ItemType
<1>4. after \in Seq(ItemType) /\ Len(after) = Len(items)
  <2>1. DOMAIN items = 1..Len(items) /\ Len(items) \in Nat
    BY <1>1
  <2>2. after = [k \in 1..Len(items) |-> after[k]]
    BY <2>1
  <2> HIDE DEF after
  <2>3. \A k \in 1..Len(items) : after[k] \in ItemType
    BY <1>3, <2>1
  <2> QED
    BY <2>1, <2>2, <2>3
<1>5. DOMAIN items = 1..Len(items)
  BY <1>1
<1> HIDE DEF after
<1>6. t \in TurnType /\ t.calls = <<>> /\ ~t.terminal /\ t.items = after /\ t.workTools = marked
  <2>1. marked \in BOOLEAN
    OBVIOUS
  <2> HIDE DEF marked
  <2> QED
    BY <1>1, <1>4, <2>1 DEF Open, TurnType
<1>7. WorkMarked(t)
  <2> SUFFICES ASSUME NEW k \in DOMAIN items, after[k].name = "work", after[k].arguments # None
               PROVE  marked
    BY <1>4, <1>5, <1>6 DEF WorkMarked
  <2>1. CASE k \in known
    BY <1>3, <2>1
  <2>2. CASE k \notin known
    BY <1>3, <1>5, <2>2 DEF Open, WorkMarked
  <2> QED
    BY <2>1, <2>2
<1> HIDE DEF t
<1>8. SameBefore(p, OnTurn(p, t)) /\ Open(OnTurn(p, t))
  BY <1>6, <1>7, OnTurnOpen
<1>9. ItemFinalized(p, c, arg, twice) = Failed(p) \/ ItemFinalized(p, c, arg, twice) = OnTurn(p, t)
  BY DEF ItemFinalized, t, after
<1> QED
  BY <1>8, <1>9, FailedOpen

(* beforeRequest() lets through what is neither failed nor used up.        *)
LEMMA RequestCheckedFacts ==
  ASSUME NEW p \in ReturnType, NEW route \in BOOLEAN
  PROVE  /\ RequestChecked(p, route) \in ReturnType
         /\ RequestChecked(p, route).turns = p.turns
         /\ RequestChecked(p, route).attempts = p.attempts
         /\ RequestChecked(p, route).accepted = p.accepted
         /\ ~RequestChecked(p, route).failed =>
              /\ ~p.failed /\ (p.turns # <<>> => Current(p).terminal)
              /\ p.accepted = None => p.attempts < MaxSubmissions
<1> DEFINE q == IF route THEN p ELSE Failed(p)
           u == IF q.turns # <<>> /\ ~Current(q).terminal THEN Failed(q) ELSE q
<1>1. /\ q \in ReturnType /\ q.turns = p.turns /\ q.attempts = p.attempts /\ q.accepted = p.accepted
      /\ ~q.failed => ~p.failed
  BY FailedFacts
<1>2. Current(q) = Current(p)
  BY <1>1 DEF Current
<1> HIDE DEF q
<1>3. /\ u \in ReturnType /\ u.turns = p.turns /\ u.attempts = p.attempts /\ u.accepted = p.accepted
      /\ ~u.failed => ~p.failed /\ (p.turns # <<>> => Current(p).terminal)
  BY <1>1, <1>2, FailedFacts
<1>4. RequestChecked(p, route) = Exhausted(u)
  BY DEF RequestChecked, u, q
<1> HIDE DEF u
<1> QED
  BY <1>3, <1>4, ExhaustedFacts

(* finishTurn() makes a turn pay that should have returned something.      *)
LEMMA TurnFinishedFacts ==
  ASSUME NEW p \in ReturnType, p.turns # <<>>
  PROVE  /\ TurnFinished(p) \in ReturnType
         /\ TurnFinished(p).turns = p.turns
         /\ ~TurnFinished(p).failed /\ Answered(p) => Paid(TurnFinished(p))
         /\ ~TurnFinished(p).failed => ~p.failed
<1> DEFINE q == IF Current(p).terminal THEN p ELSE Failed(p)
           missing == Current(q).calls = <<>> /\ (~Current(q).workTools \/ q.attempts > 0)
           m == q.attempts + 1
           u == IF missing /\ ~q.failed /\ q.accepted = None THEN [q EXCEPT !.attempts = m] ELSE q
<1>1. /\ q \in ReturnType /\ q.turns = p.turns /\ q.attempts = p.attempts /\ q.accepted = p.accepted
      /\ ~q.failed => ~p.failed
  BY FailedFacts
<1>2. Current(q) = Current(p) /\ m \in Nat /\ m > p.attempts /\ p.attempts \in Nat
  BY <1>1, ReturnFields DEF Current
<1>3. TurnFinished(p) = Exhausted(u)
  <2>1. [q EXCEPT !.attempts = @ + 1] = [q EXCEPT !.attempts = m]
    BY <1>1 DEF ReturnType
  <2> HIDE DEF m
  <2> QED
    BY <2>1 DEF TurnFinished, u, missing, q
<1> HIDE DEF m, q
<1>4. /\ u \in ReturnType /\ u.turns = p.turns /\ u.failed = q.failed
      /\ u.attempts = IF missing /\ ~q.failed /\ q.accepted = None THEN m ELSE q.attempts
  BY <1>1, <1>2 DEF ReturnType
<1> HIDE DEF u
<1>5. /\ TurnFinished(p) \in ReturnType /\ TurnFinished(p).turns = p.turns
      /\ TurnFinished(p).attempts = u.attempts
      /\ ~TurnFinished(p).failed => ~q.failed
  BY <1>3, <1>4, ExhaustedFacts
<1> DEFINE e == TurnFinished(p)
<1>6. ASSUME ~e.failed, Answered(p) PROVE Paid(e)
  <2>1. SameBefore(p, e)
    BY <1>5 DEF SameBefore
  <2>2. ~q.failed
    BY <1>5, <1>6
  <2>3. PaidBefore(p) /\ e.attempts = u.attempts /\ e.turns = p.turns
    BY <1>5, <1>6 DEF Answered
  <2> HIDE DEF e
  <2>4. CASE Returns(Current(p)) # <<>>
    <3>1. Paid(p) /\ u.attempts >= p.attempts /\ u.attempts \in Nat
      BY <1>1, <1>2, <1>4, <1>6, <2>4 DEF Answered
    <3> QED
      BY <1>2, <2>3, <3>1, ReturnFields DEF Paid
  <2>5. CASE Returns(Current(p)) = <<>> /\ (~Current(p).workTools \/ p.attempts > 0)
    <3>1. u.attempts > p.attempts
      BY <1>1, <1>2, <1>4, <1>6, <2>2, <2>5 DEF Answered
    <3> QED
      BY <2>1, <2>3, <3>1, OnePays
  <2>6. CASE Returns(Current(p)) = <<>> /\ Current(p).workTools /\ ~(p.attempts > 0)
    <3>1. p.attempts = 0
      BY <1>2, <2>6
    <3>2. \A j \in 1..(Len(p.turns) - 1) : Research(p.turns[j])
      BY <2>3, <3>1, ResearchIsFree
    <3>3. Research(p.turns[Len(p.turns)])
      BY <2>6 DEF Research, Current
    <3>4. \A j \in 1..Len(p.turns) : Research(p.turns[j])
      BY <3>2, <3>3, ReturnFields
    <3> QED
      BY <2>3, <3>4 DEF Paid
  <2> QED
    BY <2>4, <2>5, <2>6
<1> QED
  BY <1>1, <1>5, <1>6

LEMMA ExecutedFacts ==
  ASSUME NEW p \in ReturnType, NEW c
  PROVE  /\ Executed(p, c) \in ReturnType
         /\ Executed(p, c).turns = p.turns /\ Executed(p, c).attempts = p.attempts
         /\ Executed(p, c).failed = p.failed
         /\ p.accepted = None => Executed(p, c) = p
<1>1. CASE p.accepted # None
  <2> DEFINE a == [p.accepted EXCEPT !.executed = TRUE]
  <2>1. a \in [value : Values, executed : BOOLEAN]
    BY <1>1 DEF ReturnType
  <2>2. [p EXCEPT !.accepted.executed = TRUE] = [p EXCEPT !.accepted = a]
    BY DEF ReturnType
  <2> HIDE DEF a
  <2>3. /\ [p EXCEPT !.accepted = a] \in ReturnType
        /\ [p EXCEPT !.accepted = a].turns = p.turns
        /\ [p EXCEPT !.accepted = a].attempts = p.attempts
        /\ [p EXCEPT !.accepted = a].failed = p.failed
    BY <2>1 DEF ReturnType
  <2> QED
    BY <1>1, <2>2, <2>3 DEF Executed
<1>2. CASE p.accepted = None
  BY <1>2 DEF Executed
<1> QED
  BY <1>1, <1>2

LEMMA InspectedFacts ==
  ASSUME NEW p \in ReturnType, NEW late
  PROVE  /\ Inspected(p, late) \in ReturnType
         /\ Inspected(p, late).turns = p.turns /\ Inspected(p, late).attempts = p.attempts
         /\ Inspected(p, late).accepted = p.accepted
         /\ p.failed => Inspected(p, late).failed
BY FailedFacts DEF Inspected

-----------------------------------------------------------------------------
(* The call, action by action                                              *)

LEMMA CallStarts == Init => StructuredInv
<1> SUFFICES ASSUME Init PROVE StructuredInv
  OBVIOUS
<1>1. NewReturn \in ReturnType /\ NewReturn.turns = <<>>
  BY DEF NewReturn, ReturnType
<1>2. StructuredTypeOK
  <2>1. port \in ReturnType /\ at \in Places /\ effects \subseteq Nat /\ result \in {None, "failed", "completed"}
    BY <1>1 DEF Init, Places
  <2>2. queue \in Seq(ItemType)
    BY DEF Init
  <2>4. hooked \in BOOLEAN /\ expired \in BOOLEAN /\ limited \in BOOLEAN
    BY DEF Init
  <2>3. ledger \in [toolCalls : Nat, admittedToolCalls : Nat, assistantTurns : Nat]
    BY DEF Init
  <2> QED
    BY <2>1, <2>2, <2>3, <2>4 DEF StructuredTypeOK
<1>3. port.turns = <<>> /\ effects = {} /\ at = "between"
  BY <1>1 DEF Init
<1>4. Afforded(port)
  BY <1>3 DEF Afforded
<1> QED
  BY <1>2, <1>3, <1>4 DEF StructuredInv, Streams, Dispatches, Settles, SiblingsNeverRun

(* Steps that change no turn before the last, and the last one only while   *)
(* it is no turn in which a tool was executed, keep what was executed.      *)
LEMMA EffectsStay ==
  ASSUME StructuredInv, effects' = effects, SameBefore(port, port'),
         port'.turns = port.turns \/ Len(port.turns) \notin effects
  PROVE  /\ effects' \subseteq 1..Len(port'.turns)
         /\ \A k \in effects' : \A j \in 1..k : Research(port'.turns[j])
<1>1. Len(port.turns) \in Nat /\ Len(port'.turns) = Len(port.turns) /\ effects \subseteq 1..Len(port.turns)
  BY ReturnFields DEF SameBefore, StructuredInv, StructuredTypeOK
<1>2. ASSUME NEW k \in effects, NEW j \in 1..k PROVE Research(port'.turns[j])
  <2>1. Research(port.turns[j])
    BY DEF StructuredInv, SiblingsNeverRun
  <2>2. CASE port'.turns = port.turns
    BY <2>1, <2>2
  <2>3. CASE Len(port.turns) \notin effects
    <3>1. k \in 1..(Len(port.turns) - 1)
      BY <1>1, <2>3
    <3>2. j \in 1..(Len(port.turns) - 1)
      BY <1>1, <3>1
    <3> QED
      BY <2>1, <3>2 DEF SameBefore
  <2> QED
    BY <2>2, <2>3
<1> QED
  BY <1>1, <1>2

(* One raw event the owner sees.                                           *)
LEMMA EventStep ==
  ASSUME StructuredInv, NEW q, SameBefore(port, q), Open(q), Event(q)
  PROVE  StructuredInv'
<1>1. /\ at = "streaming" /\ at' = "streaming" /\ port' = q /\ queue' = queue
      /\ ledger' = ledger /\ hooked' = hooked /\ expired' = expired
      /\ limited' = limited /\ effects' = effects /\ result' = result
  BY DEF Event, StreamUnchanged
<1>2. Len(port.turns) \notin effects /\ Len(q.turns) = Len(port.turns)
  BY <1>1 DEF StructuredInv, Streams, SameBefore
<1>3. StructuredTypeOK'
  BY <1>1 DEF StructuredInv, StructuredTypeOK, SameBefore
<1>4. effects' \subseteq 1..Len(port'.turns) /\ \A k \in effects' : \A j \in 1..k : Research(port'.turns[j])
  BY <1>1, <1>2, EffectsStay
<1>5. Afforded(q)
  BY AffordedStays DEF StructuredInv, StructuredTypeOK
<1> QED
  BY <1>1, <1>2, <1>3, <1>4, <1>5
  DEF StructuredInv, Streams, Dispatches, Settles, SiblingsNeverRun

LEMMA RequestStep ==
  ASSUME StructuredInv, Request
  PROVE  StructuredInv'
<1>0. /\ port \in ReturnType /\ at' \in Places /\ queue' = queue /\ hooked' = hooked /\ limited' = limited
      /\ effects' = effects /\ result' = result /\ expired' \in BOOLEAN
  BY DEF StructuredInv, StructuredTypeOK, Request, Lost, ClockIsRead, Places
<1>1. CASE port' \in ReturnType /\ port'.turns = port.turns /\ ledger' = ledger /\ at' = "broken"
           /\ (~port'.failed => ~port.failed /\ port'.attempts = port.attempts)
  <2>1. StructuredTypeOK'
    BY <1>0, <1>1 DEF StructuredInv, StructuredTypeOK
  <2>2. SameBefore(port, port')
    BY <1>1 DEF SameBefore
  <2>3. effects' \subseteq 1..Len(port'.turns) /\ \A k \in effects' : \A j \in 1..k : Research(port'.turns[j])
    BY <1>0, <1>1, <2>2, EffectsStay
  <2>4. Afforded(port')
    BY <1>0, <1>1, <2>2, AffordedStays DEF StructuredInv
  <2>5. ~port'.failed /\ port'.turns # <<>> /\ Current(port').terminal => Paid(port')
    BY <1>1 DEF Request, StructuredInv, Settles, Paid, Current
  <2> QED
    BY <1>0, <1>1, <2>1, <2>3, <2>4, <2>5
    DEF StructuredInv, Streams, Dispatches, Settles, SiblingsNeverRun
<1>2. CASE \E p \in ReturnType :
             /\ ~p.failed /\ p.accepted = None /\ at' = "streaming"
             /\ p.turns = port.turns /\ p.attempts = port.attempts /\ p.attempts < MaxSubmissions
             /\ ~port.failed /\ (port.turns # <<>> => Current(port).terminal)
             /\ port' = [p EXCEPT !.turns = Append(@, NewTurn)]
             /\ ledger' = [ledger EXCEPT !.assistantTurns = @ + 1]
  <2>1. PICK p \in ReturnType :
             /\ ~p.failed /\ p.accepted = None /\ at' = "streaming"
             /\ p.turns = port.turns /\ p.attempts = port.attempts /\ p.attempts < MaxSubmissions
             /\ ~port.failed /\ (port.turns # <<>> => Current(port).terminal)
             /\ port' = [p EXCEPT !.turns = Append(@, NewTurn)]
             /\ ledger' = [ledger EXCEPT !.assistantTurns = @ + 1]
    BY <1>2
  <2> DEFINE turns == Append(p.turns, NewTurn)
             n == Len(p.turns)
  <2>2. NewTurn \in TurnType /\ NewTurn.items = <<>> /\ NewTurn.calls = <<>> /\ ~NewTurn.terminal
    BY DEF NewTurn, TurnType
  <2>3. p.turns \in Seq(TurnType) /\ n \in Nat /\ p.attempts \in Nat
    BY ReturnFields
  <2>4. turns \in Seq(TurnType) /\ Len(turns) = n + 1 /\ turns[n + 1] = NewTurn
        /\ \A j \in 1..n : turns[j] = port.turns[j]
    BY <2>1, <2>2, <2>3
  <2>5. port' = [p EXCEPT !.turns = turns]
    BY <2>1 DEF ReturnType
  <2> HIDE DEF turns
  <2>6. /\ port' \in ReturnType /\ port'.turns = turns /\ port'.attempts = p.attempts
        /\ port'.accepted = None
    BY <2>1, <2>4, <2>5 DEF ReturnType
  <2>7. Paid(port) \/ port.turns = <<>>
    BY <2>1 DEF Request, StructuredInv, Settles
  <2>8. ASSUME NEW j \in 1..n, ~Research(turns[j]) PROVE n - j + 1 <= p.attempts
    <3>1. n > 0 /\ ~Research(port.turns[j]) /\ Len(port.turns) = n
      BY <2>1, <2>3, <2>4, <2>8
    <3>2. port.turns # <<>>
      BY <3>1
    <3>3. Paid(port)
      BY <2>7, <3>2
    <3> QED
      BY <2>1, <2>3, <3>1, <3>3 DEF Paid
  <2>9. PaidBefore(port')
    <3>1. \A j \in 1..n : ~Research(turns[j]) => (n + 1) - j <= p.attempts
      BY <2>3, <2>8
    <3> QED
      BY <2>3, <2>4, <2>6, <3>1 DEF PaidBefore
  <2>10. Afforded(port')
    <3>1. ASSUME NEW j \in 1..(n + 1), ~Research(turns[j]) PROVE (n + 1) - j < MaxSubmissions
      <4>1. CASE j = n + 1
        BY <2>3, <4>1, ReturnAssumption
      <4>2. CASE j # n + 1
        BY <2>1, <2>3, <2>8, <3>1, <4>2, ReturnAssumption
      <4> QED
        BY <4>1, <4>2
    <3> QED
      BY <2>4, <2>6, <3>1 DEF Afforded
  <2>11. Current(port') = NewTurn /\ port'.turns # <<>>
    BY <2>3, <2>4, <2>6 DEF Current
  <2>12. Open(port')
    BY <2>2, <2>6, <2>9, <2>11 DEF Open, WorkMarked
  <2>13. effects \subseteq 1..n /\ \A k \in effects : \A j \in 1..k : Research(port.turns[j])
    BY <2>1 DEF StructuredInv, SiblingsNeverRun
  <2>14. /\ effects' \subseteq 1..Len(port'.turns) /\ Len(port'.turns) \notin effects'
         /\ \A k \in effects' : \A j \in 1..k : Research(port'.turns[j])
    BY <1>0, <2>3, <2>4, <2>6, <2>13
  <2>15. ledger' \in [toolCalls : Nat, admittedToolCalls : Nat, assistantTurns : Nat]
    BY <2>1 DEF StructuredInv, StructuredTypeOK
  <2>16. StructuredTypeOK'
    <3>1. effects' \subseteq Nat
      BY <1>0 DEF StructuredInv, StructuredTypeOK
    <3> QED
      BY <1>0, <2>6, <2>15, <3>1 DEF StructuredInv, StructuredTypeOK
  <2> QED
    BY <2>1, <2>10, <2>12, <2>14, <2>16
    DEF StructuredInv, Streams, Dispatches, Settles, SiblingsNeverRun
<1>3. CASE ~hooked
  <2>1. port' = Failed(port) /\ ledger' = ledger /\ at' = "broken"
    BY <1>3 DEF Request, Lost
  <2> QED
    BY <1>0, <1>1, <2>1, FailedFacts
<1>4. CASE hooked
  <2>1. PICK route \in BOOLEAN :
          LET p == RequestChecked(port, route)
              outOfTurns == ledger.assistantTurns >= MaxTurns
          IN  IF p.failed \/ p.accepted # None \/ outOfTurns \/ expired'
              THEN /\ port' = IF p.accepted = None /\ outOfTurns THEN Failed(p) ELSE p
                   /\ at' = "broken"
                   /\ UNCHANGED ledger
              ELSE /\ port' = [p EXCEPT !.turns = Append(@, NewTurn)]
                   /\ ledger' = [ledger EXCEPT !.assistantTurns = @ + 1]
                   /\ at' = "streaming"
    BY <1>4 DEF Request
  <2>2. PICK p : p = RequestChecked(port, route)
    OBVIOUS
  <2>3. /\ p \in ReturnType /\ p.turns = port.turns /\ p.attempts = port.attempts
        /\ p.accepted = port.accepted
        /\ ~p.failed => /\ ~port.failed /\ (port.turns # <<>> => Current(port).terminal)
                        /\ port.accepted = None => port.attempts < MaxSubmissions
    BY <1>0, <2>2, RequestCheckedFacts
  <2>4. CASE p.failed \/ p.accepted # None \/ ledger.assistantTurns >= MaxTurns \/ expired'
    <3>1. (port' = p \/ port' = Failed(p)) /\ at' = "broken" /\ ledger' = ledger
      BY <2>1, <2>2, <2>4
    <3> QED
      BY <1>1, <2>3, <3>1, FailedFacts
  <2>5. CASE ~(p.failed \/ p.accepted # None \/ ledger.assistantTurns >= MaxTurns \/ expired')
    <3>1. /\ port' = [p EXCEPT !.turns = Append(@, NewTurn)]
          /\ ledger' = [ledger EXCEPT !.assistantTurns = @ + 1] /\ at' = "streaming"
      BY <2>1, <2>2, <2>5
    <3> QED
      BY <1>2, <2>3, <2>5, <3>1
  <2> QED
    BY <2>4, <2>5
<1> QED
  BY <1>3, <1>4 DEF StructuredInv, StructuredTypeOK

(* Steps that leave the turns alone.                                       *)
LEMMA TurnsKept ==
  ASSUME StructuredInv, effects' = effects, port' \in ReturnType, port'.turns = port.turns
  PROVE  /\ Afforded(port')
         /\ effects' \subseteq 1..Len(port'.turns)
         /\ \A k \in effects' : \A j \in 1..k : Research(port'.turns[j])
<1>1. SameBefore(port, port')
  BY DEF SameBefore
<1> QED
  BY <1>1, EffectsStay, AffordedStays DEF StructuredInv, StructuredTypeOK

(* The message ends: the stream, completed or not, is followed by its tools. *)
LEMMA MessageEndsStep ==
  ASSUME StructuredInv, at = "streaming", NEW q, SameBefore(port, q), SameItems(port, q), q.turns # <<>>,
         ~q.failed => Answered(q), MessageEnds(q), StreamUnchanged
  PROVE  StructuredInv'
<1>1. /\ at' = "tools" /\ port' = q /\ queue' = Current(port).items
      /\ ledger' = ledger /\ hooked' = hooked /\ expired' = expired
      /\ limited' = limited /\ effects' = effects /\ result' = result
  BY DEF MessageEnds, StreamUnchanged
<1>2. Open(port) /\ Len(port.turns) \notin effects /\ port \in ReturnType /\ q \in ReturnType
  BY DEF StructuredInv, StructuredTypeOK, Streams, SameBefore
<1>3. Current(port).items \in Seq(ItemType)
  BY <1>2, ReturnFields DEF Open, TurnType
<1>4. StructuredTypeOK'
  BY <1>1, <1>2, <1>3 DEF StructuredInv, StructuredTypeOK, Places
<1>5. effects' \subseteq 1..Len(port'.turns) /\ \A k \in effects' : \A j \in 1..k : Research(port'.turns[j])
  BY <1>1, <1>2, EffectsStay
<1>6. Afforded(q)
  BY <1>2, AffordedStays DEF StructuredInv
<1>7. queue' = Current(port').items
  BY <1>1 DEF SameItems
<1> QED
  BY <1>1, <1>4, <1>5, <1>6, <1>7
  DEF StructuredInv, Streams, Dispatches, Settles, SiblingsNeverRun

(* The stream breaks off in the open.                                      *)
LEMMA BreakStep ==
  ASSUME StructuredInv, at \in {"streaming", "tools"}, at' = "broken",
         port' \in ReturnType, port'.turns = port.turns, port'.failed \/ ~Current(port').terminal,
         queue' = queue, ledger' = ledger, hooked' = hooked, expired' = expired,
         limited' = limited, effects' = effects, result' = result
  PROVE  StructuredInv'
<1>1. StructuredTypeOK'
  BY DEF StructuredInv, StructuredTypeOK, Places
<1>2. /\ Afforded(port') /\ effects' \subseteq 1..Len(port'.turns)
      /\ \A k \in effects' : \A j \in 1..k : Research(port'.turns[j])
  BY TurnsKept
<1> QED
  BY <1>1, <1>2 DEF StructuredInv, Streams, Dispatches, Settles, SiblingsNeverRun

LEMMA CompletesStep ==
  ASSUME StructuredInv, NEW r \in Responses, NEW output, Completes(r, output)
  PROVE  StructuredInv'
<1>1. at = "streaming" /\ port \in ReturnType /\ Open(port)
  BY DEF Completes, StructuredInv, StructuredTypeOK, Streams
<1>2. CASE MessageEnds(TerminalCompleted(port, r, output))
  <2>1. PICK q : q = TerminalCompleted(port, r, output)
    OBVIOUS
  <2>2. SameBefore(port, q) /\ SameItems(port, q) /\ q.turns # <<>> /\ (~q.failed => Answered(q))
    BY <1>1, <2>1, TerminalFacts DEF Open
  <2>3. MessageEnds(q) /\ StreamUnchanged
    BY <1>2, <2>1 DEF Completes
  <2> QED
    BY <1>1, <2>2, <2>3, MessageEndsStep
<1>3. CASE at' = "broken" /\ UNCHANGED <<port, queue>>
  BY <1>1, <1>3, BreakStep DEF Completes, StreamUnchanged, Open
<1> QED
  BY <1>2, <1>3 DEF Completes

LEMMA EndsBadlyStep ==
  ASSUME StructuredInv, EndsBadly
  PROVE  StructuredInv'
<1>1. at = "streaming" /\ port \in ReturnType /\ Open(port)
  BY DEF EndsBadly, StructuredInv, StructuredTypeOK, Streams
<1>2. PICK q : q = Failed(port)
  OBVIOUS
<1>3. q \in ReturnType /\ q.turns = port.turns /\ q.failed
  BY <1>1, <1>2, FailedFacts
<1>4. SameBefore(port, q) /\ SameItems(port, q) /\ q.turns # <<>>
  BY <1>1, <1>3 DEF Open, SameBefore, SameItems, Current
<1>5. CASE MessageEnds(q)
  BY <1>1, <1>3, <1>4, <1>5, MessageEndsStep DEF EndsBadly
<1>6. CASE at' = "broken" /\ port' = q /\ UNCHANGED queue
  BY <1>1, <1>3, <1>6, BreakStep DEF EndsBadly, StreamUnchanged
<1> QED
  BY <1>2, <1>5, <1>6 DEF EndsBadly

LEMMA DisconnectsStep ==
  ASSUME StructuredInv, Disconnects
  PROVE  StructuredInv'
<1>1. at = "streaming" /\ port \in ReturnType /\ Open(port) /\ at' = "broken"
  BY DEF Disconnects, StructuredInv, StructuredTypeOK, Streams, Lost
<1>2. port' = port \/ port' = Failed(port)
  BY DEF Disconnects, Lost
<1>3. port' \in ReturnType /\ port'.turns = port.turns /\ (port'.failed \/ ~Current(port').terminal)
  BY <1>1, <1>2, FailedFacts DEF Open
<1> QED
  BY <1>1, <1>3, BreakStep DEF Disconnects, StreamUnchanged

(* A tool call is taken from the queue, whatever becomes of it.            *)
LEMMA QueueShrinks ==
  ASSUME StructuredInv, queue # <<>>
  PROVE  /\ Head(queue) \in ItemType /\ Tail(queue) \in Seq(ItemType)
         /\ Head(queue) \in ToSet(queue) /\ ToSet(Tail(queue)) \subseteq ToSet(queue)
<1>1. queue \in Seq(ItemType)
  BY DEF StructuredInv, StructuredTypeOK
<1>2. Len(queue) \in Nat /\ Len(queue) > 0 /\ Head(queue) = queue[1] /\ Head(queue) \in ItemType
  BY <1>1
<1>3. Tail(queue) \in Seq(ItemType) /\ Len(Tail(queue)) = Len(queue) - 1
      /\ \A k \in 1..Len(Tail(queue)) : Tail(queue)[k] = queue[k + 1] /\ k + 1 \in 1..Len(queue)
  BY <1>1, <1>2
<1> QED
  BY <1>1, <1>2, <1>3 DEF ToSet

LEMMA CountedType ==
  ASSUME StructuredInv
  PROVE  /\ Counted \in [toolCalls : Nat, admittedToolCalls : Nat, assistantTurns : Nat]
         /\ [Counted EXCEPT !.admittedToolCalls = @ + 1]
              \in [toolCalls : Nat, admittedToolCalls : Nat, assistantTurns : Nat]
         /\ OverBudget \in BOOLEAN
<1>1. ledger \in [toolCalls : Nat, admittedToolCalls : Nat, assistantTurns : Nat]
  BY DEF StructuredInv, StructuredTypeOK
<1>2. Counted \in [toolCalls : Nat, admittedToolCalls : Nat, assistantTurns : Nat]
  BY <1>1 DEF Counted
<1> QED
  BY <1>2 DEF OverBudget

(* What an answered turn lets a tool do to the owner.                      *)
LEMMA ToolStep ==
  ASSUME StructuredInv, at = "tools", queue # <<>>, queue' = Tail(queue),
         at' = at, hooked' = hooked, expired' = expired, result' = result,
         ledger' \in [toolCalls : Nat, admittedToolCalls : Nat, assistantTurns : Nat],
         limited' \in BOOLEAN,
         NEW c, port' \in {port, Failed(port), Executed(port, c)},
         \/ effects' = effects
         \/ /\ effects' = effects \cup {Len(port.turns)}
            /\ \A j \in 1..Len(port.turns) : Research(port.turns[j])
  PROVE  StructuredInv'
<1>1. port \in ReturnType /\ port.turns # <<>> /\ Len(port.turns) \in Nat
  BY ReturnFields DEF StructuredInv, StructuredTypeOK, Dispatches
<1>2. /\ port' \in ReturnType /\ port'.turns = port.turns /\ port'.attempts = port.attempts
      /\ ~port'.failed => ~port.failed /\ (port.accepted = None => port'.accepted = None)
  BY <1>1, FailedFacts, ExecutedFacts
<1>3. effects \subseteq 1..Len(port.turns) /\ \A k \in effects : \A j \in 1..k : Research(port.turns[j])
  BY DEF StructuredInv, SiblingsNeverRun
<1>4. effects' \subseteq 1..Len(port'.turns) /\ \A k \in effects' : \A j \in 1..k : Research(port'.turns[j])
  <2>1. CASE effects' = effects
    BY <1>2, <1>3, <2>1
  <2>2. CASE /\ effects' = effects \cup {Len(port.turns)}
             /\ \A j \in 1..Len(port.turns) : Research(port.turns[j])
    <3>1. Len(port.turns) \in 1..Len(port.turns)
      BY <1>1, ReturnFields
    <3> QED
      BY <1>2, <1>3, <2>2, <3>1
  <2> QED
    BY <2>1, <2>2
<1>5. Afforded(port')
  <2>1. SameBefore(port, port')
    BY <1>2 DEF SameBefore
  <2> QED
    BY <1>1, <2>1, AffordedStays DEF StructuredInv
<1>6. StructuredTypeOK'
  <2>1. effects' \subseteq Nat
    BY <1>1, <1>2, <1>4
  <2> QED
    BY <1>2, <2>1, QueueShrinks DEF StructuredInv, StructuredTypeOK
<1>7. ASSUME ~port'.failed PROVE Answered(port')
  <2>1. Answered(port)
    BY <1>2, <1>7 DEF StructuredInv, Dispatches
  <2>2. PICK q : q = port'
    OBVIOUS
  <2>3. q.turns = port.turns /\ q.attempts = port.attempts /\ (port.accepted = None => q.accepted = None)
    BY <1>2, <1>7, <2>2
  <2>4. Current(q) = Current(port) /\ (PaidBefore(port) => PaidBefore(q)) /\ (Paid(port) => Paid(q))
    BY <2>3 DEF Current, PaidBefore, Paid
  <2>5. Answered(q)
    BY <2>1, <2>3, <2>4 DEF Answered
  <2> QED
    BY <2>2, <2>5
<1>8. \A i \in ToSet(queue') : i \in ToSet(Current(port').items)
  BY <1>2, QueueShrinks DEF StructuredInv, Dispatches, Current
<1> QED
  BY <1>1, <1>2, <1>4, <1>5, <1>6, <1>7, <1>8
  DEF StructuredInv, Streams, Dispatches, Settles, SiblingsNeverRun

(* A work tool that is not blocked belongs to a turn of research after     *)
(* turns of research.                                                      *)
LEMMA WorkIsResearch ==
  ASSUME StructuredInv, at = "tools", queue # <<>>,
         Blocked(port, Head(queue)) = None, Head(queue).name = "work"
  PROVE  \A j \in 1..Len(port.turns) : Research(port.turns[j])
<1> DEFINE item == Head(queue)
<1>1. port \in ReturnType /\ port.turns # <<>> /\ Len(port.turns) \in Nat /\ port.attempts \in Nat
  BY ReturnFields DEF StructuredInv, StructuredTypeOK, Dispatches
<1>2. ~port.failed /\ ~(port.attempts > 0)
  BY ReturnAssumption DEF Blocked
<1>3. Answered(port) /\ port.attempts = 0
  BY <1>1, <1>2 DEF StructuredInv, Dispatches
<1>4. Returns(Current(port)) = <<>>
  BY <1>3 DEF Answered
<1>5. Current(port).workTools
  <2>1. item \in ToSet(Current(port).items)
    BY QueueShrinks DEF StructuredInv, Dispatches
  <2>2. Current(port).items \in Seq(ItemType)
    BY <1>1, ReturnFields DEF TurnType
  <2>3. PICK k \in 1..Len(Current(port).items) : item = Current(port).items[k]
    BY <2>1, <2>2 DEF ToSet
  <2> QED
    BY <1>3, <2>3 DEF Answered, WorkMarked
<1>6. Research(port.turns[Len(port.turns)])
  BY <1>4, <1>5 DEF Research, Current
<1>7. \A j \in 1..(Len(port.turns) - 1) : Research(port.turns[j])
  BY <1>1, <1>3, ResearchIsFree DEF Answered
<1> QED
  BY <1>1, <1>6, <1>7

LEMMA DispatchStep ==
  ASSUME StructuredInv, Dispatch
  PROVE  StructuredInv'
<1> DEFINE item == Head(queue)
           block == Blocked(port, item)
<1>1. /\ at = "tools" /\ queue # <<>> /\ queue' = Tail(queue)
      /\ at' = at /\ hooked' = hooked /\ expired' = expired /\ result' = result
  BY DEF Dispatch
<1>2. limited \in BOOLEAN
  BY DEF StructuredInv, StructuredTypeOK
<1>3. CASE /\ hooked /\ block = None /\ ledger.admittedToolCalls < MaxToolCalls
           /\ ledger' = [Counted EXCEPT !.admittedToolCalls = @ + 1]
           /\ limited' = (limited \/ OverBudget)
           /\ port' = IF item.name = "work" THEN port ELSE Executed(port, item.call)
           /\ effects' = IF item.name = "work" THEN effects \cup {Len(port.turns)} ELSE effects
  <2>1. item.name = "work" => \A j \in 1..Len(port.turns) : Research(port.turns[j])
    BY <1>1, <1>3, WorkIsResearch
  <2>2. limited' \in BOOLEAN
    BY <1>2, <1>3, CountedType
  <2>3. ledger' \in [toolCalls : Nat, admittedToolCalls : Nat, assistantTurns : Nat]
    BY <1>3, CountedType
  <2>4. port' \in {port, Failed(port), Executed(port, item.call)}
    BY <1>3
  <2>5. \/ effects' = effects
        \/ effects' = effects \cup {Len(port.turns)} /\ \A j \in 1..Len(port.turns) : Research(port.turns[j])
    BY <1>3, <2>1
  <2> QED
    BY <1>1, <2>2, <2>3, <2>4, <2>5, ToolStep
<1>4. CASE /\ effects' = effects /\ (ledger' = Counted)
           /\ limited' \in {TRUE, limited \/ OverBudget}
           /\ port' \in {port, Failed(port)}
  <2>1. limited' \in BOOLEAN
    BY <1>2, <1>4, CountedType
  <2>2. port' \in {port, Failed(port), Executed(port, item.call)}
    BY <1>4
  <2> QED
    BY <1>1, <1>4, <2>1, <2>2, CountedType, ToolStep
<1> QED
  BY <1>3, <1>4 DEF Dispatch

LEMMA HostRefusesStep ==
  ASSUME StructuredInv, HostRefuses
  PROVE  StructuredInv'
<1>1. limited' \in BOOLEAN
  BY CountedType DEF HostRefuses, StructuredInv, StructuredTypeOK
<1>2. port' \in {port, Failed(port), Executed(port, None)} /\ effects' = effects
  BY DEF HostRefuses
<1>3. ledger' \in [toolCalls : Nat, admittedToolCalls : Nat, assistantTurns : Nat]
  BY CountedType DEF HostRefuses
<1> QED
  BY <1>1, <1>2, <1>3, ToolStep DEF HostRefuses

LEMMA FinishTurnStep ==
  ASSUME StructuredInv, FinishTurn
  PROVE  StructuredInv'
<1>1. /\ at = "tools" /\ ledger' = ledger /\ queue' = queue /\ hooked' = hooked /\ expired' = expired
      /\ effects' = effects /\ result' = result
  BY DEF FinishTurn
<1>2. port \in ReturnType /\ port.turns # <<>> /\ limited \in BOOLEAN
  BY <1>1 DEF StructuredInv, StructuredTypeOK, Dispatches
<1>3. CASE Lost /\ UNCHANGED limited
  BY <1>1, <1>2, <1>3, FailedFacts, BreakStep DEF Lost
<1>4. CASE /\ port' = TurnFinished(port) /\ at' = "between"
           /\ limited' = (limited \/ (GoesOn(port') /\ ledger.assistantTurns >= MaxTurns))
  <2>1. PICK q : q = TurnFinished(port)
    OBVIOUS
  <2>2. /\ q \in ReturnType /\ q.turns = port.turns
        /\ ~q.failed /\ Answered(port) => Paid(q)
        /\ ~q.failed => ~port.failed
    BY <1>2, <2>1, TurnFinishedFacts
  <2>3. ~q.failed => Paid(q)
    BY <1>1, <2>2 DEF StructuredInv, Dispatches
  <2>4. limited' \in BOOLEAN
    BY <1>2, <1>4
  <2>5. port' = q
    BY <1>4, <2>1
  <2>6. /\ Afforded(port') /\ effects' \subseteq 1..Len(port'.turns)
        /\ \A k \in effects' : \A j \in 1..k : Research(port'.turns[j])
    BY <1>1, <2>2, <2>5, TurnsKept
  <2>7. StructuredTypeOK'
    BY <1>1, <1>4, <2>2, <2>4, <2>5 DEF StructuredInv, StructuredTypeOK, Places
  <2> QED
    BY <1>4, <2>3, <2>5, <2>6, <2>7 DEF StructuredInv, Streams, Dispatches, Settles, SiblingsNeverRun
<1> QED
  BY <1>3, <1>4 DEF FinishTurn

(* Steps of the host between turns.                                        *)
LEMMA HostStep ==
  ASSUME StructuredInv,
         port' \in ReturnType, port'.turns = port.turns, port'.attempts = port.attempts,
         port.failed => port'.failed,
         at' \in Places \ {"streaming", "tools", "broken"},
         at' \in {"between", "ended"} => at \in {"between", "ended", "broken"} \/ port.turns = <<>>,
         queue' \in Seq(ItemType), ledger' = ledger, hooked' \in BOOLEAN, expired' \in BOOLEAN,
         limited' \in BOOLEAN, effects' = effects, result' \in {None, "failed", "completed"}
  PROVE  StructuredInv'
<1>1. /\ Afforded(port') /\ effects' \subseteq 1..Len(port'.turns)
      /\ \A k \in effects' : \A j \in 1..k : Research(port'.turns[j])
  BY TurnsKept
<1>2. StructuredTypeOK'
  BY DEF StructuredInv, StructuredTypeOK, Places
<1>3. at' \notin {"streaming", "tools"}
  OBVIOUS
<1>4. Settles'
  <2>1. PICK q : q = port'
    OBVIOUS
  <2>2. /\ at' \in {"between", "broken", "ended"} /\ ~q.failed /\ q.turns # <<>> /\ Current(q).terminal
        => Paid(q)
    BY <2>1 DEF StructuredInv, Settles, Paid, Current
  <2> QED
    BY <2>1, <2>2 DEF Settles
<1> QED
  BY <1>1, <1>2, <1>3, <1>4 DEF StructuredInv, Streams, Dispatches, SiblingsNeverRun

LEMMA HostSteps ==
  ASSUME StructuredInv, PromptEnds \/ Inspect \/ Close \/ TurnStops \/ FreshChild
  PROVE  StructuredInv'
<1>1. /\ port \in ReturnType /\ queue \in Seq(ItemType) /\ hooked \in BOOLEAN /\ expired \in BOOLEAN
      /\ limited \in BOOLEAN /\ result \in {None, "failed", "completed"}
  BY DEF StructuredInv, StructuredTypeOK
<1>2. CASE PromptEnds
  BY <1>1, <1>2, HostStep DEF PromptEnds, HostUnchanged, Places
<1>3. CASE Inspect \/ Close
  <2>1. /\ port' \in ReturnType /\ port'.turns = port.turns /\ port'.attempts = port.attempts
        /\ port.failed => port'.failed
    BY <1>1, <1>3, InspectedFacts DEF Inspect, Close
  <2>2. expired' \in BOOLEAN
    BY <1>1, <1>3 DEF Inspect, Close, ClockIsRead
  <2>3. /\ queue' = queue /\ ledger' = ledger /\ hooked' = hooked /\ limited' = limited /\ effects' = effects
    BY <1>3 DEF Inspect, Close, HostUnchanged
  <2>4. /\ at' \in {"returned", "closing", "between"}
        /\ at' = "between" => at = "ended"
        /\ result' \in {None, "failed", "completed"}
    BY <1>1, <1>3 DEF Inspect, Close, Return
  <2>5. at' \in Places \ {"streaming", "tools", "broken"}
    BY <2>4 DEF Places
  <2> QED
    BY <1>1, <2>1, <2>2, <2>3, <2>4, <2>5, HostStep
<1>4. CASE TurnStops
  BY <1>1, <1>4, HostStep DEF TurnStops, Return, HostUnchanged, Places
<1>5. CASE FreshChild
  <2>1. expired' \in BOOLEAN
    BY <1>1, <1>5 DEF FreshChild, ClockIsRead
  <2>2. queue' \in Seq(ItemType)
    BY <1>5 DEF FreshChild
  <2>3. port' = port /\ port.turns = <<>> /\ at' = "between" /\ hooked' = TRUE /\ limited' = FALSE
        /\ ledger' = ledger /\ effects' = effects /\ result' = result
    BY <1>5 DEF FreshChild, CanRetry
  <2>4. at' \in Places \ {"streaming", "tools", "broken"}
    BY <2>3 DEF Places
  <2> QED
    BY <1>1, <2>1, <2>2, <2>3, <2>4, HostStep
<1> QED
  BY <1>2, <1>3, <1>4, <1>5

LEMMA CallSteps == StructuredInv /\ [Next]_vars => StructuredInv'
<1> SUFFICES ASSUME StructuredInv, [Next]_vars PROVE StructuredInv'
  OBVIOUS
<1>0. port \in ReturnType
  BY DEF StructuredInv, StructuredTypeOK
<1>1. CASE Request
  BY <1>1, RequestStep
<1>2. ASSUME NEW r \in Responses, Created(r) PROVE StructuredInv'
  <2>1. PICK q : q = ResponseCreated(port, r)
    OBVIOUS
  <2>2. Event(q) /\ Open(port)
    BY <1>2, <2>1 DEF Created, Event, StructuredInv, Streams
  <2> QED
    BY <1>0, <2>1, <2>2, CreatedOpen, EventStep
<1>3. ASSUME NEW c \in CallIds, NEW n \in Names, Added(c, n) PROVE StructuredInv'
  <2>1. PICK q : q = ToolAdded(port, c, n)
    OBVIOUS
  <2>2. Event(q) /\ Open(port)
    BY <1>3, <2>1 DEF Added, Event, StructuredInv, Streams
  <2> QED
    BY <1>0, <2>1, <2>2, AddedOpen, EventStep
<1>4. ASSUME NEW c \in CallIds, NEW arg \in Arguments, NEW twice \in BOOLEAN, Finalizes(c, arg, twice)
      PROVE  StructuredInv'
  <2>1. PICK q : q = ItemFinalized(port, c, arg, twice)
    OBVIOUS
  <2>2. Event(q) /\ Open(port)
    BY <1>4, <2>1 DEF Finalizes, Event, StructuredInv, Streams
  <2> QED
    BY <1>0, <2>1, <2>2, FinalizedOpen, EventStep
<1>5. CASE Refuses
  <2>1. PICK q : q = Failed(port)
    OBVIOUS
  <2>2. Event(q) /\ Open(port)
    BY <1>5, <2>1 DEF Refuses, Event, StructuredInv, Streams
  <2> QED
    BY <1>0, <2>1, <2>2, FailedOpen, EventStep
<1>6. ASSUME NEW r \in Responses, NEW output \in {"confirms", "differs", "refuses"}, Completes(r, output)
      PROVE  StructuredInv'
  BY <1>6, CompletesStep
<1>7. CASE EndsBadly
  BY <1>7, EndsBadlyStep
<1>8. CASE Disconnects
  BY <1>8, DisconnectsStep
<1>9. CASE Dispatch
  BY <1>9, DispatchStep
<1>10. CASE HostRefuses
  BY <1>10, HostRefusesStep
<1>11. CASE FinishTurn
  BY <1>11, FinishTurnStep
<1>12. CASE PromptEnds \/ Inspect \/ Close \/ TurnStops \/ FreshChild
  BY <1>12, HostSteps
<1>13. CASE HooksReplaced
  BY <1>13 DEF HooksReplaced, StructuredInv, StructuredTypeOK, Streams, Dispatches, Settles, SiblingsNeverRun
<1>14. CASE UNCHANGED vars
  BY <1>14 DEF vars, StructuredInv, StructuredTypeOK, Streams, Dispatches, Settles, SiblingsNeverRun
<1> QED
  BY <1>1, <1>2, <1>3, <1>4, <1>5, <1>6, <1>7, <1>8, <1>9, <1>10, <1>11, <1>12, <1>13, <1>14 DEF Next

LEMMA CallInvariant == Spec => []StructuredInv
BY CallStarts, CallSteps, PTL DEF Spec

-----------------------------------------------------------------------------
(* The types of a structured call: what the owner counts and judges stays  *)
(* well formed under every order of frames, tools and prompts.             *)
THEOREM StructuredTypeCorrect == Spec => []StructuredTypeOK
<1>1. StructuredInv => StructuredTypeOK
  BY DEF StructuredInv
<1> QED
  BY <1>1, CallInvariant, PTL

(* Work is done only by research: no tool runs in a turn that holds a       *)
(* return, nor after one that submitted, or should have submitted, a result *)
(* (beforeTool() and reconcileTerminal()).                                  *)
THEOREM OnlyResearchRuns == Spec => []SiblingsNeverRun
<1>1. StructuredInv => SiblingsNeverRun
  BY DEF StructuredInv
<1> QED
  BY <1>1, CallInvariant, PTL

(* From its first submission on, made or missed, the call gets at most as   *)
(* many turns as it has submissions (finishTurn() and beforeRequest()).     *)
THEOREM GenerationsAreBounded == Spec => []GenerationsBounded
<1>1. ASSUME StructuredInv PROVE GenerationsBounded
  <2> DEFINE n == Len(port.turns)
             G == {k \in DOMAIN port.turns : \E j \in 1..k : ~Research(port.turns[j])}
             low == n - MaxSubmissions + 1
  <2>1. n \in Nat /\ DOMAIN port.turns = 1..n /\ MaxSubmissions \in Nat \ {0}
    BY <1>1, ReturnFields, ReturnAssumption DEF StructuredInv, StructuredTypeOK
  <2>2. ASSUME NEW k \in G PROVE k \in low..n
    <3>1. PICK j \in 1..k : ~Research(port.turns[j])
      OBVIOUS
    <3>2. k \in 1..n /\ j \in 1..n
      BY <2>1, <3>1
    <3>3. n - j < MaxSubmissions
      BY <1>1, <3>1, <3>2 DEF StructuredInv, Afforded
    <3> QED
      BY <2>1, <3>2, <3>3
  <2>3. low \in Int /\ n \in Int /\ (IF low > n THEN 0 ELSE n - low + 1) = MaxSubmissions
    BY <2>1
  <2>4. IsFiniteSet(low..n) /\ Cardinality(low..n) = MaxSubmissions
    BY <2>3, FS_Interval
  <2>5. Cardinality(G) <= MaxSubmissions
    BY <2>2, <2>4, FS_Subset
  <2> QED
    BY <2>5 DEF GenerationsBounded
<1> QED
  BY <1>1, CallInvariant, PTL
-----------------------------------------------------------------------------
(* The count of the submissions, from the turns alone                      *)

\* The places of the proposals: a turn, and an ordinal among its calls.
Spots(p) == UNION {{k} \X DOMAIN p.turns[k].calls : k \in DOMAIN p.turns}
CallAt(p, s) == p.turns[s[1]].calls[s[2]]
VerdictAt(p, s) == p.verdicts[CallAt(p, s)]
Spent(p) == {CallAt(p, s) : s \in Spots(p)}
Before(s, u) == s[1] < u[1] \/ (s[1] = u[1] /\ s[2] < u[2])

\* A batch that is rejected as a whole, a turn that submits or should have, one that should have.
Mixes(t) == t.workTools /\ t.calls # <<>>
Costs(t) == t.calls # <<>> \/ ~t.workTools
Misses(p, k) == p.turns[k].calls = <<>> /\ \E j \in 1..k : Costs(p.turns[j])

\* The turns that are a submission each, up to m for those that have no call.
Whole(p, m) == {k \in DOMAIN p.turns : Mixes(p.turns[k]) \/ (k <= m /\ Misses(p, k))}

\* The calls that are a submission each.
Single(p) == {s \in Spots(p) : ~Mixes(p.turns[s[1]])
                               /\ VerdictAt(p, s).validation \in {"rejected", "accepted"}}

Tally(p, m) ==
    /\ IsFiniteSet(Whole(p, m)) /\ IsFiniteSet(Single(p))
    /\ p.attempts = Cardinality(Whole(p, m)) + Cardinality(Single(p))

\* Every turn but the last was completed, under an identity of its own.
Named(p) ==
    /\ \A k \in 1..Len(p.turns) : p.turns[k].terminal => p.turns[k].responseId # None
    /\ \A k \in 1..(Len(p.turns) - 1) : p.turns[k].terminal
    /\ \A j, k \in 1..Len(p.turns) :
         j # k /\ p.turns[j].responseId # None => p.turns[j].responseId # p.turns[k].responseId

\* No call is proposed twice, and each was observed.
Placed(p) == \A s, u \in Spots(p) : s # u => CallAt(p, s) # CallAt(p, u)
Known(p) == Spent(p) \subseteq Observed(p)

\* Until a proposal is accepted each was rejected, and so was each of a batch with work.
Told(p) ==
    \A s \in Spots(p) :
        p.accepted = None \/ Mixes(p.turns[s[1]]) => VerdictAt(p, s).validation = "rejected"

\* The place of the accepted value: the last turn, after rejections, before repetitions.
Chosen(p, s) ==
    /\ s[1] = Len(p.turns) /\ VerdictAt(p, s) = Verdict(p.accepted.value, "accepted")
    /\ \A u \in Spots(p) :
         /\ Before(u, s) => VerdictAt(p, u).validation = "rejected"
         /\ Before(s, u) => VerdictAt(p, u) = Verdict(p.accepted.value, "duplicate")

Decided(p) ==
    p.accepted # None =>
        /\ p.attempts \in 1..MaxSubmissions /\ ~Mixes(Current(p))
        /\ \E s \in Spots(p) : Chosen(p, s)

Judgement(p) == Placed(p) /\ Told(p) /\ Decided(p)
Sound(p) == Named(p) /\ Known(p) /\ Judgement(p)

\* The items of the open response are new, and no two are one.
Fresh(p) ==
    /\ \A i \in 1..Len(Current(p).items) : Current(p).items[i].call \notin Spent(p)
    /\ \A i, j \in 1..Len(Current(p).items) :
         i # j => Current(p).items[i].call # Current(p).items[j].call

Settled(p) == p.turns = <<>> \/ Current(p).terminal

\* What the host returned a value for.
Stands(p) ==
    /\ ~p.failed /\ p.accepted # None /\ p.accepted.executed
    /\ p.turns # <<>> /\ Current(p).terminal

Metered ==
    /\ ledger.assistantTurns = Len(port.turns) /\ Len(port.turns) <= MaxTurns
    /\ ledger.admittedToolCalls <= MaxToolCalls
    /\ ~port.failed /\ port.accepted # None /\ port.accepted.executed => ledger.admittedToolCalls > 0

ReceiptInv ==
    /\ StructuredInv
    /\ ~port.failed => Sound(port)
    /\ ~port.failed /\ at = "streaming" => Fresh(port)
    /\ ~port.failed /\ at \in {"streaming", "tools"} => Tally(port, Len(port.turns) - 1)
    /\ ~port.failed /\ Settled(port)
         /\ (at \in {"between", "broken", "ended", "closing"} \/ result = "completed")
       => Tally(port, Len(port.turns))
    /\ Metered
    /\ at = "closing" \/ result = "completed" => Stands(port)
    /\ result = "completed" => at = "returned"

LEMMA SpotsFacts ==
  ASSUME NEW p \in ReturnType
  PROVE  /\ \A s : s \in Spots(p) <=> \E k \in 1..Len(p.turns) : \E j \in 1..Len(p.turns[k].calls) : s = <<k, j>>
         /\ \A s \in Spots(p) : /\ s = <<s[1], s[2]>>
                                /\ s[1] \in 1..Len(p.turns) /\ s[2] \in 1..Len(p.turns[s[1]].calls)
                                /\ CallAt(p, s) \in CallIds
                                /\ VerdictAt(p, s) \in VerdictType \cup {None}
                                /\ CallAt(p, s) \in Spent(p)
<1>1. DOMAIN p.turns = 1..Len(p.turns)
  BY DEF ReturnType
<1>2. \A k \in 1..Len(p.turns) : p.turns[k].calls \in Seq(CallIds)
  BY ReturnFields DEF TurnType
<1>3. \A k \in 1..Len(p.turns) : DOMAIN p.turns[k].calls = 1..Len(p.turns[k].calls)
  BY <1>2
<1>4. \A s : s \in Spots(p) <=> \E k \in 1..Len(p.turns) : \E j \in 1..Len(p.turns[k].calls) : s = <<k, j>>
  BY <1>1, <1>3 DEF Spots
<1>5. ASSUME NEW s \in Spots(p)
      PROVE  /\ s = <<s[1], s[2]>>
             /\ s[1] \in 1..Len(p.turns) /\ s[2] \in 1..Len(p.turns[s[1]].calls)
             /\ CallAt(p, s) \in CallIds
             /\ VerdictAt(p, s) \in VerdictType \cup {None}
             /\ CallAt(p, s) \in Spent(p)
  <2>1. PICK k \in 1..Len(p.turns) : \E j \in 1..Len(p.turns[k].calls) : s = <<k, j>>
    BY <1>4
  <2>2. PICK j \in 1..Len(p.turns[k].calls) : s = <<k, j>>
    BY <2>1
  <2>3. s[1] = k /\ s[2] = j
    BY <2>2
  <2>4. CallAt(p, s) \in CallIds
    BY <1>2, <2>3 DEF CallAt
  <2>5. VerdictAt(p, s) \in VerdictType \cup {None}
    BY <2>4 DEF VerdictAt, ReturnType
  <2> QED
    BY <2>2, <2>3, <2>4, <2>5 DEF Spent
<1> QED
  BY <1>4, <1>5

LEMMA ObservedFacts ==
  ASSUME NEW p \in ReturnType
  PROVE  \A c : c \in Observed(p) <=>
            \E k \in 1..Len(p.turns) : \E i \in 1..Len(p.turns[k].items) : p.turns[k].items[i].call = c
<1>1. DOMAIN p.turns = 1..Len(p.turns)
  BY DEF ReturnType
<1>2. \A k \in 1..Len(p.turns) : p.turns[k].items \in Seq(ItemType)
  BY ReturnFields DEF TurnType
<1>3. \A k \in 1..Len(p.turns) : DOMAIN p.turns[k].items = 1..Len(p.turns[k].items)
  BY <1>2
<1>4. \A k \in 1..Len(p.turns) : \A x : x \in ToSet(p.turns[k].items)
         <=> \E i \in 1..Len(p.turns[k].items) : x = p.turns[k].items[i]
  BY <1>3 DEF ToSet
<1> DEFINE all == UNION {ToSet(p.turns[k].items) : k \in DOMAIN p.turns}
<1>5. \A x : x \in all <=> \E k \in 1..Len(p.turns) : x \in ToSet(p.turns[k].items)
  BY <1>1
<1>6. \A c : c \in Observed(p) <=> \E x \in all : c = x.call
  BY DEF Observed
<1> HIDE DEF all
<1>7. ASSUME NEW c, c \in Observed(p)
      PROVE  \E k \in 1..Len(p.turns) : \E i \in 1..Len(p.turns[k].items) : p.turns[k].items[i].call = c
  <2>1. PICK x \in all : c = x.call
    BY <1>6, <1>7
  <2>2. PICK k \in 1..Len(p.turns) : x \in ToSet(p.turns[k].items)
    BY <1>5, <2>1
  <2>3. PICK i \in 1..Len(p.turns[k].items) : x = p.turns[k].items[i]
    BY <1>4, <2>2
  <2> QED
    BY <2>1, <2>3
<1>8. ASSUME NEW k \in 1..Len(p.turns), NEW i \in 1..Len(p.turns[k].items)
      PROVE  p.turns[k].items[i].call \in Observed(p)
  <2>1. p.turns[k].items[i] \in ToSet(p.turns[k].items)
    BY <1>4
  <2>2. p.turns[k].items[i] \in all
    BY <1>5, <2>1
  <2> QED
    BY <1>6, <2>2
<1> QED
  BY <1>7, <1>8


\* The same proposals stand at the same places.
SameSpots(p, q) == Spots(q) = Spots(p) /\ \A s \in Spots(p) : CallAt(q, s) = CallAt(p, s)

(* Turns with the same calls have the same proposals.                      *)
LEMMA SameCalls ==
  ASSUME NEW p \in ReturnType, NEW q \in ReturnType, Len(q.turns) = Len(p.turns),
         \A k \in 1..Len(p.turns) : q.turns[k].calls = p.turns[k].calls
  PROVE  SameSpots(p, q)
<1>1. \A s : s \in Spots(p) <=> \E k \in 1..Len(p.turns) : \E j \in 1..Len(p.turns[k].calls) : s = <<k, j>>
  BY SpotsFacts
<1>2. \A s : s \in Spots(q) <=> \E k \in 1..Len(q.turns) : \E j \in 1..Len(q.turns[k].calls) : s = <<k, j>>
  BY SpotsFacts
<1>3. \A s : s \in Spots(q) <=> s \in Spots(p)
  BY <1>1, <1>2
<1>4. ASSUME NEW s \in Spots(p) PROVE CallAt(q, s) = CallAt(p, s)
  BY SpotsFacts DEF CallAt
<1> QED
  BY <1>3, <1>4 DEF SameSpots

(* What was judged stays judged while the proposals and verdicts stay.     *)
LEMMA SameJudgement ==
  ASSUME NEW p \in ReturnType, NEW q \in ReturnType, SameSpots(p, q), q.verdicts = p.verdicts,
         \A s \in Spots(p) : Mixes(q.turns[s[1]]) <=> Mixes(p.turns[s[1]]),
         q.accepted = None <=> p.accepted = None,
         p.accepted # None => /\ q.accepted.value = p.accepted.value
                              /\ Len(q.turns) = Len(p.turns) /\ q.attempts = p.attempts
                              /\ Mixes(Current(q)) <=> Mixes(Current(p))
  PROVE  /\ Judgement(p) => Judgement(q)
         /\ Spent(q) = Spent(p)
         /\ Single(q) = Single(p)
<1>1. Spots(q) = Spots(p) /\ \A s \in Spots(p) : CallAt(q, s) = CallAt(p, s) /\ VerdictAt(q, s) = VerdictAt(p, s)
  BY DEF SameSpots, VerdictAt
<1>2. Spent(q) = Spent(p)
  BY <1>1 DEF Spent
<1>3. Single(q) = Single(p)
  BY <1>1 DEF Single
<1>4. Placed(p) => Placed(q)
  BY <1>1 DEF Placed
<1>5. Told(p) => Told(q)
  BY <1>1 DEF Told
<1>6. Decided(p) => Decided(q)
  <2> SUFFICES ASSUME Decided(p), p.accepted # None
               PROVE  /\ q.attempts \in 1..MaxSubmissions /\ ~Mixes(Current(q))
                      /\ \E s \in Spots(q) : Chosen(q, s)
    BY DEF Decided
  <2>1. PICK s \in Spots(p) : Chosen(p, s)
    BY DEF Decided
  <2>2. Chosen(q, s)
    BY <1>1, <2>1 DEF Chosen
  <2> QED
    BY <1>1, <2>1, <2>2 DEF Decided
<1> QED
  BY <1>2, <1>3, <1>4, <1>5, <1>6 DEF Judgement

(* Which turns are a submission each is decided by their calls and marks.  *)
LEMMA SameWhole ==
  ASSUME NEW p \in ReturnType, NEW q \in ReturnType, Len(q.turns) = Len(p.turns), NEW m \in Int,
         \A k \in 1..Len(p.turns) :
            /\ Mixes(q.turns[k]) <=> Mixes(p.turns[k])
            /\ k <= m => /\ q.turns[k].calls = p.turns[k].calls
                         /\ q.turns[k].workTools = p.turns[k].workTools
  PROVE  Whole(q, m) = Whole(p, m)
<1>1. DOMAIN p.turns = 1..Len(p.turns) /\ DOMAIN q.turns = 1..Len(p.turns) /\ Len(p.turns) \in Nat
  BY DEF ReturnType
<1>2. ASSUME NEW k \in 1..Len(p.turns), k <= m PROVE Costs(q.turns[k]) <=> Costs(p.turns[k])
  BY <1>2 DEF Costs
<1>3. ASSUME NEW k \in 1..Len(p.turns), k <= m PROVE Misses(q, k) <=> Misses(p, k)
  <2>1. \A j \in 1..k : j \in 1..Len(p.turns) /\ j <= m
    BY <1>1, <1>3
  <2> QED
    BY <1>2, <1>3, <2>1 DEF Misses
<1> QED
  BY <1>1, <1>3 DEF Whole

(* A turn that was just opened counts for nothing yet.                     *)
LEMMA OpenedWhole ==
  ASSUME NEW p \in ReturnType, NEW q \in ReturnType, Len(q.turns) = Len(p.turns) + 1,
         \A k \in 1..Len(p.turns) : q.turns[k] = p.turns[k],
         q.turns[Len(p.turns) + 1].calls = <<>>
  PROVE  /\ SameSpots(p, q)
         /\ Whole(q, Len(p.turns)) = Whole(p, Len(p.turns))
<1> DEFINE n == Len(p.turns)
<1>1. DOMAIN p.turns = 1..n /\ DOMAIN q.turns = 1..(n + 1) /\ n \in Nat
  BY ReturnFields DEF ReturnType
<1>2. \A s : s \in Spots(p) <=> \E k \in 1..n : \E j \in 1..Len(p.turns[k].calls) : s = <<k, j>>
  BY SpotsFacts
<1>3. \A s : s \in Spots(q) <=> \E k \in 1..(n + 1) : \E j \in 1..Len(q.turns[k].calls) : s = <<k, j>>
  BY SpotsFacts
<1>4. Len(q.turns[n + 1].calls) = 0
  OBVIOUS
<1>5. \A s : s \in Spots(q) <=> s \in Spots(p)
  <2>1. \A s : s \in Spots(p) => s \in Spots(q)
    BY <1>1, <1>2, <1>3
  <2>2. ASSUME NEW s \in Spots(q) PROVE s \in Spots(p)
    <3>1. PICK k \in 1..(n + 1) : \E j \in 1..Len(q.turns[k].calls) : s = <<k, j>>
      BY <1>3
    <3>2. k # n + 1
      BY <1>4, <3>1
    <3>3. k \in 1..n
      BY <1>1, <3>2
    <3> QED
      BY <1>2, <3>1, <3>3
  <2> QED
    BY <2>1, <2>2
<1>6. SameSpots(p, q)
  <2>1. ASSUME NEW s \in Spots(p) PROVE CallAt(q, s) = CallAt(p, s)
    <3>1. s[1] \in 1..n
      BY SpotsFacts
    <3> QED
      BY <3>1 DEF CallAt
  <2> QED
    BY <1>5, <2>1 DEF SameSpots
<1>7. ~Mixes(q.turns[n + 1]) /\ ~(n + 1 <= n)
  BY <1>1 DEF Mixes
<1>8. ASSUME NEW k \in 1..n PROVE Misses(q, k) <=> Misses(p, k)
  <2>1. \A j \in 1..k : j \in 1..n
    BY <1>1
  <2> QED
    BY <2>1 DEF Misses
<1>9. Whole(q, n) = Whole(p, n)
  <2>1. ASSUME NEW k \in 1..(n + 1) PROVE k \in 1..n \/ k = n + 1
    BY <1>1
  <2>2. \A k \in 1..n : k \in 1..(n + 1)
    BY <1>1
  <2> QED
    BY <1>1, <1>7, <1>8, <2>1, <2>2 DEF Whole
<1> QED
  BY <1>6, <1>9


-----------------------------------------------------------------------------
(* One return is judged                                                    *)

\* The last turn goes on under its name.
SameName(p, q) ==
    /\ Current(q).responseId = Current(p).responseId
    /\ Current(q).terminal = Current(p).terminal

\* q is p with one more call, and a verdict on it.
Adds(p, q, c) ==
    /\ SameBefore(p, q) /\ SameItems(p, q) /\ SameName(p, q)
    /\ Current(q).calls = Append(Current(p).calls, c)
    /\ \A d \in CallIds \ {c} : q.verdicts[d] = p.verdicts[d]

Repeats(p, q, item) ==
    /\ p.accepted # None /\ q.accepted = p.accepted /\ q.attempts = p.attempts
    /\ q.verdicts[item.call] = Verdict(p.accepted.value, "duplicate")

Accepts(p, q, item) ==
    /\ p.accepted = None /\ q.accepted # None /\ ~q.accepted.executed
    /\ q.attempts = p.attempts + 1 /\ q.attempts <= MaxSubmissions
    /\ q.verdicts[item.call] = Verdict(q.accepted.value, "accepted")

Rejects(p, q, item) ==
    /\ p.accepted = None /\ q.accepted = None /\ q.attempts = p.attempts + 1
    /\ q.verdicts[item.call].validation = "rejected"

Judges(p, q, item) == Repeats(p, q, item) \/ Accepts(p, q, item) \/ Rejects(p, q, item)

NextSpot(p) == <<Len(p.turns), Len(Current(p).calls) + 1>>

(* A call that was not proposed before comes last and moves nothing.       *)
LEMMA Adding ==
  ASSUME NEW p \in ReturnType, p.turns # <<>>, NEW q, NEW c \in CallIds, Adds(p, q, c), c \notin Spent(p)
  PROVE  /\ Spots(q) = Spots(p) \cup {NextSpot(p)} /\ NextSpot(p) \notin Spots(p)
         /\ CallAt(q, NextSpot(p)) = c /\ VerdictAt(q, NextSpot(p)) = q.verdicts[c]
         /\ \A s \in Spots(p) : /\ CallAt(q, s) = CallAt(p, s) /\ VerdictAt(q, s) = VerdictAt(p, s)
                                /\ Before(s, NextSpot(p)) /\ ~Before(NextSpot(p), s)
         /\ Spent(q) = Spent(p) \cup {c}
         /\ Placed(p) => Placed(q)
<1> DEFINE n == Len(p.turns)
           new == NextSpot(p)
           m == Len(Current(p).calls)
<1>1. /\ n \in Nat /\ n > 0 /\ q \in ReturnType /\ Len(q.turns) = n /\ Current(p) \in TurnType
      /\ Current(p) = p.turns[n] /\ Current(q) = q.turns[n]
  BY ReturnFields DEF Adds, SameBefore, Current
<1>2. Current(p).calls \in Seq(CallIds) /\ m \in Nat /\ Current(q).calls = Append(Current(p).calls, c)
  BY <1>1 DEF Adds, TurnType
<1>3. Len(Current(q).calls) = m + 1 /\ Current(q).calls[m + 1] = c
      /\ \A j \in 1..m : Current(q).calls[j] = Current(p).calls[j]
  BY <1>2
<1>4. new = <<n, m + 1>>
  BY DEF NextSpot
<1> HIDE DEF new, m
<1>5. \A s : s \in Spots(p) <=> \E k \in 1..n : \E j \in 1..Len(p.turns[k].calls) : s = <<k, j>>
  BY SpotsFacts
<1>6. \A s : s \in Spots(q) <=> \E k \in 1..n : \E j \in 1..Len(q.turns[k].calls) : s = <<k, j>>
  BY <1>1, SpotsFacts
<1>7. \A k \in 1..n : k # n => k \in 1..(n - 1) /\ q.turns[k] = p.turns[k]
  BY <1>1 DEF Adds, SameBefore
<1>8. new \in Spots(q) /\ new \notin Spots(p)
  <2>1. m + 1 \in 1..(m + 1) /\ m + 1 \notin 1..m /\ n \in 1..n
    BY <1>1, <1>2
  <2>2. new \in Spots(q)
    BY <1>1, <1>3, <1>4, <1>6, <2>1
  <2>3. ASSUME new \in Spots(p) PROVE FALSE
    <3>1. new[1] = n /\ new[2] = m + 1
      BY <1>4
    <3>2. new[2] \in 1..Len(p.turns[new[1]].calls)
      BY <2>3, SpotsFacts
    <3> QED
      BY <1>1, <2>1, <3>1, <3>2 DEF m
  <2> QED
    BY <2>2, <2>3
<1>9. ASSUME NEW s \in Spots(p)
      PROVE  /\ s \in Spots(q) /\ CallAt(q, s) = CallAt(p, s) /\ CallAt(p, s) # c
             /\ Before(s, new) /\ ~Before(new, s)
  <2>1. /\ s = <<s[1], s[2]>> /\ s[1] \in 1..n /\ s[2] \in 1..Len(p.turns[s[1]].calls)
        /\ CallAt(p, s) \in Spent(p)
    BY SpotsFacts
  <2>2. new[1] = n /\ new[2] = m + 1
    BY <1>4
  <2>3. CASE s[1] = n
    <3>1. s[2] \in 1..m
      BY <1>1, <2>1, <2>3 DEF m
    <3>2. s[2] \in 1..(m + 1) /\ s[2] < m + 1
      BY <1>2, <3>1
    <3>3. s \in Spots(q)
      BY <1>1, <1>3, <1>6, <2>1, <2>3, <3>2
    <3>4. CallAt(q, s) = CallAt(p, s)
      BY <1>1, <1>3, <2>3, <3>1 DEF CallAt
    <3>5. Before(s, new) /\ ~Before(new, s)
      BY <1>1, <1>2, <2>2, <2>3, <3>1, <3>2 DEF Before
    <3> QED
      BY <2>1, <3>3, <3>4, <3>5
  <2>4. CASE s[1] # n
    <3>1. q.turns[s[1]] = p.turns[s[1]] /\ s[1] < n
      BY <1>1, <1>7, <2>1, <2>4
    <3>2. s \in Spots(q) /\ CallAt(q, s) = CallAt(p, s)
      BY <1>6, <2>1, <3>1 DEF CallAt
    <3>3. Before(s, new) /\ ~Before(new, s)
      BY <1>1, <2>1, <2>2, <3>1 DEF Before
    <3> QED
      BY <2>1, <3>2, <3>3
  <2> QED
    BY <2>3, <2>4
<1>10. ASSUME NEW s \in Spots(q), s # new PROVE s \in Spots(p)
  <2>1. s = <<s[1], s[2]>> /\ s[1] \in 1..n /\ s[2] \in 1..Len(q.turns[s[1]].calls)
    BY <1>1, SpotsFacts
  <2>2. CASE s[1] = n
    <3>1. s[2] \in 1..(m + 1) /\ s[2] # m + 1
      BY <1>1, <1>3, <1>4, <1>10, <2>1, <2>2
    <3>2. s[2] \in 1..m
      BY <1>2, <3>1
    <3> QED
      BY <1>1, <1>5, <2>1, <2>2, <3>2 DEF m
  <2>3. CASE s[1] # n
    BY <1>5, <1>7, <2>1, <2>3
  <2> QED
    BY <2>2, <2>3
<1>11. Spots(q) = Spots(p) \cup {new}
  BY <1>8, <1>9, <1>10
<1>12. CallAt(q, new) = c
  <2>1. new[1] = n /\ new[2] = m + 1
    BY <1>4
  <2> QED
    BY <1>1, <1>3, <2>1 DEF CallAt
<1>13. \A s \in Spots(p) : VerdictAt(q, s) = VerdictAt(p, s)
  <2>1. \A s \in Spots(p) : CallAt(p, s) \in CallIds
    BY SpotsFacts
  <2> QED
    BY <1>9, <2>1 DEF VerdictAt, Adds
<1>14. Spent(q) = Spent(p) \cup {c}
  <2>1. \A d : d \in Spent(p) <=> \E s \in Spots(p) : d = CallAt(p, s)
    BY DEF Spent
  <2>2. \A d : d \in Spent(q) <=> \E s \in Spots(q) : d = CallAt(q, s)
    BY DEF Spent
  <2>3. ASSUME NEW d PROVE d \in Spent(q) <=> d \in Spent(p) \/ d = c
    BY <1>9, <1>11, <1>12, <2>1, <2>2
  <2> QED
    BY <2>3
<1>15. Placed(p) => Placed(q)
  BY <1>9, <1>11, <1>12 DEF Placed
<1> QED
  BY <1>8, <1>9, <1>11, <1>12, <1>13, <1>14, <1>15 DEF new, VerdictAt

(* propose(), case by case.                                                *)
LEMMA ProposeCases ==
  ASSUME NEW p \in ReturnType, NEW item \in ItemType, ~Propose(p, item).failed
  PROVE  /\ ~p.failed /\ Judges(p, Propose(p, item), item)
         /\ \A d \in CallIds \ {item.call} : Propose(p, item).verdicts[d] = p.verdicts[d]
<1> DEFINE over == IF p.attempts + 1 > MaxSubmissions THEN Failed(p) ELSE p
           m == over.attempts + 1
           q == [over EXCEPT !.attempts = m]
           a == [q EXCEPT !.accepted = [value |-> item.arguments, executed |-> FALSE]]
           d == IF item.arguments = p.accepted.value THEN p ELSE Failed(p)
           r == Propose(p, item)
<1>1. item.call \in CallIds /\ item.arguments \in Arguments \cup {None} /\ p.attempts \in Nat
  BY ReturnFields DEF ItemType
<1>2. \A v \in {"accepted", "rejected", "duplicate"} :
         Verdict(item.arguments, v) \in VerdictType /\ Verdict(item.arguments, v).validation = v
  BY <1>1 DEF Verdict, VerdictType
<1>3. /\ over \in ReturnType /\ over.verdicts = p.verdicts /\ over.attempts = p.attempts
      /\ over.accepted = p.accepted
      /\ ~over.failed => ~p.failed /\ p.attempts + 1 <= MaxSubmissions
  BY <1>1, FailedFacts, ReturnAssumption
<1>4. /\ d \in ReturnType /\ d.verdicts = p.verdicts /\ d.attempts = p.attempts
      /\ ~d.failed => d = p /\ ~p.failed /\ item.arguments = p.accepted.value
  BY FailedFacts
<1>5. m \in Nat /\ m = p.attempts + 1
  BY <1>1, <1>3
<1>6. q = [over EXCEPT !.attempts = @ + 1]
  BY <1>3 DEF ReturnType
<1> HIDE DEF over, d, m
<1>7. /\ q \in ReturnType /\ q.verdicts = p.verdicts /\ q.attempts = m /\ q.accepted = p.accepted
      /\ q.failed = over.failed
  BY <1>3, <1>5 DEF ReturnType
<1> HIDE DEF q
<1>8. item.arguments \in Values
        => /\ a \in ReturnType /\ a.verdicts = q.verdicts /\ a.attempts = m /\ a.failed = q.failed
           /\ a.accepted = [value |-> item.arguments, executed |-> FALSE]
  BY <1>7 DEF ReturnType
<1> HIDE DEF a
<1>9. CASE p.accepted # None
  <2>1. r = Judged(d, item.call, Verdict(item.arguments, "duplicate"))
    BY <1>6, <1>9 DEF Propose, d
  <2>2. ~d.failed
    BY <1>1, <1>2, <1>4, <2>1, JudgedFacts
  <2>3. r.verdicts = [d.verdicts EXCEPT ![item.call] = Verdict(item.arguments, "duplicate")]
        /\ r.attempts = d.attempts /\ r.accepted = d.accepted
    BY <1>4, <2>1 DEF Judged, ReturnType
  <2>4. r.verdicts[item.call] = Verdict(p.accepted.value, "duplicate")
        /\ \A e \in CallIds \ {item.call} : r.verdicts[e] = p.verdicts[e]
    BY <1>1, <1>4, <2>2, <2>3 DEF ReturnType
  <2>5. Repeats(p, r, item)
    BY <1>4, <1>9, <2>2, <2>3, <2>4 DEF Repeats
  <2> QED
    BY <1>4, <2>2, <2>4, <2>5 DEF Judges
<1>10. CASE p.accepted = None /\ item.arguments \in Values /\ ~q.failed
  <2>1. r = Judged(a, item.call, Verdict(item.arguments, "accepted"))
    BY <1>6, <1>10 DEF Propose, a, over
  <2>2. a \in ReturnType /\ a.verdicts = p.verdicts /\ a.attempts = m
        /\ a.accepted = [value |-> item.arguments, executed |-> FALSE]
    BY <1>7, <1>8, <1>10
  <2>3. r.verdicts = [a.verdicts EXCEPT ![item.call] = Verdict(item.arguments, "accepted")]
        /\ r.attempts = a.attempts /\ r.accepted = a.accepted
    BY <2>1, <2>2 DEF Judged, ReturnType
  <2>4. r.verdicts[item.call] = Verdict(item.arguments, "accepted")
        /\ \A e \in CallIds \ {item.call} : r.verdicts[e] = p.verdicts[e]
    BY <1>1, <2>2, <2>3 DEF ReturnType
  <2>5. r.accepted # None /\ r.accepted.value = item.arguments /\ ~r.accepted.executed
    <3>1. a.accepted \in [value : Values, executed : BOOLEAN]
      BY <1>10, <2>2
    <3>2. a.accepted # None
      BY <3>1, ReturnAssumption
    <3> QED
      BY <2>2, <2>3, <3>2
  <2>6. Accepts(p, r, item)
    BY <1>3, <1>5, <1>7, <1>10, <2>2, <2>3, <2>4, <2>5 DEF Accepts
  <2> QED
    BY <1>3, <1>7, <1>10, <2>4, <2>6 DEF Judges
<1>11. CASE p.accepted = None /\ ~(item.arguments \in Values /\ ~q.failed)
  <2>1. r = Judged(Exhausted(q), item.call, Verdict(item.arguments, "rejected"))
    BY <1>6, <1>11 DEF Propose, over
  <2> DEFINE x == Exhausted(q)
  <2>2. /\ x \in ReturnType /\ x.verdicts = p.verdicts /\ x.attempts = m /\ x.accepted = None
        /\ q.failed => x.failed
    BY <1>7, <1>11, ExhaustedFacts
  <2> HIDE DEF x
  <2>3. r.verdicts = [x.verdicts EXCEPT ![item.call] = Verdict(item.arguments, "rejected")]
        /\ r.attempts = x.attempts /\ r.accepted = x.accepted /\ r.failed = x.failed
    BY <2>1, <2>2 DEF Judged, ReturnType, x
  <2>4. r.verdicts[item.call] = Verdict(item.arguments, "rejected")
        /\ \A e \in CallIds \ {item.call} : r.verdicts[e] = p.verdicts[e]
    BY <1>1, <2>2, <2>3 DEF ReturnType
  <2>5. Rejects(p, r, item)
    BY <1>2, <1>5, <1>11, <2>2, <2>3, <2>4 DEF Rejects
  <2> QED
    BY <1>3, <1>7, <2>2, <2>3, <2>4, <2>5 DEF Judges
<1> QED
  BY <1>9, <1>10, <1>11


(* finalized(), as long as nothing fails.                                  *)
LEMMA FinalizedCases ==
  ASSUME NEW p \in ReturnType, p.turns # <<>>, NEW item \in ItemType, ~Finalized(p, item).failed
  PROVE  /\ ~p.failed /\ item.call \in CallIds
         /\ Adds(p, Finalized(p, item), item.call)
         /\ Judges(p, Finalized(p, item), item)
<1> DEFINE t == [Current(p) EXCEPT !.calls = Append(@, item.call)]
           q == OnTurn(p, t)
           r == Finalized(p, item)
<1>1. item.call \in CallIds /\ Verdict(item.arguments, "rejected") \in VerdictType
  BY DEF ItemType, Verdict, VerdictType
<1>2. Current(p) \in TurnType
  BY ReturnFields
<1>3. /\ t \in TurnType /\ t.items = Current(p).items /\ t.workTools = Current(p).workTools
      /\ t.calls = Append(Current(p).calls, item.call)
      /\ t.responseId = Current(p).responseId /\ t.terminal = Current(p).terminal
  <2>1. Append(Current(p).calls, item.call) \in Seq(CallIds)
    BY <1>1, <1>2 DEF TurnType
  <2> QED
    BY <1>2, <2>1 DEF TurnType
<1>4. r = IF ~q.failed THEN Propose(q, item)
          ELSE Judged([q EXCEPT !.attempts = IF q.accepted = None THEN @ + 1 ELSE @],
                      item.call, Verdict(item.arguments, "rejected"))
  BY DEF Finalized
<1> HIDE DEF t, r
<1>5. /\ SameBefore(p, q) /\ Current(q) = t /\ q.turns # <<>>
      /\ q.attempts = p.attempts /\ q.accepted = p.accepted /\ q.failed = p.failed
  BY <1>3, OnTurnFacts
<1>6. q.verdicts = p.verdicts /\ q \in ReturnType
  BY <1>5 DEF OnTurn, ReturnType, SameBefore
<1> HIDE DEF q
<1>7. ~q.failed
  <2> SUFFICES ASSUME q.failed PROVE r.failed
    BY DEF r
  <2> DEFINE m == IF q.accepted = None THEN q.attempts + 1 ELSE q.attempts
             z == [q EXCEPT !.attempts = IF q.accepted = None THEN @ + 1 ELSE @]
  <2>1. m \in Nat
    BY <1>6, ReturnFields
  <2>3. z = [q EXCEPT !.attempts = m]
    BY <1>6 DEF ReturnType
  <2> HIDE DEF m
  <2>4. z \in ReturnType /\ z.failed = q.failed
    BY <1>6, <2>1, <2>3 DEF ReturnType
  <2>2. r = Judged(z, item.call, Verdict(item.arguments, "rejected"))
    BY <1>4
  <2> HIDE DEF z
  <2> QED
    BY <1>1, <2>2, <2>4, JudgedFacts
<1>8. r = Propose(q, item)
  BY <1>4, <1>7
<1>9. ~Propose(q, item).failed
  BY <1>8 DEF r
<1>10. Judges(q, r, item) /\ \A d \in CallIds \ {item.call} : r.verdicts[d] = q.verdicts[d]
  BY <1>6, <1>8, <1>9, ProposeCases
<1>11. r \in ReturnType /\ r.turns = q.turns
  BY <1>6, <1>8, ProposeFacts
<1>12. Judges(p, r, item)
  BY <1>5, <1>10 DEF Judges, Repeats, Accepts, Rejects
<1>13. Current(r) = t
  BY <1>5, <1>11 DEF Current
<1>14. Adds(p, r, item.call)
  BY <1>3, <1>5, <1>6, <1>10, <1>11, <1>13 DEF Adds, SameBefore, SameItems, SameName
<1> QED
  BY <1>1, <1>5, <1>7, <1>12, <1>14 DEF r

\* The value was not executed yet.
Unused(p) == p.accepted # None => ~p.accepted.executed

\* The judgement stands and the count is right, turns after m without a call aside.
Billed(p, m) == Judgement(p) /\ Tally(p, m) /\ Unused(p)

(* A return that is judged is counted once, and changes no verdict before. *)
LEMMA JudgedIsBilled ==
  ASSUME NEW p \in ReturnType, p.turns # <<>>, NEW item \in ItemType, NEW q,
         item.call \in CallIds, item.call \notin Spent(p), Adds(p, q, item.call), Judges(p, q, item),
         ~Current(p).workTools, Billed(p, Len(p.turns) - 1)
  PROVE  Billed(q, Len(p.turns) - 1)
<1> DEFINE n == Len(p.turns)
           new == NextSpot(p)
<1>1. /\ n \in Nat /\ n > 0 /\ q \in ReturnType /\ Len(q.turns) = n
      /\ Current(p) = p.turns[n] /\ Current(q) = q.turns[n]
  BY ReturnFields DEF Adds, SameBefore, Current
<1>2. /\ Spots(q) = Spots(p) \cup {new} /\ new \notin Spots(p) /\ VerdictAt(q, new) = q.verdicts[item.call]
      /\ \A s \in Spots(p) : /\ VerdictAt(q, s) = VerdictAt(p, s)
                             /\ Before(s, new) /\ ~Before(new, s)
      /\ Placed(q)
  BY Adding DEF Billed, Judgement
<1>3. ~Mixes(p.turns[n]) /\ ~Mixes(q.turns[n])
  BY <1>1 DEF Mixes, Adds, SameItems
<1>4. \A k \in 1..n : k # n => q.turns[k] = p.turns[k] /\ k \in 1..(n - 1)
  BY <1>1 DEF Adds, SameBefore
<1>5. Whole(q, n - 1) = Whole(p, n - 1)
  <2>1. \A k \in 1..n : Mixes(q.turns[k]) <=> Mixes(p.turns[k])
    BY <1>3, <1>4
  <2>2. \A k \in 1..n : k <= n - 1 => q.turns[k] = p.turns[k]
    BY <1>1, <1>4
  <2>3. n - 1 \in Int
    BY <1>1
  <2> QED
    BY <1>1, <2>1, <2>2, <2>3, SameWhole
<1>6. new[1] = n
  BY DEF NextSpot
<1>7. \A s \in Spots(p) : s[1] \in 1..n
  BY SpotsFacts
<1>8. \A s \in Spots(p) : Mixes(q.turns[s[1]]) <=> Mixes(p.turns[s[1]])
  BY <1>3, <1>4, <1>7
<1> HIDE DEF new, n
<1>9. ~Mixes(Current(q)) /\ ~Mixes(Current(p))
  BY <1>1, <1>3
<1>10. ASSUME NEW v, v = q.verdicts[item.call]
       PROVE  /\ v.validation \in {"rejected", "accepted"} => Single(q) = Single(p) \cup {new}
              /\ v.validation \notin {"rejected", "accepted"} => Single(q) = Single(p)
  <2>1. \A s \in Spots(p) : s \in Single(q) <=> s \in Single(p)
    BY <1>2, <1>8 DEF Single
  <2>2. new \in Single(q) <=> v.validation \in {"rejected", "accepted"}
    BY <1>2, <1>3, <1>6, <1>10 DEF Single
  <2>3. Single(q) \subseteq Spots(q) /\ Single(p) \subseteq Spots(p)
    BY DEF Single
  <2>4. Single(q) \subseteq Spots(p) \cup {new}
    BY <1>2, <2>3
  <2>5. \A s : s \in Single(q) => s \in Single(p) \/ s = new
    BY <2>1, <2>4
  <2>6. \A s : s \in Single(p) => s \in Single(q)
    BY <2>1, <2>3
  <2>7. new \notin Single(p)
    BY <1>2, <2>3
  <2> QED
    BY <2>2, <2>5, <2>6, <2>7
<1>11. new \notin Single(p)
  BY <1>2 DEF Single
<1>12. Unused(q)
  BY DEF Judges, Repeats, Accepts, Rejects, Billed, Unused
<1>13. CASE Repeats(p, q, item)
  <2>1. Verdict(p.accepted.value, "duplicate").validation = "duplicate"
    BY DEF Verdict
  <2>2. Single(q) = Single(p)
    BY <1>10, <1>13, <2>1 DEF Repeats
  <2>3. Tally(q, n - 1)
    BY <1>5, <1>13, <2>2 DEF Repeats, Tally, Billed, n
  <2>4. Told(q)
    BY <1>2, <1>3, <1>6, <1>8, <1>13 DEF Told, Repeats, Billed, Judgement
  <2>5. Decided(q)
    <3>1. PICK s \in Spots(p) : Chosen(p, s)
      BY <1>13 DEF Repeats, Decided, Billed, Judgement
    <3>2. Chosen(q, s)
      BY <1>1, <1>2, <1>13, <3>1 DEF Chosen, Repeats, n
    <3>3. p.attempts \in 1..MaxSubmissions
      BY <1>13 DEF Repeats, Decided, Billed, Judgement
    <3> QED
      BY <1>2, <1>9, <1>13, <3>2, <3>3 DEF Decided, Repeats
  <2> QED
    BY <1>2, <1>12, <2>3, <2>4, <2>5 DEF Billed, Judgement, n
<1>14. CASE Accepts(p, q, item) \/ Rejects(p, q, item)
  <2>1. Verdict(q.accepted.value, "accepted").validation = "accepted"
    BY DEF Verdict
  <2>2. Single(q) = Single(p) \cup {new}
    BY <1>10, <1>14, <2>1 DEF Accepts, Rejects
  <2>3. p.accepted = None /\ q.attempts = p.attempts + 1
    BY <1>14 DEF Accepts, Rejects
  <2>4. Tally(q, n - 1)
    <3>1. IsFiniteSet(Single(p)) /\ IsFiniteSet(Whole(p, n - 1))
          /\ p.attempts = Cardinality(Whole(p, n - 1)) + Cardinality(Single(p))
      BY DEF Tally, Billed, n
    <3>2. IsFiniteSet(Single(q)) /\ Cardinality(Single(q)) = Cardinality(Single(p)) + 1
      BY <1>11, <2>2, <3>1, FS_AddElement
    <3>3. Cardinality(Single(p)) \in Nat /\ Cardinality(Whole(p, n - 1)) \in Nat
      BY <3>1, FS_CardinalityType
    <3>4. q.attempts = Cardinality(Whole(p, n - 1)) + Cardinality(Single(q))
      BY <2>3, <3>1, <3>2, <3>3
    <3> QED
      BY <1>5, <3>1, <3>2, <3>4 DEF Tally
  <2>5. \A s \in Spots(p) : VerdictAt(p, s).validation = "rejected"
    BY <2>3 DEF Told, Billed, Judgement
  <2>6. Told(q)
    BY <1>2, <1>3, <1>6, <1>14, <2>5 DEF Told, Accepts, Rejects
  <2>7. Decided(q)
    <3> SUFFICES ASSUME q.accepted # None
                 PROVE  /\ q.attempts \in 1..MaxSubmissions /\ ~Mixes(Current(q))
                        /\ \E s \in Spots(q) : Chosen(q, s)
      BY DEF Decided
    <3>1. Accepts(p, q, item)
      BY <1>14 DEF Rejects
    <3>2. ~Before(new, new)
      <4>1. \A i \in Nat : ~(i < i)
        OBVIOUS
      <4>2. new = <<n, Len(Current(p).calls) + 1>> /\ Len(Current(p).calls) + 1 \in Nat
        <5>1. Current(p).calls \in Seq(CallIds)
          BY ReturnFields DEF TurnType
        <5>2. Len(Current(p).calls) + 1 \in Nat
          BY <5>1
        <5> QED
          BY <5>2 DEF new, NextSpot, n
      <4>3. new[1] = n /\ new[2] \in Nat
        BY <4>2
      <4> QED
        BY <1>1, <4>1, <4>3 DEF Before
    <3>3. Chosen(q, new)
      BY <1>1, <1>2, <1>6, <2>5, <3>1, <3>2 DEF Chosen, Accepts, n
    <3>4. q.attempts \in 1..MaxSubmissions
      BY <2>3, <3>1, ReturnFields, ReturnAssumption DEF Accepts
    <3> QED
      BY <1>2, <1>9, <3>3, <3>4
  <2> QED
    BY <1>2, <1>12, <2>4, <2>6, <2>7 DEF Billed, Judgement, n
<1> QED
  BY <1>13, <1>14 DEF Judges


(* The returns of a response are items of it, and no two are one.          *)
LEMMA ReturnsApart ==
  ASSUME NEW t, t.items \in Seq(ItemType),
         \A i, j \in 1..Len(t.items) : i # j => t.items[i].call # t.items[j].call
  PROVE  /\ Returns(t) \in Seq(ItemType)
         /\ \A i \in 1..Len(Returns(t)) : \E k \in 1..Len(t.items) : Returns(t)[i] = t.items[k]
         /\ \A i, j \in 1..Len(Returns(t)) : i # j => Returns(t)[i].call # Returns(t)[j].call
<1> DEFINE n == Len(t.items)
           Apart(s, k) == /\ s \in Seq(ItemType)
                          /\ \A i \in 1..Len(s) : \E j \in 1..k : s[i] = t.items[j]
                          /\ \A i, j \in 1..Len(s) : i # j => s[i].call # s[j].call
<1>1. n \in Nat /\ \A k \in 1..n : t.items[k] \in ItemType
  OBVIOUS
<1>2. PICK g : /\ g[0] = <<>> /\ Returns(t) = g[n]
               /\ \A k \in 1..n : g[k] = Returned(t, k, g[k - 1])
  BY ReturnsSteps
<1> DEFINE Good == {k \in 0..n : Apart(g[k], k)}
<1> HIDE DEF n
<1>3. 0 \in Good
  <2>1. 0 \in 0..n
    BY <1>1
  <2>2. Apart(<<>>, 0)
    OBVIOUS
  <2> HIDE DEF Apart
  <2> QED
    BY <1>2, <2>1, <2>2
<1>4. ASSUME NEW k \in 0..(n - 1), k \in Good PROVE k + 1 \in Good
  <2>1. k + 1 \in 1..n /\ (k + 1) - 1 = k /\ k + 1 \in 0..n
    BY <1>1
  <2> DEFINE s == g[k]
             u == g[k + 1]
             new == t.items[k + 1]
  <2>2. u = Returned(t, k + 1, g[(k + 1) - 1])
    BY <1>2, <2>1
  <2>3. u = Returned(t, k + 1, s)
    BY <2>1, <2>2
  <2>4. Apart(s, k) /\ new \in ItemType
    BY <1>1, <1>4, <2>1
  <2> HIDE DEF s, u, new
  <2>5. CASE t.items[k + 1].name # "workflow_return"
    <3>1. u = s
      BY <2>3, <2>5 DEF Returned
    <3>2. \A j \in 1..k : j \in 1..(k + 1)
      OBVIOUS
    <3>3. Apart(u, k + 1)
      BY <2>4, <3>1, <3>2
    <3> QED
      BY <2>1, <3>3 DEF u
  <2>6. CASE t.items[k + 1].name = "workflow_return"
    <3>1. u = Append(s, new)
      BY <2>3, <2>6 DEF Returned, new
    <3>2. /\ u \in Seq(ItemType) /\ Len(s) \in Nat /\ Len(u) = Len(s) + 1 /\ u[Len(s) + 1] = new
          /\ \A i \in 1..Len(s) : u[i] = s[i]
      BY <2>4, <3>1
    <3>3. ASSUME NEW i \in 1..Len(s) PROVE (\E j \in 1..(k + 1) : u[i] = t.items[j]) /\ u[i].call # new.call
      <4>1. PICK j \in 1..k : s[i] = t.items[j]
        BY <2>4
      <4>2. j \in 1..(k + 1) /\ j \in 1..n /\ j # k + 1
        BY <1>1, <2>1
      <4>3. t.items[j].call # t.items[k + 1].call
        BY <2>1, <4>2 DEF n
      <4> QED
        BY <3>2, <4>1, <4>2, <4>3 DEF new
    <3>4. k + 1 \in 1..(k + 1) /\ u[Len(s) + 1] = t.items[k + 1]
      BY <3>2 DEF new
    <3>5. \A i \in 1..Len(u) : i \in 1..Len(s) \/ i = Len(s) + 1
      BY <3>2
    <3>6. \A i \in 1..Len(u) : \E j \in 1..(k + 1) : u[i] = t.items[j]
      BY <3>3, <3>4, <3>5
    <3>7. ASSUME NEW i \in 1..Len(u), NEW j \in 1..Len(u), i # j PROVE u[i].call # u[j].call
      <4>1. CASE i \in 1..Len(s) /\ j \in 1..Len(s)
        BY <2>4, <3>2, <3>7, <4>1
      <4>2. CASE i = Len(s) + 1 /\ j \in 1..Len(s)
        BY <3>2, <3>3, <4>2
      <4>3. CASE i \in 1..Len(s) /\ j = Len(s) + 1
        BY <3>2, <3>3, <4>3
      <4> QED
        BY <3>5, <3>7, <4>1, <4>2, <4>3
    <3>8. Apart(u, k + 1)
      BY <3>2, <3>6, <3>7
    <3> QED
      BY <2>1, <3>8 DEF u
  <2> QED
    BY <2>5, <2>6
<1> HIDE DEF Good
<1>5. n \in Good
  <2>1. 0..n \subseteq Good
    BY <1>1, <1>3, <1>4, UpTo
  <2> QED
    BY <1>1, <2>1
<1>6. Apart(Returns(t), n)
  BY <1>2, <1>5 DEF Good
<1> QED
  BY <1>6 DEF n

(* A batch of returns is counted return by return.                         *)
LEMMA EachFinalizedBilled ==
  ASSUME NEW p \in ReturnType, p.turns # <<>>, NEW returns \in Seq(ItemType),
         ~EachFinalized(p, returns).failed,
         \A i \in 1..Len(returns) : returns[i].call \notin Spent(p),
         \A i, j \in 1..Len(returns) : i # j => returns[i].call # returns[j].call,
         ~Current(p).workTools, Billed(p, Len(p.turns) - 1)
  PROVE  /\ Billed(EachFinalized(p, returns), Len(p.turns) - 1)
         /\ SameName(p, EachFinalized(p, returns))
         /\ \A c \in Spent(EachFinalized(p, returns)) :
               c \in Spent(p) \/ \E i \in 1..Len(returns) : c = returns[i].call
         /\ returns # <<>> => Current(EachFinalized(p, returns)).calls # <<>>
<1> DEFINE n == Len(returns)
           m == Len(p.turns) - 1
           Loop(q, k) ==
             /\ q \in ReturnType /\ q.turns # <<>>
             /\ SameBefore(p, q) /\ SameItems(p, q) /\ SameName(p, q)
             /\ Billed(q, m)
             /\ \A c \in Spent(q) : c \in Spent(p) \/ \E i \in 1..k : c = returns[i].call
             /\ k > 0 => Current(q).calls # <<>>
<1>1. n \in Nat /\ (\A k \in 1..n : returns[k] \in ItemType)
  OBVIOUS
<1>2. PICK g : /\ g[0] = p /\ EachFinalized(p, returns) = g[n]
               /\ \A k \in 1..n : g[k] = Finalized(g[k - 1], returns[k])
  BY EachFinalizedSteps
<1> DEFINE Alive(q) == q \in ReturnType /\ q.turns # <<>>
           Good == {k \in 0..n : Alive(g[k]) /\ (g[k].failed \/ Loop(g[k], k))}
<1> HIDE DEF n
<1>3. 0 \in Good
  <2>1. 0 \in 0..n
    BY <1>1
  <2>2. SameBefore(p, p) /\ SameItems(p, p) /\ SameName(p, p)
    BY DEF SameBefore, SameItems, SameName
  <2>3. Loop(p, 0) /\ Alive(p)
    BY <2>2
  <2> HIDE DEF Loop, Alive
  <2> QED
    BY <1>2, <2>1, <2>3
<1>4. ASSUME NEW k \in 0..(n - 1), k \in Good PROVE k + 1 \in Good
  <2>1. k + 1 \in 1..n /\ (k + 1) - 1 = k /\ k + 1 \in 0..n
    BY <1>1
  <2> DEFINE q == g[k]
             r == g[k + 1]
             item == returns[k + 1]
  <2>2. r = Finalized(g[(k + 1) - 1], item)
    BY <1>2, <2>1
  <2>3. r = Finalized(q, item) /\ item \in ItemType /\ Alive(q) /\ (q.failed \/ Loop(q, k))
    BY <1>1, <1>4, <2>1, <2>2
  <2> HIDE DEF q, r, item
  <2>4. ASSUME Loop(q, k), ~r.failed PROVE Loop(r, k + 1)
    <3>1. /\ q \in ReturnType /\ q.turns # <<>> /\ SameBefore(p, q) /\ SameItems(p, q) /\ SameName(p, q)
          /\ Billed(q, m) /\ \A c \in Spent(q) : c \in Spent(p) \/ \E i \in 1..k : c = returns[i].call
      BY <2>4
    <3>2. item.call \in CallIds /\ Adds(q, r, item.call) /\ Judges(q, r, item)
      BY <2>3, <2>4, <3>1, FinalizedCases
    <3>3. item.call \notin Spent(q)
      <4>1. item.call \notin Spent(p)
        BY <2>1 DEF item, n
      <4>2. \A i \in 1..k : i \in 1..n /\ i # k + 1
        BY <1>1, <2>1
      <4>3. \A i \in 1..k : item.call # returns[i].call
        BY <2>1, <4>2 DEF item, n
      <4> QED
        BY <3>1, <4>1, <4>3
    <3>4. ~Current(q).workTools /\ Len(q.turns) - 1 = m
      BY <3>1 DEF SameItems, SameBefore
    <3> HIDE DEF m
    <3>5. Billed(r, m)
      <4>1. Billed(r, Len(q.turns) - 1)
        BY <2>3, <3>1, <3>2, <3>3, <3>4, JudgedIsBilled
      <4> QED
        BY <3>4, <4>1
    <3>6. r \in ReturnType /\ SameBefore(p, r) /\ SameItems(p, r) /\ SameName(p, r)
      BY <3>1, <3>2, SameBeforeChain DEF Adds, SameItems, SameName, SameBefore
    <3>7. r.turns # <<>>
      <4>1. Len(q.turns) > 0 /\ Len(r.turns) = Len(q.turns)
        BY <3>1, <3>2, ReturnFields DEF Adds, SameBefore
      <4> QED
        BY <4>1
    <3>8. Spent(r) = Spent(q) \cup {item.call}
      BY <3>1, <3>2, <3>3, Adding
    <3>9. \A c \in Spent(r) : c \in Spent(p) \/ \E i \in 1..(k + 1) : c = returns[i].call
      <4>1. k + 1 \in 1..(k + 1) /\ \A i \in 1..k : i \in 1..(k + 1)
        OBVIOUS
      <4> QED
        BY <3>1, <3>8, <4>1 DEF item
    <3>10. Current(r).calls # <<>>
      <4>1. Current(q).calls \in Seq(CallIds)
        BY <3>1, ReturnFields DEF TurnType
      <4>2. Current(r).calls = Append(Current(q).calls, item.call)
        BY <3>2 DEF Adds
      <4>3. Len(Current(r).calls) = Len(Current(q).calls) + 1 /\ Len(Current(q).calls) \in Nat
        BY <4>1, <4>2
      <4> QED
        BY <4>3
    <3> QED
      BY <3>5, <3>6, <3>7, <3>9, <3>10
  <2>5. ASSUME q.failed, ~r.failed PROVE FALSE
    BY <2>3, <2>5, FinalizedCases
  <2>6. Alive(r)
    BY <2>3, FinalizedFacts DEF SameBefore
  <2> HIDE DEF Loop, Alive
  <2> QED
    BY <2>1, <2>3, <2>4, <2>5, <2>6 DEF q, r
<1> HIDE DEF Good, Loop, Alive
<1>5. n \in Good
  <2>1. 0..n \subseteq Good
    BY <1>1, <1>3, <1>4, UpTo
  <2> QED
    BY <1>1, <2>1
<1>6. Loop(EachFinalized(p, returns), n)
  BY <1>2, <1>5 DEF Good
<1>7. returns # <<>> => n > 0
  BY DEF n
<1> QED
  BY <1>6, <1>7 DEF Loop, n, m


\* q is p with the returns of its last turn rejected as one batch.
RejectsAll(p, q, returns) ==
    /\ SameBefore(p, q) /\ SameItems(p, q) /\ SameName(p, q)
    /\ Len(Current(q).calls) = Len(returns)
    /\ \A i \in 1..Len(returns) :
         /\ Current(q).calls[i] = returns[i].call
         /\ q.verdicts[returns[i].call].validation = "rejected"
    /\ \A c \in CallIds : (\A i \in 1..Len(returns) : returns[i].call # c) => q.verdicts[c] = p.verdicts[c]
    /\ q.attempts = p.attempts + 1 /\ q.accepted = p.accepted

LEMMA RejectBatchCases ==
  ASSUME NEW p \in ReturnType, p.turns # <<>>, NEW R, R = Returns(Current(p))
  PROVE  RejectsAll(p, RejectBatch(p), R)
<1> DEFINE t == Current(p)
           calls == [k \in DOMAIN R |-> R[k].call]
           mixed == {R[k].call : k \in DOMAIN R}
           u == [t EXCEPT !.rejectedBatch = TRUE, !.calls = calls]
           q == OnTurn(p, u)
           verdicts == [c \in CallIds |->
                           IF c \in mixed
                           THEN Verdict((CHOOSE i \in ToSet(t.items) : i.call = c).arguments, "rejected")
                           ELSE q.verdicts[c]]
           z == [q EXCEPT !.attempts = @ + 1, !.verdicts = verdicts]
           r == RejectBatch(p)
<1>1. t \in TurnType /\ t.items \in Seq(ItemType)
  BY ReturnFields DEF TurnType
<1>2. R \in Seq({i \in ToSet(t.items) : i.name = "workflow_return"})
  BY <1>1, ReturnsFacts
<1>3. \A i \in ToSet(t.items) : i \in ItemType
  BY <1>1 DEF ToSet
<1>4. DOMAIN R = 1..Len(R) /\ Len(R) \in Nat /\ \A k \in DOMAIN R : R[k] \in ToSet(t.items) /\ R[k].call \in CallIds
  <2>1. DOMAIN R = 1..Len(R) /\ Len(R) \in Nat /\ \A k \in DOMAIN R : R[k] \in ToSet(t.items)
    BY <1>2
  <2> QED
    BY <1>3, <2>1 DEF ItemType
<1>5. calls \in Seq(CallIds) /\ Len(calls) = Len(R) /\ \A k \in 1..Len(R) : calls[k] = R[k].call
  <2>1. calls = [k \in 1..Len(R) |-> R[k].call]
    BY <1>4
  <2> QED
    BY <1>4, <2>1
<1>6. r = Exhausted(z)
  BY DEF RejectBatch
<1>7. \A c \in CallIds : c \in mixed <=> \E k \in 1..Len(R) : R[k].call = c
  BY <1>4
<1> HIDE DEF calls, r, mixed
<1>8. /\ u \in TurnType /\ u.items = t.items /\ u.workTools = t.workTools /\ u.calls = calls
      /\ u.responseId = t.responseId /\ u.terminal = t.terminal
  BY <1>1, <1>5 DEF TurnType
<1> HIDE DEF u
<1>9. SameBefore(p, q) /\ Current(q) = u /\ q.turns # <<>> /\ q.attempts = p.attempts /\ q.accepted = p.accepted
  BY <1>8, OnTurnFacts
<1>10. q.verdicts = p.verdicts /\ q \in ReturnType
  BY <1>9 DEF OnTurn, ReturnType, SameBefore
<1> HIDE DEF q
<1>11. \A c \in CallIds : /\ c \in mixed => verdicts[c] = Verdict((CHOOSE i \in ToSet(t.items) : i.call = c).arguments, "rejected")
                          /\ c \notin mixed => verdicts[c] = p.verdicts[c]
  BY <1>10
<1>12. ASSUME NEW c \in CallIds, c \in mixed
       PROVE  verdicts[c] \in VerdictType /\ verdicts[c].validation = "rejected"
  <2> DEFINE i == CHOOSE i \in ToSet(t.items) : i.call = c
  <2>1. \E j \in ToSet(t.items) : j.call = c
    BY <1>4, <1>7, <1>12
  <2>2. i \in ItemType
    BY <1>3, <2>1
  <2>3. verdicts[c] = Verdict(i.arguments, "rejected")
    BY <1>11, <1>12
  <2> HIDE DEF i, verdicts
  <2> QED
    BY <2>2, <2>3 DEF ItemType, Verdict, VerdictType
<1>13. verdicts \in [CallIds -> VerdictType \cup {None}]
  <2>1. \A c \in CallIds : verdicts[c] \in VerdictType \cup {None}
    <3>1. \A c \in CallIds : p.verdicts[c] \in VerdictType \cup {None}
      BY DEF ReturnType
    <3> HIDE DEF verdicts
    <3> QED
      BY <1>11, <1>12, <3>1
  <2>2. verdicts = [c \in CallIds |-> verdicts[c]]
    OBVIOUS
  <2> HIDE DEF verdicts
  <2> QED
    BY <2>1, <2>2
<1> HIDE DEF verdicts
<1>14. z \in ReturnType /\ z.turns = q.turns /\ z.attempts = p.attempts + 1 /\ z.verdicts = verdicts
       /\ z.accepted = p.accepted
  <2> DEFINE m == q.attempts + 1
  <2>1. m \in Nat /\ m = p.attempts + 1
    BY <1>9, <1>10, ReturnFields
  <2>2. z = [q EXCEPT !.attempts = m, !.verdicts = verdicts]
    BY <1>10 DEF ReturnType
  <2> HIDE DEF m
  <2> QED
    BY <1>9, <1>10, <1>13, <2>1, <2>2 DEF ReturnType
<1> HIDE DEF z
<1>15. /\ r \in ReturnType /\ r.turns = q.turns /\ r.attempts = p.attempts + 1
       /\ r.verdicts = verdicts /\ r.accepted = p.accepted
  BY <1>6, <1>14, ExhaustedFacts
<1> HIDE DEF t
<1>16. Current(r) = u
  BY <1>9, <1>15 DEF Current
<1>17. SameBefore(p, r) /\ SameItems(p, r) /\ SameName(p, r)
  BY <1>8, <1>9, <1>15, <1>16 DEF SameBefore, SameItems, SameName, t
<1>18. \A i \in 1..Len(R) : Current(r).calls[i] = R[i].call /\ r.verdicts[R[i].call].validation = "rejected"
  BY <1>4, <1>5, <1>7, <1>8, <1>12, <1>15, <1>16
<1>19. \A c \in CallIds : (\A i \in 1..Len(R) : R[i].call # c) => r.verdicts[c] = p.verdicts[c]
  BY <1>7, <1>11, <1>15
<1> QED
  BY <1>5, <1>8, <1>15, <1>16, <1>17, <1>18, <1>19 DEF RejectsAll, r

(* A batch of work and returns is one submission, whatever it holds.       *)
LEMMA RejectedIsBilled ==
  ASSUME NEW p \in ReturnType, p.turns # <<>>, Current(p).calls = <<>>, Current(p).workTools,
         p.accepted = None, Billed(p, Len(p.turns) - 1),
         NEW R \in Seq(ItemType), R # <<>>, NEW q, RejectsAll(p, q, R),
         \A i \in 1..Len(R) : R[i].call \notin Spent(p),
         \A i, j \in 1..Len(R) : i # j => R[i].call # R[j].call
  PROVE  /\ Billed(q, Len(p.turns) - 1) /\ Current(q).calls # <<>>
         /\ \A c \in Spent(q) : c \in Spent(p) \/ \E i \in 1..Len(R) : c = R[i].call
<1> DEFINE n == Len(p.turns)
<1>1. /\ n \in Nat /\ n > 0 /\ q \in ReturnType /\ Len(q.turns) = n /\ n \in 1..n
      /\ Current(p) = p.turns[n] /\ Current(q) = q.turns[n]
  BY ReturnFields DEF RejectsAll, SameBefore, Current
<1>2. /\ Len(R) \in Nat /\ Len(R) > 0 /\ Len(q.turns[n].calls) = Len(R)
      /\ \A i \in 1..Len(R) : R[i].call \in CallIds /\ q.turns[n].calls[i] = R[i].call
  <2>1. Len(R) \in Nat /\ Len(R) > 0 /\ \A i \in 1..Len(R) : R[i] \in ItemType
    OBVIOUS
  <2>2. \A i \in 1..Len(R) : R[i].call \in CallIds
    BY <2>1 DEF ItemType
  <2> HIDE DEF n
  <2> QED
    BY <1>1, <2>1, <2>2 DEF RejectsAll
<1>3. \A k \in 1..n : k # n => k \in 1..(n - 1) /\ q.turns[k] = p.turns[k]
  BY <1>1 DEF RejectsAll, SameBefore
<1>4. q.turns[n].calls # <<>> /\ Mixes(q.turns[n]) /\ ~Mixes(p.turns[n]) /\ Len(p.turns[n].calls) = 0
  <2>1. q.turns[n].calls # <<>>
    BY <1>2
  <2>2. q.turns[n].workTools
    BY <1>1 DEF RejectsAll, SameItems
  <2>3. p.turns[n].calls = <<>>
    BY <1>1
  <2>4. Len(p.turns[n].calls) = 0
    BY <2>3
  <2> QED
    BY <2>1, <2>2, <2>3, <2>4 DEF Mixes
<1> HIDE DEF n
<1>5. ASSUME NEW s \in Spots(p)
      PROVE  /\ s \in Spots(q) /\ s[1] # n /\ CallAt(q, s) = CallAt(p, s) /\ VerdictAt(q, s) = VerdictAt(p, s)
             /\ q.turns[s[1]] = p.turns[s[1]]
  <2>1. /\ s = <<s[1], s[2]>> /\ s[1] \in 1..n /\ s[2] \in 1..Len(p.turns[s[1]].calls)
        /\ CallAt(p, s) \in CallIds /\ CallAt(p, s) \in Spent(p)
    BY SpotsFacts DEF n
  <2>2. s[1] # n
    BY <1>4, <2>1
  <2>3. q.turns[s[1]] = p.turns[s[1]]
    BY <1>3, <2>1, <2>2
  <2>4. CallAt(q, s) = CallAt(p, s)
    BY <2>3 DEF CallAt
  <2>5. \A i \in 1..Len(R) : R[i].call # CallAt(p, s)
    BY <2>1
  <2>6. VerdictAt(q, s) = VerdictAt(p, s)
    BY <2>1, <2>4, <2>5 DEF VerdictAt, RejectsAll
  <2>7. s \in Spots(q)
    BY <1>1, <2>1, <2>3, SpotsFacts
  <2> QED
    BY <2>2, <2>3, <2>4, <2>6, <2>7
<1>6. ASSUME NEW s \in Spots(q)
      PROVE  \/ s \in Spots(p)
             \/ /\ s[1] = n /\ s = <<n, s[2]>> /\ s[2] \in 1..Len(R) /\ CallAt(q, s) = R[s[2]].call
                /\ VerdictAt(q, s).validation = "rejected"
  <2>1. s = <<s[1], s[2]>> /\ s[1] \in 1..n /\ s[2] \in 1..Len(q.turns[s[1]].calls)
    BY <1>1, SpotsFacts
  <2>2. CASE s[1] = n
    <3>1. s[2] \in 1..Len(R) /\ CallAt(q, s) = R[s[2]].call
      BY <1>2, <2>1, <2>2 DEF CallAt
    <3>2. VerdictAt(q, s).validation = "rejected"
      BY <3>1 DEF VerdictAt, RejectsAll
    <3> QED
      BY <2>1, <2>2, <3>1, <3>2
  <2>3. CASE s[1] # n
    <3>1. q.turns[s[1]] = p.turns[s[1]]
      BY <1>3, <2>1, <2>3
    <3>2. s \in Spots(p)
      BY <2>1, <3>1, SpotsFacts DEF n
    <3> QED
      BY <3>2
  <2> QED
    BY <2>2, <2>3
<1>7. Told(q)
  <2>1. \A s \in Spots(p) : VerdictAt(p, s).validation = "rejected"
    BY DEF Told, Billed, Judgement
  <2> QED
    BY <1>5, <1>6, <2>1 DEF Told
<1>8. Decided(q)
  BY DEF Decided, RejectsAll
<1>9. Placed(q)
  <2>1. ASSUME NEW s \in Spots(q), NEW u \in Spots(q), s # u PROVE CallAt(q, s) # CallAt(q, u)
    <3>1. CASE s \in Spots(p) /\ u \in Spots(p)
      BY <1>5, <2>1, <3>1 DEF Placed, Billed, Judgement
    <3>2. CASE s \in Spots(p) /\ u \notin Spots(p)
      BY <1>5, <1>6, <3>2, SpotsFacts
    <3>3. CASE s \notin Spots(p) /\ u \in Spots(p)
      BY <1>5, <1>6, <3>3, SpotsFacts
    <3>4. CASE s \notin Spots(p) /\ u \notin Spots(p)
      <4>1. s[2] # u[2]
        BY <1>6, <2>1, <3>4
      <4> QED
        BY <1>6, <3>4, <4>1
    <3> QED
      BY <3>1, <3>2, <3>3, <3>4
  <2> QED
    BY <2>1 DEF Placed
<1>10. Single(q) = Single(p)
  <2>1. \A s \in Spots(p) : s \in Single(q) <=> s \in Single(p)
    BY <1>5 DEF Single
  <2>2. \A s \in Single(q) : s \in Spots(p)
    BY <1>4, <1>6 DEF Single
  <2>3. \A s \in Single(p) : s \in Spots(p)
    BY DEF Single
  <2> QED
    BY <2>1, <2>2, <2>3
<1>11. Whole(q, n - 1) = Whole(p, n - 1) \cup {n} /\ n \notin Whole(p, n - 1)
  <2>1. DOMAIN p.turns = 1..n /\ DOMAIN q.turns = 1..n
    BY <1>1 DEF ReturnType, n
  <2>2. ~(n <= n - 1)
    BY <1>1
  <2>3. ASSUME NEW k \in 1..n, k # n PROVE Misses(q, k) <=> Misses(p, k)
    <3>1. \A j \in 1..k : j \in 1..n /\ j # n
      BY <1>1, <2>3
    <3> QED
      BY <1>3, <2>3, <3>1 DEF Misses
  <2>4. \A k \in 1..n : k # n => (k \in Whole(q, n - 1) <=> k \in Whole(p, n - 1))
    BY <1>3, <2>1, <2>3 DEF Whole
  <2>5. n \in Whole(q, n - 1) /\ n \notin Whole(p, n - 1)
    BY <1>1, <1>4, <2>1, <2>2 DEF Whole
  <2>6. Whole(q, n - 1) \subseteq 1..n /\ Whole(p, n - 1) \subseteq 1..n
    BY <2>1 DEF Whole
  <2> QED
    BY <2>4, <2>5, <2>6
<1>12. Tally(q, n - 1)
  <2>1. IsFiniteSet(Single(p)) /\ IsFiniteSet(Whole(p, n - 1))
        /\ p.attempts = Cardinality(Whole(p, n - 1)) + Cardinality(Single(p))
    BY DEF Tally, Billed, n
  <2>2. IsFiniteSet(Whole(q, n - 1)) /\ Cardinality(Whole(q, n - 1)) = Cardinality(Whole(p, n - 1)) + 1
    BY <1>11, <2>1, FS_AddElement
  <2>3. Cardinality(Single(p)) \in Nat /\ Cardinality(Whole(p, n - 1)) \in Nat
    BY <2>1, FS_CardinalityType
  <2>4. q.attempts = Cardinality(Whole(q, n - 1)) + Cardinality(Single(p))
    BY <2>1, <2>2, <2>3 DEF RejectsAll
  <2> QED
    BY <1>10, <2>1, <2>2, <2>4 DEF Tally
<1>13. \A c \in Spent(q) : c \in Spent(p) \/ \E i \in 1..Len(R) : c = R[i].call
  <2>1. \A c \in Spent(q) : \E s \in Spots(q) : c = CallAt(q, s)
    BY DEF Spent
  <2>2. \A s \in Spots(p) : CallAt(p, s) \in Spent(p)
    BY SpotsFacts
  <2> QED
    BY <1>5, <1>6, <2>1, <2>2
<1>14. Unused(q)
  BY DEF Unused, RejectsAll
<1> QED
  BY <1>1, <1>4, <1>7, <1>8, <1>9, <1>12, <1>13, <1>14 DEF Billed, Judgement, n


-----------------------------------------------------------------------------
(* The owner of the result, event by event                                 *)

\* The same calls, verdicts and count; a turn without a call may have got another mark.
SameBill(p, q) ==
    /\ q \in ReturnType /\ Len(q.turns) = Len(p.turns)
    /\ q.verdicts = p.verdicts /\ q.attempts = p.attempts
    /\ q.accepted = None <=> p.accepted = None
    /\ p.accepted # None => q.accepted.value = p.accepted.value
    /\ \A k \in 1..Len(p.turns) :
         /\ q.turns[k].calls = p.turns[k].calls
         /\ \/ q.turns[k].workTools = p.turns[k].workTools
            \/ k = Len(p.turns) /\ p.turns[k].calls = <<>>

LEMMA BillStays ==
  ASSUME NEW p \in ReturnType, NEW q, SameBill(p, q)
  PROVE  /\ Judgement(p) => Judgement(q)
         /\ Spent(q) = Spent(p)
         /\ Tally(p, Len(p.turns) - 1) => Tally(q, Len(p.turns) - 1)
<1>1. q \in ReturnType /\ Len(p.turns) \in Nat /\ Len(q.turns) = Len(p.turns)
  BY ReturnFields DEF SameBill
<1>2. SameSpots(p, q)
  BY <1>1, SameCalls DEF SameBill
<1>3. \A k \in 1..Len(p.turns) : Mixes(q.turns[k]) <=> Mixes(p.turns[k])
  BY DEF SameBill, Mixes
<1>4. \A s \in Spots(p) : Mixes(q.turns[s[1]]) <=> Mixes(p.turns[s[1]])
  BY <1>3, SpotsFacts
<1>5. p.accepted # None /\ Decided(p) => Mixes(Current(q)) <=> Mixes(Current(p))
  <2> SUFFICES ASSUME p.accepted # None, Decided(p) PROVE Mixes(Current(q)) <=> Mixes(Current(p))
    OBVIOUS
  <2>1. PICK s \in Spots(p) : Chosen(p, s)
    BY DEF Decided
  <2>2. Len(p.turns) \in 1..Len(p.turns)
    BY <2>1, SpotsFacts DEF Chosen
  <2> QED
    BY <1>1, <1>3, <2>2 DEF Current
<1>6. Judgement(p) => Judgement(q)
  <2> SUFFICES ASSUME Judgement(p) PROVE Judgement(q)
    OBVIOUS
  <2>1. p.accepted # None => (Mixes(Current(q)) <=> Mixes(Current(p)))
    BY <1>5 DEF Judgement
  <2> QED
    BY <1>1, <1>2, <1>4, <2>1, SameJudgement DEF SameBill
<1>7. Spent(q) = Spent(p) /\ Single(q) = Single(p)
  <2>1. Spots(q) = Spots(p) /\ \A s \in Spots(p) : CallAt(q, s) = CallAt(p, s) /\ VerdictAt(q, s) = VerdictAt(p, s)
    BY <1>2 DEF SameSpots, VerdictAt, SameBill
  <2> QED
    BY <1>4, <2>1 DEF Spent, Single
<1>8. Whole(q, Len(p.turns) - 1) = Whole(p, Len(p.turns) - 1)
  <2> DEFINE m == Len(p.turns) - 1
  <2>1. m \in Int /\ \A k \in 1..Len(p.turns) : k <= m => k # Len(p.turns)
    BY <1>1
  <2> HIDE DEF m
  <2>2. \A k \in 1..Len(p.turns) : k <= m => /\ q.turns[k].calls = p.turns[k].calls
                                             /\ q.turns[k].workTools = p.turns[k].workTools
    BY <2>1 DEF SameBill
  <2>3. Whole(q, m) = Whole(p, m)
    BY <1>1, <1>3, <2>1, <2>2, SameWhole
  <2> QED
    BY <2>3 DEF m
<1>9. Tally(p, Len(p.turns) - 1) => Tally(q, Len(p.turns) - 1)
  BY <1>7, <1>8 DEF Tally, SameBill
<1> QED
  BY <1>6, <1>7, <1>9

(* A turn keeps its identity.                                              *)
LEMMA NamedStays ==
  ASSUME NEW p \in ReturnType, Named(p), p.turns # <<>>, NEW q, SameBefore(p, q),
         Current(q).responseId = Current(p).responseId,
         Current(q).terminal => Current(q).responseId # None
  PROVE  Named(q)
<1> DEFINE n == Len(p.turns)
<1>1. n \in Nat /\ n > 0 /\ Len(q.turns) = n /\ Current(p) = p.turns[n] /\ Current(q) = q.turns[n]
  BY ReturnFields DEF SameBefore, Current
<1>2. \A k \in 1..n : q.turns[k].responseId = p.turns[k].responseId
  BY <1>1 DEF SameBefore
<1>3. \A k \in 1..(n - 1) : q.turns[k].terminal = p.turns[k].terminal
  BY <1>1 DEF SameBefore
<1>4. \A k \in 1..n : k = n \/ k \in 1..(n - 1)
  BY <1>1
<1> HIDE DEF n
<1>5. \A k \in 1..n : q.turns[k].terminal => q.turns[k].responseId # None
  BY <1>1, <1>2, <1>3, <1>4 DEF Named, n
<1>6. \A k \in 1..(n - 1) : q.turns[k].terminal
  BY <1>3 DEF Named, n
<1>7. \A j, k \in 1..n : j # k /\ q.turns[j].responseId # None => q.turns[j].responseId # q.turns[k].responseId
  BY <1>2 DEF Named, n
<1> QED
  BY <1>1, <1>5, <1>6, <1>7 DEF Named

(* The same items were observed.                                           *)
LEMMA ObservedStays ==
  ASSUME NEW p \in ReturnType, NEW q \in ReturnType, Len(q.turns) = Len(p.turns),
         \A k \in 1..Len(p.turns) :
            /\ Len(q.turns[k].items) = Len(p.turns[k].items)
            /\ \A i \in 1..Len(p.turns[k].items) : q.turns[k].items[i].call = p.turns[k].items[i].call
  PROVE  Observed(q) = Observed(p)
<1>1. \A c : c \in Observed(p) <=>
            \E k \in 1..Len(p.turns) : \E i \in 1..Len(p.turns[k].items) : p.turns[k].items[i].call = c
  BY ObservedFacts
<1>2. \A c : c \in Observed(q) <=>
            \E k \in 1..Len(q.turns) : \E i \in 1..Len(q.turns[k].items) : q.turns[k].items[i].call = c
  BY ObservedFacts
<1>3. ASSUME NEW c, c \in Observed(p) PROVE c \in Observed(q)
  <2>1. PICK k \in 1..Len(p.turns) : \E i \in 1..Len(p.turns[k].items) : p.turns[k].items[i].call = c
    BY <1>1, <1>3
  <2> QED
    BY <1>2, <2>1
<1>4. ASSUME NEW c, c \in Observed(q) PROVE c \in Observed(p)
  <2>1. PICK k \in 1..Len(p.turns) : \E i \in 1..Len(q.turns[k].items) : q.turns[k].items[i].call = c
    BY <1>2, <1>4
  <2> QED
    BY <1>1, <2>1
<1> QED
  BY <1>3, <1>4

LEMMA SameItemsObserved ==
  ASSUME NEW p \in ReturnType, p.turns # <<>>, NEW q, SameBefore(p, q), SameItems(p, q)
  PROVE  Observed(q) = Observed(p)
<1>1. \A k \in 1..Len(p.turns) : q.turns[k].items = p.turns[k].items
  <2>1. Len(p.turns) \in Nat /\ \A k \in 1..Len(p.turns) : k = Len(p.turns) \/ k \in 1..(Len(p.turns) - 1)
    BY ReturnFields
  <2>2. q.turns[Len(p.turns)].items = p.turns[Len(p.turns)].items
    BY DEF SameBefore, SameItems, Current
  <2> QED
    BY <2>1, <2>2 DEF SameBefore
<1> QED
  BY <1>1, ObservedStays DEF SameBefore

(* reconcileTerminal() counts what the response submits.                   *)
LEMMA ReconciledBilled ==
  ASSUME NEW p \in ReturnType, Open(p), Fresh(p), Known(p), Billed(p, Len(p.turns) - 1),
         ~Reconciled(p).failed
  PROVE  /\ Billed(Reconciled(p), Len(p.turns) - 1)
         /\ SameBefore(p, Reconciled(p)) /\ SameItems(p, Reconciled(p)) /\ SameName(p, Reconciled(p))
         /\ Known(Reconciled(p))
<1> DEFINE t == Current(p)
           q == Reconciled(p)
<1>1. PICK R : R = Returns(t)
  OBVIOUS
<1>2. p.turns # <<>> /\ t \in TurnType /\ t.items \in Seq(ItemType) /\ t.calls = <<>> /\ p.accepted = None
  BY ReturnFields DEF Open, TurnType
<1>3. SameBefore(p, q) /\ SameItems(p, q)
  BY <1>2, ReconciledFacts
<1>4. Observed(q) = Observed(p)
  BY <1>2, <1>3, SameItemsObserved
<1>5. \A i, j \in 1..Len(t.items) : i # j => t.items[i].call # t.items[j].call
  BY DEF Fresh
<1> HIDE DEF t, q
<1>6. /\ R \in Seq(ItemType)
      /\ \A i \in 1..Len(R) : \E k \in 1..Len(t.items) : R[i] = t.items[k]
      /\ \A i, j \in 1..Len(R) : i # j => R[i].call # R[j].call
  BY <1>1, <1>2, <1>5, ReturnsApart
<1>7. \A i \in 1..Len(R) : R[i].call \notin Spent(p) /\ R[i].call \in Observed(p)
  <2>1. \A k \in 1..Len(t.items) : t.items[k].call \notin Spent(p)
    BY DEF Fresh, t
  <2>2. \A k \in 1..Len(t.items) : t.items[k].call \in Observed(p)
    BY <1>2, ReturnFields, ObservedFacts DEF Current, t
  <2> QED
    BY <1>6, <2>1, <2>2
<1>8. ASSUME \A c \in Spent(q) : c \in Spent(p) \/ \E i \in 1..Len(R) : c = R[i].call
      PROVE  Known(q)
  BY <1>4, <1>7, <1>8 DEF Known
<1>9. CASE ~Submits(p)
  <2>1. q = p
    BY <1>9 DEF Reconciled, q
  <2> QED
    BY <1>3, <2>1 DEF SameName, q
<1>10. CASE Submits(p) /\ t.workTools
  <2>1. q = RejectBatch(p)
    BY <1>10 DEF Reconciled, q, t
  <2>2. RejectsAll(p, q, R)
    BY <1>1, <1>2, <2>1, RejectBatchCases DEF t
  <2>3. R # <<>>
    BY <1>1, <1>10 DEF Submits, t
  <2>4. /\ Billed(q, Len(p.turns) - 1)
        /\ \A c \in Spent(q) : c \in Spent(p) \/ \E i \in 1..Len(R) : c = R[i].call
    <3>1. Current(p).calls = <<>> /\ Current(p).workTools /\ p.turns # <<>> /\ p.accepted = None
      BY <1>2, <1>10 DEF t
    <3>2. \A i \in 1..Len(R) : R[i].call \notin Spent(p)
      BY <1>7
    <3>3. R \in Seq(ItemType) /\ \A i, j \in 1..Len(R) : i # j => R[i].call # R[j].call
      BY <1>6
    <3> QED
      BY <2>2, <2>3, <3>1, <3>2, <3>3, RejectedIsBilled
  <2> QED
    BY <1>3, <1>8, <2>2, <2>4 DEF RejectsAll, q
<1>11. CASE Submits(p) /\ ~t.workTools
  <2>1. q = EachFinalized(p, R)
    BY <1>1, <1>11 DEF Reconciled, q, t
  <2>2. ~q.failed
    BY DEF q
  <2>3. /\ Billed(q, Len(p.turns) - 1) /\ SameName(p, q)
        /\ \A c \in Spent(q) : c \in Spent(p) \/ \E i \in 1..Len(R) : c = R[i].call
    BY <1>2, <1>6, <1>7, <1>11, <2>1, <2>2, EachFinalizedBilled DEF t
  <2> QED
    BY <1>3, <1>8, <2>3 DEF q
<1> QED
  BY <1>9, <1>10, <1>11

(* A response that is completed takes no failure back.                     *)
LEMMA TerminalKeepsFailure ==
  ASSUME NEW p \in ReturnType, p.turns # <<>>, NEW r \in Responses, NEW output,
         ~TerminalCompleted(p, r, output).failed
  PROVE  ~p.failed
<1> DEFINE c == Confirmed(p, output)
           q == Reconciled(c)
           t == [Current(q) EXCEPT !.terminal = TRUE]
<1>1. TerminalCompleted(p, r, output) = OnTurn(q, t)
  <2>1. ~(Current(p).responseId \in {None} \cup (Responses \ {r}))
    BY FailedFacts DEF TerminalCompleted
  <2> QED
    BY <2>1 DEF TerminalCompleted
<1>2. c \in ReturnType /\ c.turns # <<>> /\ (p.failed => c.failed)
  BY FailedFacts DEF Confirmed
<1> HIDE DEF c
<1>3. q \in ReturnType /\ (c.failed => q.failed)
  BY <1>2, ReconciledFacts DEF SameBefore, Submits
<1> HIDE DEF q
<1>4. OnTurn(q, t).failed = q.failed
  BY <1>3 DEF OnTurn, ReturnType
<1> QED
  BY <1>1, <1>2, <1>3, <1>4

(* A response that is completed is judged and counted.                     *)
LEMMA TerminalBilled ==
  ASSUME NEW p \in ReturnType, Open(p), Fresh(p), Sound(p), Tally(p, Len(p.turns) - 1),
         NEW r \in Responses, NEW output, ~TerminalCompleted(p, r, output).failed
  PROVE  /\ Sound(TerminalCompleted(p, r, output))
         /\ Tally(TerminalCompleted(p, r, output), Len(p.turns) - 1)
         /\ Unused(TerminalCompleted(p, r, output))
<1> DEFINE c == Confirmed(p, output)
           q == Reconciled(c)
           t == [Current(q) EXCEPT !.terminal = TRUE]
           e == TerminalCompleted(p, r, output)
<1>1. Current(p).responseId # None /\ e = OnTurn(q, t)
  <2>1. ~(Current(p).responseId \in {None} \cup (Responses \ {r}))
    BY FailedFacts DEF TerminalCompleted
  <2> QED
    BY <2>1 DEF TerminalCompleted
<1>2. p.turns # <<>> /\ (c = p \/ c = Failed(p)) /\ c \in ReturnType /\ c.turns = p.turns
  BY FailedFacts DEF Open, Confirmed
<1>3. q \in ReturnType /\ q.turns # <<>>
  BY <1>2, ReconciledFacts DEF SameBefore
<1> HIDE DEF c
<1>4. /\ Current(q) \in TurnType
      /\ t \in TurnType /\ t.items = Current(q).items /\ t.workTools = Current(q).workTools
      /\ t.terminal /\ t.calls = Current(q).calls /\ t.responseId = Current(q).responseId
  BY <1>3, ReturnFields DEF TurnType
<1> HIDE DEF t, e, q
<1>5. /\ SameBefore(q, e) /\ Current(e) = t /\ e.turns # <<>>
      /\ e.attempts = q.attempts /\ e.accepted = q.accepted /\ e.failed = q.failed
  BY <1>1, <1>3, <1>4, OnTurnFacts
<1>6. e.verdicts = q.verdicts
  BY <1>1, <1>3 DEF OnTurn, ReturnType
<1>7. ~q.failed
  BY <1>5 DEF e
<1>8. c = p
  <2> SUFFICES ASSUME c = Failed(p) PROVE FALSE
    BY <1>2
  <2>1. c.failed
    BY FailedFacts
  <2>2. q = c
    BY <2>1 DEF q, Reconciled, Submits
  <2> QED
    BY <1>7, <2>1, <2>2
<1>9. Billed(p, Len(p.turns) - 1) /\ Known(p)
  BY DEF Sound, Billed, Open, Unused
<1>10. /\ Billed(q, Len(p.turns) - 1)
       /\ SameBefore(p, q) /\ SameItems(p, q) /\ SameName(p, q) /\ Known(q)
  BY <1>7, <1>8, <1>9, ReconciledBilled DEF q
<1>11. Named(q)
  BY <1>2, <1>10, NamedStays DEF Sound, SameName, Open
<1>12. Named(e)
  BY <1>1, <1>3, <1>4, <1>5, <1>10, <1>11, NamedStays DEF SameName
<1>13. SameBill(q, e)
  <2>1. Len(q.turns) \in Nat /\ \A k \in 1..Len(q.turns) : k = Len(q.turns) \/ k \in 1..(Len(q.turns) - 1)
    BY <1>3, ReturnFields
  <2>2. Len(e.turns) = Len(q.turns) /\ e.turns[Len(q.turns)] = t /\ Current(q) = q.turns[Len(q.turns)]
    BY <1>5 DEF SameBefore, Current
  <2>3. \A k \in 1..Len(q.turns) : /\ e.turns[k].calls = q.turns[k].calls
                                   /\ e.turns[k].workTools = q.turns[k].workTools
    BY <1>4, <1>5, <2>1, <2>2 DEF SameBefore
  <2> QED
    BY <1>5, <1>6, <2>2, <2>3 DEF SameBill, SameBefore
<1>14. Judgement(e) /\ Spent(e) = Spent(q) /\ Tally(e, Len(p.turns) - 1)
  <2>1. Len(q.turns) = Len(p.turns)
    BY <1>10 DEF SameBefore
  <2> QED
    BY <1>3, <1>10, <1>13, <2>1, BillStays DEF Billed
<1>15. Known(e)
  <2>1. SameItems(q, e)
    BY <1>4, <1>5 DEF SameItems
  <2>2. Observed(e) = Observed(q)
    BY <1>3, <1>5, <2>1, SameItemsObserved
  <2> QED
    BY <1>10, <1>14, <2>2 DEF Known
<1>16. Unused(e)
  BY <1>5, <1>10 DEF Billed, Unused
<1> QED
  BY <1>12, <1>14, <1>15, <1>16 DEF Sound, e


(* What a raw event may change while the count stands.                     *)
LEMMA EventBilled ==
  ASSUME NEW p \in ReturnType, Open(p), Sound(p), Tally(p, Len(p.turns) - 1),
         NEW t \in TurnType, t.calls = <<>>, NEW q, q = OnTurn(p, t),
         Named(q), Observed(p) \subseteq Observed(q),
         \A i \in 1..Len(t.items) : t.items[i].call \notin Spent(p),
         \A i, j \in 1..Len(t.items) : i # j => t.items[i].call # t.items[j].call
  PROVE  Sound(q) /\ Fresh(q) /\ Tally(q, Len(q.turns) - 1)
<1>1. p.turns # <<>> /\ Current(p).calls = <<>>
  BY DEF Open
<1>2. /\ SameBefore(p, q) /\ Current(q) = t
      /\ q.attempts = p.attempts /\ q.accepted = p.accepted
  BY <1>1, OnTurnFacts
<1>3. q.verdicts = p.verdicts
  BY <1>1 DEF OnTurn, ReturnType
<1>4. SameBill(p, q)
  <2>1. Len(p.turns) \in Nat /\ \A k \in 1..Len(p.turns) : k = Len(p.turns) \/ k \in 1..(Len(p.turns) - 1)
    BY ReturnFields
  <2>2. Len(q.turns) = Len(p.turns) /\ q.turns[Len(p.turns)] = t /\ p.turns[Len(p.turns)].calls = <<>>
    BY <1>1, <1>2 DEF SameBefore, Current
  <2>3. \A k \in 1..Len(p.turns) :
         /\ q.turns[k].calls = p.turns[k].calls
         /\ q.turns[k].workTools = p.turns[k].workTools \/ (k = Len(p.turns) /\ p.turns[k].calls = <<>>)
    BY <1>2, <2>1, <2>2 DEF SameBefore
  <2> QED
    BY <1>2, <1>3, <2>2, <2>3 DEF SameBill, SameBefore
<1>5. Judgement(q) /\ Spent(q) = Spent(p) /\ Tally(q, Len(p.turns) - 1)
  BY <1>4, BillStays DEF Sound
<1>6. Known(q)
  BY <1>5 DEF Known, Sound
<1>7. Fresh(q)
  BY <1>2, <1>5 DEF Fresh
<1>8. Len(q.turns) = Len(p.turns)
  BY <1>2 DEF SameBefore
<1> QED
  BY <1>5, <1>6, <1>7, <1>8 DEF Sound

\* What holds of an open response that has not failed.
Streamed(p) == Sound(p) /\ Fresh(p) /\ Tally(p, Len(p.turns) - 1)

LEMMA CreatedBilled ==
  ASSUME NEW p \in ReturnType, Open(p), Streamed(p), NEW r \in Responses, ~ResponseCreated(p, r).failed
  PROVE  Streamed(ResponseCreated(p, r))
<1> DEFINE t == [Current(p) EXCEPT !.responseId = r]
           n == Len(p.turns)
<1>1. PICK q : q = OnTurn(p, t)
  OBVIOUS
<1>2. p.turns # <<>> /\ Current(p) \in TurnType /\ DOMAIN p.turns = 1..n
  BY ReturnFields DEF Open, ReturnType
<1>3. /\ Current(p).responseId = None /\ \A k \in 1..n : p.turns[k].responseId # r
      /\ ResponseCreated(p, r) = q
  <2>1. ~(Current(p).responseId # None \/ (\E k \in DOMAIN p.turns : p.turns[k].responseId = r))
    BY FailedFacts DEF ResponseCreated
  <2> QED
    BY <1>1, <1>2, <2>1 DEF ResponseCreated
<1>4. /\ t \in TurnType /\ t.calls = <<>> /\ t.items = Current(p).items /\ t.workTools = Current(p).workTools
      /\ t.responseId = r /\ ~t.terminal
  BY <1>2 DEF TurnType, Open
<1> HIDE DEF t
<1>5. SameBefore(p, q) /\ Current(q) = t
  BY <1>1, <1>2, <1>4, OnTurnFacts
<1>6. Named(q)
  <2>1. n \in Nat /\ n > 0 /\ Len(q.turns) = n /\ q.turns[n] = t /\ \A k \in 1..(n - 1) : q.turns[k] = p.turns[k]
    BY <1>2, <1>5, ReturnFields DEF SameBefore, Current
  <2>2. \A k \in 1..n : k = n \/ (k \in 1..(n - 1) /\ k # n)
    BY <2>1
  <2> HIDE DEF n
  <2>3. \A k \in 1..n : q.turns[k].terminal => q.turns[k].responseId # None
    BY <1>4, <2>1, <2>2 DEF Streamed, Sound, Named, n
  <2>4. \A k \in 1..(n - 1) : q.turns[k].terminal
    BY <2>1 DEF Streamed, Sound, Named, n
  <2>5. ASSUME NEW j \in 1..n, NEW k \in 1..n, j # k, q.turns[j].responseId # None
        PROVE  q.turns[j].responseId # q.turns[k].responseId
    <3>1. CASE j = n
      BY <1>3, <1>4, <2>1, <2>2, <2>5, <3>1
    <3>2. CASE k = n
      BY <1>3, <1>4, <2>1, <2>2, <2>5, <3>2
    <3>3. CASE j # n /\ k # n
      BY <2>1, <2>2, <2>5, <3>3 DEF Streamed, Sound, Named, n
    <3> QED
      BY <3>1, <3>2, <3>3
  <2> QED
    BY <2>1, <2>3, <2>4, <2>5 DEF Named
<1>7. Observed(q) = Observed(p)
  BY <1>2, <1>4, <1>5, SameItemsObserved DEF SameItems
<1>8. Streamed(q)
  BY <1>1, <1>4, <1>6, <1>7, EventBilled DEF Streamed, Fresh
<1> QED
  BY <1>3, <1>8

LEMMA AddedBilled ==
  ASSUME NEW p \in ReturnType, Open(p), Streamed(p), NEW c \in CallIds, NEW n \in Names,
         ~ToolAdded(p, c, n).failed
  PROVE  Streamed(ToolAdded(p, c, n))
<1> DEFINE i == Item(c, n)
           items == Current(p).items
           t == [Current(p) EXCEPT !.items = Append(@, i)]
           m == Len(p.turns)
<1>1. PICK q : q = OnTurn(p, t)
  OBVIOUS
<1>2. p.turns # <<>> /\ Current(p) \in TurnType /\ items \in Seq(ItemType) /\ m \in Nat /\ m \in 1..m
  BY ReturnFields DEF Open, TurnType
<1>3. c \notin Observed(p) /\ ToolAdded(p, c, n) = q
  BY <1>1, FailedFacts DEF ToolAdded
<1>4. i \in ItemType /\ i.call = c
  BY DEF Item, ItemType
<1> HIDE DEF i
<1>5. /\ t \in TurnType /\ t.calls = <<>> /\ t.items = Append(items, i) /\ t.workTools = Current(p).workTools
      /\ t.responseId = Current(p).responseId /\ ~t.terminal
  <2>1. Append(items, i) \in Seq(ItemType)
    BY <1>2, <1>4
  <2> QED
    BY <1>2, <2>1 DEF Open, TurnType
<1>6. /\ Len(items) \in Nat /\ Len(t.items) = Len(items) + 1 /\ t.items[Len(items) + 1] = i
      /\ \A k \in 1..Len(items) : t.items[k] = items[k] /\ k \in 1..(Len(items) + 1)
      /\ \A k \in 1..(Len(items) + 1) : k \in 1..Len(items) \/ k = Len(items) + 1
  BY <1>2, <1>4, <1>5
<1> HIDE DEF t
<1>7. SameBefore(p, q) /\ Current(q) = t /\ q \in ReturnType
  BY <1>1, <1>2, <1>5, OnTurnFacts DEF SameBefore
<1>8. Named(q)
  BY <1>2, <1>5, <1>7, NamedStays DEF Streamed, Sound
<1>9. \A k \in 1..Len(items) : items[k].call \in Observed(p)
  BY <1>2, ObservedFacts DEF Current
<1> HIDE DEF items
<1>10. Observed(p) \subseteq Observed(q)
  <2> SUFFICES ASSUME NEW d \in Observed(p) PROVE d \in Observed(q)
    OBVIOUS
  <2>1. PICK k \in 1..m : \E j \in 1..Len(p.turns[k].items) : p.turns[k].items[j].call = d
    BY ObservedFacts
  <2>2. Len(q.turns) = m /\ q.turns[m] = t
    BY <1>7 DEF SameBefore, Current
  <2>3. \E j \in 1..Len(q.turns[k].items) : q.turns[k].items[j].call = d
    <3>1. CASE k = m
      BY <1>6, <2>1, <2>2, <3>1 DEF items, Current
    <3>2. CASE k # m
      <4>1. q.turns[k] = p.turns[k]
        BY <1>2, <1>7, <3>2 DEF SameBefore
      <4> QED
        BY <2>1, <4>1
    <3> QED
      BY <3>1, <3>2
  <2> QED
    BY <1>7, <2>2, <2>3, ObservedFacts
<1>11. \A k \in 1..Len(t.items) : t.items[k].call \notin Spent(p)
  <2>1. c \notin Spent(p)
    BY <1>3 DEF Streamed, Sound, Known
  <2>2. \A k \in 1..Len(items) : items[k].call \notin Spent(p)
    BY DEF Streamed, Fresh, items
  <2> QED
    BY <1>4, <1>6, <2>1, <2>2
<1>12. ASSUME NEW j \in 1..Len(t.items), NEW k \in 1..Len(t.items), j # k
       PROVE  t.items[j].call # t.items[k].call
  <2>1. \A a, b \in 1..Len(items) : a # b => items[a].call # items[b].call
    BY DEF Streamed, Fresh, items
  <2>2. \A a \in 1..Len(items) : items[a].call # c
    BY <1>3, <1>9
  <2> QED
    BY <1>4, <1>6, <1>12, <2>1, <2>2
<1>13. Streamed(q)
  BY <1>1, <1>5, <1>8, <1>10, <1>11, <1>12, EventBilled DEF Streamed
<1> QED
  BY <1>3, <1>13

LEMMA FinalizedItemBilled ==
  ASSUME NEW p \in ReturnType, Open(p), Streamed(p), NEW c \in CallIds, NEW arg \in Arguments, NEW twice,
         ~ItemFinalized(p, c, arg, twice).failed
  PROVE  Streamed(ItemFinalized(p, c, arg, twice))
<1> DEFINE items == Current(p).items
           known == {k \in DOMAIN items : items[k].call = c}
           after == [k \in DOMAIN items |-> IF k \in known THEN [items[k] EXCEPT !.arguments = arg] ELSE items[k]]
           marked == Current(p).workTools \/ (\E k \in known : items[k].name = "work")
           t == [Current(p) EXCEPT !.items = after, !.workTools = marked]
           n == Len(p.turns)
<1>1. PICK q : q = OnTurn(p, t)
  OBVIOUS
<1>2. ItemFinalized(p, c, arg, twice) = q
  BY <1>1, FailedFacts DEF ItemFinalized
<1>3. p.turns # <<>> /\ Current(p) \in TurnType /\ items \in Seq(ItemType) /\ n \in Nat /\ n \in 1..n
  BY ReturnFields DEF Open, TurnType
<1>4. \A k \in DOMAIN items : items[k] \in ItemType
  BY <1>3
<1>5. \A k \in DOMAIN items : after[k] \in ItemType /\ after[k].call = items[k].call
  BY <1>4 DEF ItemType
<1>6. after \in Seq(ItemType) /\ Len(after) = Len(items) /\ \A k \in 1..Len(items) : after[k].call = items[k].call
  <2>1. DOMAIN items = 1..Len(items) /\ Len(items) \in Nat
    BY <1>3
  <2>2. after = [k \in 1..Len(items) |-> after[k]]
    BY <2>1
  <2> HIDE DEF after
  <2>3. \A k \in 1..Len(items) : after[k] \in ItemType
    BY <1>5, <2>1
  <2>4. after \in Seq(ItemType) /\ Len(after) = Len(items)
    BY <2>1, <2>2, <2>3
  <2> QED
    BY <1>5, <2>1, <2>4
<1>7. marked \in BOOLEAN
  OBVIOUS
<1> HIDE DEF after, marked
<1>8. t \in TurnType /\ t.calls = <<>> /\ t.items = after /\ t.responseId = Current(p).responseId /\ ~t.terminal
  BY <1>3, <1>6, <1>7 DEF Open, TurnType
<1> HIDE DEF t
<1>9. SameBefore(p, q) /\ Current(q) = t /\ q \in ReturnType
  BY <1>1, <1>3, <1>8, OnTurnFacts DEF SameBefore
<1>10. Named(q)
  BY <1>3, <1>8, <1>9, NamedStays DEF Streamed, Sound
<1>11. Observed(q) = Observed(p)
  <2>1. Len(q.turns) = n /\ q.turns[n] = t /\ items = p.turns[n].items
    BY <1>9 DEF SameBefore, Current
  <2>2. ASSUME NEW k \in 1..n
        PROVE  /\ Len(q.turns[k].items) = Len(p.turns[k].items)
               /\ \A i \in 1..Len(p.turns[k].items) : q.turns[k].items[i].call = p.turns[k].items[i].call
    <3>1. CASE k = n
      BY <1>6, <1>8, <2>1, <3>1
    <3>2. CASE k # n
      <4>1. q.turns[k] = p.turns[k]
        BY <1>3, <1>9, <3>2 DEF SameBefore
      <4> QED
        BY <4>1
    <3> QED
      BY <3>1, <3>2
  <2> QED
    BY <1>9, <2>1, <2>2, ObservedStays
<1>12. /\ \A i \in 1..Len(t.items) : t.items[i].call \notin Spent(p)
       /\ \A i, j \in 1..Len(t.items) : i # j => t.items[i].call # t.items[j].call
  BY <1>6, <1>8 DEF Streamed, Fresh
<1>13. Streamed(q)
  BY <1>1, <1>8, <1>10, <1>11, <1>12, EventBilled DEF Streamed
<1> QED
  BY <1>2, <1>13


-----------------------------------------------------------------------------
(* The owner of the result, hook by hook                                   *)

(* The count is one of the turns and the verdicts.                         *)
LEMMA SameTurns ==
  ASSUME NEW p \in ReturnType, NEW q \in ReturnType, q.turns = p.turns, q.verdicts = p.verdicts,
         q.accepted = None <=> p.accepted = None,
         p.accepted # None => q.accepted.value = p.accepted.value /\ q.attempts = p.attempts
  PROVE  /\ Sound(p) => Sound(q)
         /\ Fresh(p) => Fresh(q)
         /\ Single(q) = Single(p) /\ \A m : Whole(q, m) = Whole(p, m)
         /\ q.attempts = p.attempts => \A m : Tally(p, m) => Tally(q, m)
<1>1. SameSpots(p, q) /\ Current(q) = Current(p)
  BY DEF SameSpots, Spots, CallAt, Current
<1>2. /\ Judgement(p) => Judgement(q)
      /\ Spent(q) = Spent(p) /\ Single(q) = Single(p)
  BY <1>1, SameJudgement
<1>3. Named(p) => Named(q)
  BY DEF Named
<1>4. Known(p) => Known(q)
  BY <1>2 DEF Known, Observed
<1>5. \A m : Whole(q, m) = Whole(p, m)
  BY DEF Whole, Misses
<1>6. Fresh(p) => Fresh(q)
  BY <1>1, <1>2 DEF Fresh
<1> QED
  BY <1>2, <1>3, <1>4, <1>5, <1>6 DEF Sound, Tally

\* q is p but for what the hooks may note without a submission.
Kept(p, q) ==
    /\ q \in ReturnType /\ q.turns = p.turns
    /\ ~q.failed =>
         /\ ~p.failed
         /\ q.accepted = None <=> p.accepted = None
         /\ Sound(p) => Sound(q)
         /\ Fresh(p) => Fresh(q)
         /\ \A m : Tally(p, m) => Tally(q, m)

LEMMA FailedIsKept ==
  ASSUME NEW p \in ReturnType
  PROVE  Kept(p, p) /\ Kept(p, Failed(p))
BY FailedFacts DEF Kept

(* A request that is let through was not told anything.                    *)
LEMMA CheckedIsKept ==
  ASSUME NEW p \in ReturnType, NEW route \in BOOLEAN
  PROVE  /\ Kept(p, RequestChecked(p, route))
         /\ ~RequestChecked(p, route).failed => RequestChecked(p, route) = p
<1> DEFINE q == IF route THEN p ELSE Failed(p)
           u == IF q.turns # <<>> /\ ~Current(q).terminal THEN Failed(q) ELSE q
<1>1. q \in ReturnType /\ (~q.failed => q = p) /\ q.turns = p.turns
  BY FailedFacts
<1> HIDE DEF q
<1>2. u \in ReturnType /\ (~u.failed => u = p) /\ u.turns = p.turns
  BY <1>1, FailedFacts
<1>3. RequestChecked(p, route) = Exhausted(u)
  BY DEF RequestChecked, u, q
<1> HIDE DEF u
<1>4. Exhausted(u) \in ReturnType /\ (~Exhausted(u).failed => Exhausted(u) = p) /\ Exhausted(u).turns = p.turns
  BY <1>2, FailedFacts, ExhaustedFacts DEF Exhausted
<1> QED
  BY <1>3, <1>4 DEF Kept

(* execute() marks the accepted value, which stays what it is.             *)
LEMMA ExecutedIsKept ==
  ASSUME NEW p \in ReturnType, NEW c
  PROVE  Kept(p, Executed(p, c))
<1>1. CASE p.accepted # None
  <2> DEFINE a == [p.accepted EXCEPT !.executed = TRUE]
  <2>1. a \in [value : Values, executed : BOOLEAN] /\ a.value = p.accepted.value
    BY <1>1 DEF ReturnType
  <2>2. [p EXCEPT !.accepted.executed = TRUE] = [p EXCEPT !.accepted = a]
    BY DEF ReturnType
  <2>3. PICK q : q = [p EXCEPT !.accepted = a]
    OBVIOUS
  <2>4. a # None
    BY <2>1, ReturnAssumption
  <2> HIDE DEF a
  <2>5. /\ q \in ReturnType /\ q.turns = p.turns /\ q.verdicts = p.verdicts /\ q.attempts = p.attempts
        /\ q.failed = p.failed /\ q.accepted = a
    BY <2>1, <2>3 DEF ReturnType
  <2>6. Kept(p, q)
    BY <1>1, <2>1, <2>4, <2>5, SameTurns DEF Kept
  <2> QED
    BY <1>1, <2>2, <2>3, <2>6, FailedIsKept DEF Executed
<1>2. CASE p.accepted = None
  BY <1>2, FailedIsKept DEF Executed
<1> QED
  BY <1>1, <1>2

(* inspect() finds the value executed, or it fails the call.               *)
LEMMA InspectedIsKept ==
  ASSUME NEW p \in ReturnType, NEW late
  PROVE  /\ Kept(p, Inspected(p, late))
         /\ ~Inspected(p, late).failed => Inspected(p, late) = p
         /\ Decision(Inspected(p, late)) = "accepted" => Inspected(p, late) = p /\ Stands(p)
         /\ Decision(Inspected(p, late)) # "failed" => ~Inspected(p, late).failed
         /\ Decision(Inspected(p, late)) # "failed" /\ p.accepted # None
              => Decision(Inspected(p, late)) = "accepted"
<1> DEFINE q == IF p.accepted # None /\ late THEN Failed(p) ELSE p
           u == IF q.accepted = None \/ q.accepted.executed THEN q ELSE Failed(q)
<1>1. q \in ReturnType /\ (~q.failed => q = p) /\ q.turns = p.turns
  BY FailedFacts
<1>2. Inspected(p, late) = u
  BY DEF Inspected
<1> HIDE DEF q
<1>3. /\ u \in ReturnType /\ u.turns = p.turns
      /\ ~u.failed => u = p /\ (p.accepted = None \/ p.accepted.executed)
  BY <1>1, FailedFacts
<1> HIDE DEF u
<1>4. /\ Decision(u) = "accepted" => u = p /\ Stands(p)
      /\ Decision(u) # "failed" => ~u.failed
      /\ Decision(u) # "failed" /\ p.accepted # None => Decision(u) = "accepted"
  BY <1>3 DEF Decision, Stands
<1>5. Kept(p, u)
  BY <1>3 DEF Kept
<1> QED
  BY <1>2, <1>3, <1>4, <1>5


(* Something was submitted if a turn before the open one should have.      *)
LEMMA SomePaid ==
  ASSUME NEW p \in ReturnType, p.turns # <<>>, Current(p).calls = <<>>, p.accepted = None,
         Told(p), Tally(p, Len(p.turns) - 1)
  PROVE  p.attempts > 0 <=> \E j \in 1..(Len(p.turns) - 1) : Costs(p.turns[j])
<1> DEFINE n == Len(p.turns)
           W == Whole(p, n - 1)
<1>1. n \in Nat /\ n > 0 /\ DOMAIN p.turns = 1..n /\ p.turns[n].calls = <<>> /\ p.attempts \in Nat
  BY ReturnFields DEF ReturnType, Current
<1>2. /\ Cardinality(W) \in Nat /\ Cardinality(Single(p)) \in Nat
      /\ Cardinality(W) = 0 <=> W = {}
      /\ Cardinality(Single(p)) = 0 <=> Single(p) = {}
      /\ p.attempts = Cardinality(W) + Cardinality(Single(p))
  BY FS_CardinalityType, FS_EmptySet DEF Tally
<1>3. \A k \in 1..n : k = n \/ k \in 1..(n - 1)
  BY <1>1
<1>4. ASSUME p.attempts > 0 PROVE \E j \in 1..(n - 1) : Costs(p.turns[j])
  <2>1. W # {} \/ Single(p) # {}
    BY <1>2, <1>4
  <2>2. ASSUME NEW k \in W PROVE \E j \in 1..(n - 1) : Costs(p.turns[j])
    <3>1. k \in 1..n /\ (Mixes(p.turns[k]) \/ (k <= n - 1 /\ Misses(p, k)))
      BY <1>1 DEF Whole
    <3>2. CASE Mixes(p.turns[k])
      <4>1. k \in 1..(n - 1) /\ p.turns[k].calls # <<>>
        BY <1>1, <1>3, <3>1, <3>2 DEF Mixes
      <4> QED
        BY <4>1 DEF Costs
    <3>3. CASE k <= n - 1 /\ Misses(p, k)
      <4>1. PICK j \in 1..k : Costs(p.turns[j])
        BY <3>3 DEF Misses
      <4>2. j \in 1..(n - 1)
        BY <1>1, <3>1, <3>3
      <4> QED
        BY <4>1, <4>2
    <3> QED
      BY <3>1, <3>2, <3>3
  <2>3. ASSUME NEW s \in Single(p) PROVE \E j \in 1..(n - 1) : Costs(p.turns[j])
    <3>1. s \in Spots(p)
      BY DEF Single
    <3>2. s[1] \in 1..n /\ s[2] \in 1..Len(p.turns[s[1]].calls)
      BY <3>1, SpotsFacts
    <3>3. p.turns[s[1]].calls # <<>>
      BY <3>2
    <3>4. s[1] \in 1..(n - 1)
      BY <1>1, <1>3, <3>2, <3>3
    <3> QED
      BY <3>3, <3>4 DEF Costs
  <2> QED
    BY <2>1, <2>2, <2>3
<1>5. ASSUME NEW j \in 1..(n - 1), Costs(p.turns[j]) PROVE p.attempts > 0
  <2>1. j \in 1..n /\ j <= n - 1 /\ j \in 1..j
    BY <1>1
  <2>2. CASE p.turns[j].calls = <<>> \/ Mixes(p.turns[j])
    <3>1. j \in W
      BY <1>1, <1>5, <2>1, <2>2 DEF Whole, Misses
    <3> QED
      BY <1>2, <3>1
  <2>3. CASE p.turns[j].calls # <<>> /\ ~Mixes(p.turns[j])
    <3>1. p.turns[j].calls \in Seq(CallIds)
      BY <2>1, ReturnFields DEF TurnType
    <3>2. 1 \in 1..Len(p.turns[j].calls)
      BY <2>3, <3>1
    <3>3. PICK s : s = <<j, 1>>
      OBVIOUS
    <3>4. s \in Spots(p) /\ s[1] = j
      BY <2>1, <3>2, <3>3, SpotsFacts
    <3>5. s \in Single(p)
      BY <2>3, <3>4 DEF Single, Told
    <3> QED
      BY <1>2, <3>5
  <2> QED
    BY <2>2, <2>3
<1> QED
  BY <1>4, <1>5

(* finishTurn() counts a turn without a return as the receipt will.        *)
LEMMA FinishedBilled ==
  ASSUME NEW p \in ReturnType, p.turns # <<>>, Sound(p), Tally(p, Len(p.turns) - 1), ~TurnFinished(p).failed
  PROVE  /\ TurnFinished(p) \in ReturnType /\ TurnFinished(p).turns = p.turns
         /\ TurnFinished(p).accepted = p.accepted /\ ~p.failed
         /\ Sound(TurnFinished(p)) /\ Tally(TurnFinished(p), Len(p.turns))
<1> DEFINE q == IF Current(p).terminal THEN p ELSE Failed(p)
           missing == Current(q).calls = <<>> /\ (~Current(q).workTools \/ q.attempts > 0)
           pays == missing /\ ~q.failed /\ q.accepted = None
           u == IF pays THEN [q EXCEPT !.attempts = @ + 1] ELSE q
           n == Len(p.turns)
           W == Whole(p, n - 1)
<1>1. q \in ReturnType /\ (~q.failed => q = p)
  BY FailedFacts
<1>2. PICK m : m = p.attempts + 1
  OBVIOUS
<1>3. n \in Nat /\ n > 0 /\ p.attempts \in Nat /\ m \in Nat /\ DOMAIN p.turns = 1..n
      /\ p.turns[n] = Current(p)
  BY <1>2, ReturnFields DEF ReturnType, Current
<1>4. TurnFinished(p) = Exhausted(u)
  BY DEF TurnFinished
<1> HIDE DEF q
<1>5. u \in ReturnType /\ u.failed = q.failed
  <2>1. q.attempts + 1 \in Nat
    BY <1>1, ReturnFields
  <2> QED
    BY <1>1, <2>1 DEF ReturnType
<1>6. Exhausted(u) \in ReturnType /\ (~Exhausted(u).failed => Exhausted(u) = u)
  BY <1>5, FailedFacts, ExhaustedFacts DEF Exhausted
<1> HIDE DEF u
<1>7. TurnFinished(p) = u /\ ~q.failed /\ q = p /\ ~p.failed
  BY <1>1, <1>4, <1>5, <1>6
<1>8. /\ u.turns = p.turns /\ u.verdicts = p.verdicts /\ u.accepted = p.accepted
      /\ u.attempts = IF pays THEN m ELSE p.attempts
  BY <1>2, <1>7 DEF u, ReturnType
<1>9. pays <=> Current(p).calls = <<>> /\ (~Current(p).workTools \/ p.attempts > 0) /\ p.accepted = None
  BY <1>7
<1> HIDE DEF pays
<1>10. Sound(u) /\ Single(u) = Single(p) /\ Whole(u, n) = Whole(p, n)
  BY <1>5, <1>8, <1>9, SameTurns
<1>11. IsFiniteSet(W) /\ IsFiniteSet(Single(p)) /\ p.attempts = Cardinality(W) + Cardinality(Single(p))
       /\ Cardinality(W) \in Nat /\ Cardinality(Single(p)) \in Nat
  BY FS_CardinalityType DEF Tally
<1>12. \A k : k \in Whole(p, n) <=> k \in W \/ (k = n /\ Misses(p, n))
  BY <1>3 DEF Whole
<1>13. pays <=> Misses(p, n)
  <2>1. CASE Current(p).calls # <<>>
    BY <1>3, <1>9, <2>1 DEF Misses
  <2>2. CASE Current(p).calls = <<>>
    <3>1. p.accepted = None
      <4> SUFFICES ASSUME p.accepted # None PROVE FALSE
        OBVIOUS
      <4>1. PICK s \in Spots(p) : s[1] = n
        BY DEF Sound, Judgement, Decided, Chosen
      <4>2. s[2] \in 1..Len(Current(p).calls)
        BY <1>3, <4>1, SpotsFacts
      <4> QED
        BY <2>2, <4>2
    <3>2. p.attempts > 0 <=> \E j \in 1..(n - 1) : Costs(p.turns[j])
      BY <2>2, <3>1, SomePaid DEF Sound, Judgement
    <3>3. (\E j \in 1..n : Costs(p.turns[j])) <=> Costs(p.turns[n]) \/ \E j \in 1..(n - 1) : Costs(p.turns[j])
      <4>1. n \in 1..n /\ (\A j \in 1..n : j = n \/ j \in 1..(n - 1)) /\ \A j \in 1..(n - 1) : j \in 1..n
        BY <1>3
      <4> HIDE DEF n
      <4> QED
        BY <4>1
    <3>4. Costs(p.turns[n]) <=> ~Current(p).workTools
      BY <1>3, <2>2 DEF Costs
    <3> QED
      BY <1>3, <1>9, <2>2, <3>1, <3>2, <3>3, <3>4 DEF Misses
  <2> QED
    BY <2>1, <2>2
<1>14. Tally(u, n)
  <2>1. CASE pays
    <3>1. n \notin W
      BY <1>3, <1>9, <2>1 DEF Whole, Mixes
    <3>2. Whole(p, n) = W \cup {n}
      BY <1>12, <1>13, <2>1
    <3> HIDE DEF W
    <3>3. IsFiniteSet(W \cup {n}) /\ Cardinality(W \cup {n}) = Cardinality(W) + 1
      BY <1>11, <3>1, FS_AddElement
    <3> QED
      BY <1>2, <1>8, <1>10, <1>11, <2>1, <3>2, <3>3 DEF Tally
  <2>2. CASE ~pays
    <3>1. Whole(p, n) = W
      BY <1>12, <1>13, <2>2
    <3> QED
      BY <1>8, <1>10, <1>11, <2>2, <3>1 DEF Tally
  <2> QED
    BY <2>1, <2>2
<1> QED
  BY <1>5, <1>7, <1>8, <1>10, <1>14


(* beforeRequest() opens a turn that counts for nothing.                   *)
LEMMA OpenedBilled ==
  ASSUME NEW p \in ReturnType, Sound(p), p.accepted = None, Tally(p, Len(p.turns)),
         p.turns # <<>> => Current(p).terminal,
         NEW q, q = [p EXCEPT !.turns = Append(@, NewTurn)]
  PROVE  /\ q \in ReturnType /\ Streamed(q)
         /\ Len(q.turns) = Len(p.turns) + 1 /\ q.accepted = None
<1> DEFINE turns == Append(p.turns, NewTurn)
           n == Len(p.turns)
<1>1. NewTurn \in TurnType /\ NewTurn.items = <<>> /\ NewTurn.calls = <<>> /\ ~NewTurn.terminal
      /\ NewTurn.responseId = None
  BY DEF NewTurn, TurnType
<1>2. p.turns \in Seq(TurnType) /\ n \in Nat /\ (p.turns # <<>> <=> n # 0)
  BY ReturnFields
<1>3. turns \in Seq(TurnType) /\ Len(turns) = n + 1 /\ turns[n + 1] = NewTurn
      /\ \A j \in 1..n : turns[j] = p.turns[j]
  BY <1>1, <1>2
<1>4. q = [p EXCEPT !.turns = turns]
  BY DEF ReturnType
<1> HIDE DEF turns
<1>5. /\ q \in ReturnType /\ q.turns = turns /\ q.attempts = p.attempts
      /\ q.accepted = None /\ q.verdicts = p.verdicts
  BY <1>3, <1>4 DEF ReturnType
<1>6. /\ n + 1 \in Nat /\ (n + 1) - 1 = n /\ \A k \in 1..(n + 1) : k = n + 1 \/ k \in 1..n
      /\ \A k \in 1..n : k = n \/ k \in 1..(n - 1)
  BY <1>2
<1>7. SameSpots(p, q) /\ Whole(q, n) = Whole(p, n)
  <2>1. /\ Len(q.turns) = Len(p.turns) + 1 /\ q.turns[Len(p.turns) + 1].calls = <<>>
        /\ \A k \in 1..Len(p.turns) : q.turns[k] = p.turns[k]
    BY <1>1, <1>3, <1>5
  <2> QED
    BY <1>5, <2>1, OpenedWhole
<1>8. /\ Judgement(q)
      /\ Spent(q) = Spent(p) /\ Single(q) = Single(p)
  <2>1. \A s \in Spots(p) : q.turns[s[1]] = p.turns[s[1]]
    BY <1>3, <1>5, SpotsFacts
  <2>2. \A s \in Spots(p) : Mixes(q.turns[s[1]]) <=> Mixes(p.turns[s[1]])
    BY <2>1
  <2>3. Judgement(p)
    BY DEF Sound
  <2> QED
    BY <1>5, <1>7, <2>2, <2>3, SameJudgement
<1>9. Named(q)
  <2>1. \A k \in 1..n : p.turns[k].terminal
    <3>1. n \in 1..n => Current(p).terminal
      BY <1>2
    <3> QED
      BY <1>6, <3>1 DEF Sound, Named, Current
  <2>2. \A k \in 1..(n + 1) : q.turns[k].terminal => q.turns[k].responseId # None
    BY <1>1, <1>3, <1>5, <1>6 DEF Sound, Named
  <2>3. \A k \in 1..n : q.turns[k].terminal
    BY <1>3, <1>5, <2>1
  <2>4. ASSUME NEW j \in 1..(n + 1), NEW k \in 1..(n + 1), j # k, q.turns[j].responseId # None
        PROVE  q.turns[j].responseId # q.turns[k].responseId
    <3>1. j \in 1..n
      BY <1>1, <1>3, <1>5, <1>6, <2>4
    <3>2. CASE k = n + 1
      BY <1>1, <1>3, <1>5, <2>4, <3>2
    <3>3. CASE k \in 1..n
      BY <1>3, <1>5, <2>4, <3>1, <3>3 DEF Sound, Named
    <3> QED
      BY <1>6, <3>2, <3>3
  <2> QED
    BY <1>3, <1>5, <1>6, <2>2, <2>3, <2>4 DEF Named
<1>10. Known(q)
  <2>1. ASSUME NEW c \in Observed(p) PROVE c \in Observed(q)
    <3>1. PICK k \in 1..n : \E i \in 1..Len(p.turns[k].items) : p.turns[k].items[i].call = c
      BY ObservedFacts
    <3>2. k \in 1..Len(q.turns) /\ q.turns[k] = p.turns[k]
      BY <1>2, <1>3, <1>5
    <3>3. \E i \in 1..Len(q.turns[k].items) : q.turns[k].items[i].call = c
      BY <3>1, <3>2
    <3>4. \A d : d \in Observed(q) <=>
             \E h \in 1..Len(q.turns) : \E i \in 1..Len(q.turns[h].items) : q.turns[h].items[i].call = d
      BY <1>5, ObservedFacts
    <3> QED
      BY <3>2, <3>3, <3>4
  <2> QED
    BY <1>8, <2>1 DEF Known, Sound
<1>11. Fresh(q)
  <2>1. Current(q) = NewTurn
    BY <1>3, <1>5 DEF Current
  <2>2. 1..Len(Current(q).items) = {}
    BY <1>1, <2>1
  <2> QED
    BY <2>2 DEF Fresh
<1>12. Tally(q, Len(q.turns) - 1)
  <2>1. Tally(q, n)
    BY <1>5, <1>7, <1>8 DEF Tally
  <2> QED
    BY <1>3, <1>5, <1>6, <2>1
<1> QED
  BY <1>3, <1>5, <1>8, <1>9, <1>10, <1>11, <1>12 DEF Streamed, Sound


-----------------------------------------------------------------------------
(* The receipt                                                             *)

LEMMA Listing ==
  ASSUME NEW m \in Nat, NEW f, f = [j \in 1..m |-> f[j]]
  PROVE  Len(f) = m /\ (f = <<>> <=> m = 0)
<1> DEFINE S == {f[j] : j \in 1..m}
<1>1. f \in Seq(S) /\ Len(f) = m
  BY DEF S
<1> QED
  BY <1>1

\* The raw turn u of the turn t.
Copies(t, u) ==
    /\ u.responseId = t.responseId /\ u.terminal = t.terminal /\ u.workTools = t.workTools
    /\ DOMAIN u.calls = DOMAIN t.calls /\ (u.calls = <<>> <=> t.calls = <<>>)

\* The entry of a proposal.
Notes(p, s, c) ==
    /\ c.callId = CallAt(p, s)
    /\ c.arguments = VerdictAt(p, s).arguments /\ c.validation = VerdictAt(p, s).validation

(* What the receipt holds of the turns.                                    *)
LEMMA ReceiptTurns ==
  ASSUME NEW p \in ReturnType, NEW l, NEW r, r = Receipt(p, l)
  PROVE  /\ r.value = p.accepted.value
         /\ r.spent.outputAttempts = p.attempts
         /\ r.spent.assistantTurns = l.assistantTurns
         /\ r.spent.toolCalls = l.admittedToolCalls
         /\ Len(r.rawTurns) = Len(p.turns) /\ DOMAIN r.rawTurns = 1..Len(p.turns)
         /\ \A k \in 1..Len(p.turns) : Copies(p.turns[k], r.rawTurns[k])
         /\ \A k \in 1..Len(p.turns) : \A j \in DOMAIN p.turns[k].calls :
              Notes(p, <<k, j>>, r.rawTurns[k].calls[j])
<1> DEFINE Entry(k, j) == [callId |-> p.turns[k].calls[j],
                           arguments |-> p.verdicts[p.turns[k].calls[j]].arguments,
                           validation |-> p.verdicts[p.turns[k].calls[j]].validation]
           Calls(k) == [j \in DOMAIN p.turns[k].calls |-> Entry(k, j)]
           Turn(k) == [responseId |-> p.turns[k].responseId, terminal |-> p.turns[k].terminal,
                       workTools |-> p.turns[k].workTools, calls |-> Calls(k)]
           n == Len(p.turns)
<1>1. DOMAIN p.turns = 1..n /\ n \in Nat
  BY ReturnFields DEF ReturnType
<1>2. /\ r.rawTurns = [k \in DOMAIN p.turns |-> Turn(k)]
      /\ r.value = p.accepted.value
      /\ r.spent.outputAttempts = p.attempts
      /\ r.spent.assistantTurns = l.assistantTurns
      /\ r.spent.toolCalls = l.admittedToolCalls
  BY DEF Receipt
<1>3. \A k, j : Notes(p, <<k, j>>, Entry(k, j))
  BY DEF Notes, CallAt, VerdictAt
<1> HIDE DEF Entry
<1>4. ASSUME NEW k \in 1..n
      PROVE  /\ DOMAIN Calls(k) = DOMAIN p.turns[k].calls
             /\ Calls(k) = <<>> <=> p.turns[k].calls = <<>>
             /\ \A j \in DOMAIN p.turns[k].calls : Calls(k)[j] = Entry(k, j)
  <2>1. p.turns[k].calls \in Seq(CallIds)
    BY ReturnFields DEF TurnType
  <2>2. PICK m \in Nat : m = Len(p.turns[k].calls)
    BY <2>1
  <2>3. DOMAIN p.turns[k].calls = 1..m /\ (p.turns[k].calls = <<>> <=> m = 0)
    BY <2>1, <2>2
  <2>4. PICK f : f = Calls(k)
    OBVIOUS
  <2>5. f = [j \in 1..m |-> f[j]]
    BY <2>3, <2>4
  <2>6. f = <<>> <=> m = 0
    BY <2>5, Listing
  <2> QED
    BY <2>3, <2>4, <2>6
<1> HIDE DEF Calls
<1>5. \A k \in 1..n : /\ r.rawTurns[k].responseId = p.turns[k].responseId
                      /\ r.rawTurns[k].terminal = p.turns[k].terminal
                      /\ r.rawTurns[k].workTools = p.turns[k].workTools
                      /\ r.rawTurns[k].calls = Calls(k)
  BY <1>1, <1>2
<1>6. DOMAIN r.rawTurns = 1..n /\ r.rawTurns = [k \in 1..n |-> r.rawTurns[k]]
  BY <1>1, <1>2
<1> HIDE DEF Turn
<1>7. Len(r.rawTurns) = n
  BY <1>1, <1>6, Listing
<1>8. \A k \in 1..n : /\ Copies(p.turns[k], r.rawTurns[k])
                      /\ \A j \in DOMAIN p.turns[k].calls : Notes(p, <<k, j>>, r.rawTurns[k].calls[j])
  BY <1>3, <1>4, <1>5 DEF Copies
<1> QED
  BY <1>2, <1>6, <1>7, <1>8


(* A value that stands leaves a receipt that verifies.                     *)
LEMMA StandingVerifies ==
  ASSUME NEW p \in ReturnType, Sound(p), Stands(p), Tally(p, Len(p.turns)),
         NEW l, l.assistantTurns = Len(p.turns), Len(p.turns) <= MaxTurns,
         l.admittedToolCalls \in 1..MaxToolCalls
  PROVE  Verifies(Receipt(p, l))
<1> DEFINE n == Len(p.turns)
<1>0. PICK r : r = Receipt(p, l)
  OBVIOUS
<1> DEFINE turns == r.rawTurns
           Empty(k) == turns[k].calls = <<>>
           Mixed(k) == turns[k].workTools /\ ~Empty(k)
           Counts(k) == ~Empty(k) \/ ~turns[k].workTools
           Missing(k) == Empty(k) /\ (\E j \in 1..k : Counts(j))
           places == UNION {{k} \X DOMAIN turns[k].calls : k \in DOMAIN turns}
           Call(s) == turns[s[1]].calls[s[2]]
           Precedes(s, u) == s[1] < u[1] \/ (s[1] = u[1] /\ s[2] < u[2])
           first == {s \in places : Call(s).validation # "rejected"
                                    /\ \A u \in places : Precedes(u, s) => Call(u).validation = "rejected"}
           whole == {k \in DOMAIN turns : Mixed(k) \/ Missing(k)}
           single == {s \in places : ~Mixed(s[1]) /\ Call(s).validation \in {"rejected", "accepted"}}
<1>1. /\ n \in Nat /\ n > 0 /\ n \in 1..n /\ DOMAIN p.turns = 1..n /\ Current(p) = p.turns[n]
      /\ \A k \in 1..n : k = n \/ k \in 1..(n - 1)
  BY ReturnFields DEF ReturnType, Stands, Current
<1>2. /\ r.value = p.accepted.value
      /\ r.spent.outputAttempts = p.attempts
      /\ r.spent.assistantTurns = n
      /\ r.spent.toolCalls = l.admittedToolCalls
      /\ Len(turns) = n /\ DOMAIN turns = 1..n
  BY <1>0, ReceiptTurns
<1>3. \A k \in 1..n : Copies(p.turns[k], turns[k])
  BY <1>0, ReceiptTurns
<1>4. \A k \in 1..n : \A j \in DOMAIN p.turns[k].calls : Notes(p, <<k, j>>, turns[k].calls[j])
  BY <1>0, ReceiptTurns
<1>5. \A k \in 1..n : DOMAIN p.turns[k].calls = 1..Len(p.turns[k].calls)
  BY ReturnFields DEF TurnType
<1>6. places = Spots(p)
  BY <1>1, <1>2, <1>3 DEF Spots, Copies
<1>7. \A s \in Spots(p) : s[1] \in 1..n /\ Notes(p, s, Call(s))
  <2> SUFFICES ASSUME NEW s \in Spots(p)
               PROVE  s[1] \in 1..n /\ Notes(p, s, Call(s))
    OBVIOUS
  <2>1. s = <<s[1], s[2]>> /\ s[1] \in 1..n /\ s[2] \in DOMAIN p.turns[s[1]].calls
    BY <1>5, SpotsFacts
  <2> QED
    BY <1>4, <2>1
<1>8. \A k \in 1..n : /\ Mixed(k) <=> Mixes(p.turns[k])
                      /\ Counts(k) <=> Costs(p.turns[k])
  BY <1>3 DEF Mixes, Costs, Copies
<1> HIDE DEF Call, Mixed, Counts, places
<1>9. single = Single(p)
  BY <1>6, <1>7, <1>8 DEF Single, Notes
<1>10. whole = Whole(p, n)
  <2>1. ASSUME NEW k \in 1..n PROVE Missing(k) <=> Misses(p, k)
    <3>1. \A j \in 1..k : j \in 1..n
      BY <1>1
    <3> QED
      BY <1>3, <1>8, <3>1 DEF Misses, Copies
  <2>2. \A k \in 1..n : k <= n
    BY <1>1
  <2> QED
    BY <1>1, <1>2, <1>8, <2>1, <2>2 DEF Whole
<1>11. PICK s \in Spots(p) : Chosen(p, s)
  BY DEF Sound, Judgement, Decided, Stands
<1>12. Call(s).validation = "accepted" /\ Call(s).arguments = r.value /\ s[1] = n
  BY <1>2, <1>7, <1>11 DEF Chosen, Verdict, Notes
<1>13. s \in first
  BY <1>6, <1>7, <1>11, <1>12 DEF Chosen, Before, Notes
<1>14. \A u \in places : Precedes(s, u) => Call(u).validation = "duplicate" /\ Call(u).arguments = r.value
  BY <1>2, <1>6, <1>7, <1>11 DEF Chosen, Before, Verdict, Notes
<1>15. \A u, w \in places : u # w => Call(u).callId # Call(w).callId
  BY <1>6, <1>7 DEF Sound, Judgement, Placed, Notes
<1>16. \A u \in places : Mixed(u[1]) => Call(u).validation = "rejected"
  BY <1>6, <1>7, <1>8 DEF Sound, Judgement, Told, Notes
<1>17. \A k \in DOMAIN turns : turns[k].terminal /\ turns[k].responseId # None
  BY <1>1, <1>2, <1>3 DEF Sound, Named, Stands, Copies
<1>18. \A j, k \in DOMAIN turns : j # k => turns[j].responseId # turns[k].responseId
  <2>1. \A j \in 1..n : p.turns[j].responseId # None
    BY <1>2, <1>3, <1>17 DEF Copies
  <2> QED
    BY <1>2, <1>3, <2>1 DEF Sound, Named, Copies
<1>19. /\ r.spent.outputAttempts \in 1..MaxSubmissions
       /\ r.spent.outputAttempts = Cardinality(whole) + Cardinality(single)
  BY <1>2, <1>9, <1>10 DEF Sound, Judgement, Decided, Stands, Tally
<1>20. /\ r.spent.assistantTurns \in 1..MaxTurns /\ r.spent.assistantTurns = Len(turns)
       /\ r.spent.toolCalls \in 1..MaxToolCalls
  BY <1>1, <1>2, ReturnAssumption
<1>21. \E u \in first :
          /\ u[1] = Len(turns) /\ Call(u).validation = "accepted" /\ Call(u).arguments = r.value
          /\ \A w \in places : Precedes(u, w) => Call(w).validation = "duplicate" /\ Call(w).arguments = r.value
  BY <1>2, <1>12, <1>13, <1>14
<1>22. Verifies(r)
  BY <1>15, <1>16, <1>17, <1>18, <1>19, <1>20, <1>21, Zenon DEF Verifies, Call, Mixed, Counts, places
<1> QED
  BY <1>0, <1>22


-----------------------------------------------------------------------------
(* The receipt, action by action                                           *)

LEMMA ReceiptStarts == Init => ReceiptInv
<1> SUFFICES ASSUME Init PROVE ReceiptInv
  OBVIOUS
<1>1. PICK p : p = port
  OBVIOUS
<1>2. /\ p \in ReturnType /\ p.turns = <<>> /\ p.accepted = None /\ p.attempts = 0
      /\ at = "between" /\ result = None /\ ledger.assistantTurns = 0 /\ ledger.admittedToolCalls = 0
  BY <1>1, ReturnAssumption DEF Init, NewReturn, ReturnType
<1>3. Len(p.turns) = 0 /\ DOMAIN p.turns = {} /\ 1..Len(p.turns) = {}
  BY <1>2
<1>4. Spots(p) = {} /\ Whole(p, 0) = {}
  BY <1>3 DEF Spots, Whole
<1>5. Spent(p) = {} /\ Single(p) = {}
  BY <1>4 DEF Spent, Single
<1>6. Tally(p, 0)
  <2>1. IsFiniteSet({}) /\ Cardinality({}) = 0
    BY FS_EmptySet
  <2>2. IsFiniteSet(Whole(p, 0)) /\ Cardinality(Whole(p, 0)) = 0
    BY <1>4, <2>1
  <2>3. IsFiniteSet(Single(p)) /\ Cardinality(Single(p)) = 0
    BY <1>5, <2>1
  <2> QED
    BY <1>2, <2>2, <2>3 DEF Tally
<1>7. Sound(p)
  <2>1. 1..(Len(p.turns) - 1) = {}
    BY <1>3
  <2> QED
    BY <1>2, <1>3, <1>4, <1>5, <2>1 DEF Sound, Named, Known, Judgement, Placed, Told, Decided
<1>8. Metered
  BY <1>1, <1>2, <1>3, ReturnAssumption DEF Metered
<1>9. result # "completed" /\ at \notin {"streaming", "tools", "closing"}
  BY <1>2, CallAssumption
<1> QED
  BY <1>1, <1>3, <1>6, <1>7, <1>8, <1>9, CallStarts DEF ReceiptInv

(* Steps that open no turn and judge nothing.                              *)
LEMMA QuietStep ==
  ASSUME ReceiptInv, StructuredInv', NEW q, port' = q, Kept(port, q),
         ledger'.assistantTurns = ledger.assistantTurns, ledger'.admittedToolCalls <= MaxToolCalls,
         ~q.failed /\ q.accepted # None /\ q.accepted.executed => ledger'.admittedToolCalls > 0,
         at' = "streaming" => at = "streaming",
         at' = "tools" /\ ~q.failed => at = "tools",
         at' \in {"between", "broken", "ended", "closing"} /\ ~q.failed
           => at \in {"between", "broken", "ended", "closing"} \/ ~Settled(q),
         at' = "closing" => Stands(q),
         result' = "completed" => at \in {"closing", "returned"} /\ at' = "returned" /\ Stands(q),
         result' = "completed" /\ at = "returned" => result = "completed"
  PROVE  ReceiptInv'
<1>1. /\ q.turns = port.turns /\ (Settled(q) <=> Settled(port))
      /\ ~q.failed => /\ ~port.failed /\ Sound(q)
                      /\ Fresh(port) => Fresh(q)
                      /\ \A m : Tally(port, m) => Tally(q, m)
  BY DEF Kept, ReceiptInv, Settled, Current
<1>2. ASSUME ~q.failed, at' = "streaming" PROVE Fresh(q)
  BY <1>1, <1>2 DEF ReceiptInv
<1>3. ASSUME ~q.failed, at' \in {"streaming", "tools"} PROVE Tally(q, Len(q.turns) - 1)
  BY <1>1, <1>3 DEF ReceiptInv
<1>4. ASSUME ~q.failed, Settled(q),
             at' \in {"between", "broken", "ended", "closing"} \/ result' = "completed"
      PROVE  Tally(q, Len(q.turns))
  <2>1. at \in {"between", "broken", "ended", "closing"} \/ result = "completed"
    BY <1>4
  <2>2. Tally(port, Len(port.turns))
    BY <1>1, <1>4, <2>1 DEF ReceiptInv
  <2> QED
    BY <1>1, <1>4, <2>2
<1>5. Metered'
  BY <1>1 DEF ReceiptInv, Metered
<1> QED
  BY <1>1, <1>2, <1>3, <1>4, <1>5 DEF ReceiptInv

(* A raw event the owner sees.                                             *)
LEMMA StreamStep ==
  ASSUME ReceiptInv, StructuredInv', NEW q, Event(q), Len(q.turns) = Len(port.turns),
         ~q.failed => Streamed(q)
  PROVE  ReceiptInv'
<1>1. at = "streaming" /\ at' = at /\ port' = q /\ ledger' = ledger /\ result' = result
  BY DEF Event, StreamUnchanged
<1>2. q.accepted = None
  BY <1>1 DEF StructuredInv, Streams, Open
<1>3. result # "completed"
  BY <1>1 DEF ReceiptInv
<1>4. Metered'
  BY <1>1, <1>2 DEF ReceiptInv, Metered
<1> QED
  BY <1>1, <1>3, <1>4 DEF ReceiptInv, Streamed

LEMMA StreamedPort ==
  ASSUME ReceiptInv, at = "streaming", ~port.failed
  PROVE  port \in ReturnType /\ Open(port) /\ Streamed(port)
BY DEF ReceiptInv, Streamed, StructuredInv, StructuredTypeOK, Streams

LEMMA EventFails ==
  ASSUME NEW p \in ReturnType
  PROVE  /\ \A r : ~ResponseCreated(p, r).failed => ~p.failed
         /\ \A c, n : ~ToolAdded(p, c, n).failed => ~p.failed
         /\ \A c, arg, twice : ~ItemFinalized(p, c, arg, twice).failed => ~p.failed
<1>1. \A t : OnTurn(p, t).failed = p.failed
  BY DEF OnTurn, ReturnType
<1>2. Failed(p).failed
  BY FailedFacts
<1> HIDE DEF OnTurn, Failed
<1> QED
  BY <1>1, <1>2 DEF ResponseCreated, ToolAdded, ItemFinalized

LEMMA EventSteps ==
  ASSUME ReceiptInv, StructuredInv',
         \/ \E r \in Responses : Created(r)
         \/ \E c \in CallIds, n \in Names : Added(c, n)
         \/ \E c \in CallIds, arg \in Arguments, doneTwice \in BOOLEAN : Finalizes(c, arg, doneTwice)
         \/ Refuses
  PROVE  ReceiptInv'
<1>1. at = "streaming" /\ port \in ReturnType /\ Open(port)
  BY DEF Created, Added, Finalizes, Refuses, Event, ReceiptInv, StructuredInv, StructuredTypeOK, Streams
<1>2. ASSUME NEW r \in Responses, Created(r) PROVE ReceiptInv'
  <2>1. PICK q : q = ResponseCreated(port, r)
    OBVIOUS
  <2>2. Len(q.turns) = Len(port.turns) /\ (~q.failed => Streamed(q))
    BY <1>1, <2>1, CreatedOpen, EventFails, StreamedPort, CreatedBilled DEF SameBefore
  <2> QED
    BY <1>2, <2>1, <2>2, StreamStep DEF Created
<1>3. ASSUME NEW c \in CallIds, NEW n \in Names, Added(c, n) PROVE ReceiptInv'
  <2>1. PICK q : q = ToolAdded(port, c, n)
    OBVIOUS
  <2>2. Len(q.turns) = Len(port.turns) /\ (~q.failed => Streamed(q))
    BY <1>1, <2>1, AddedOpen, EventFails, StreamedPort, AddedBilled DEF SameBefore
  <2> QED
    BY <1>3, <2>1, <2>2, StreamStep DEF Added
<1>4. ASSUME NEW c \in CallIds, NEW arg \in Arguments, NEW twice \in BOOLEAN, Finalizes(c, arg, twice)
      PROVE  ReceiptInv'
  <2>1. PICK q : q = ItemFinalized(port, c, arg, twice)
    OBVIOUS
  <2>2. Len(q.turns) = Len(port.turns) /\ (~q.failed => Streamed(q))
    BY <1>1, <2>1, FinalizedOpen, EventFails, StreamedPort, FinalizedItemBilled DEF SameBefore
  <2> QED
    BY <1>4, <2>1, <2>2, StreamStep DEF Finalizes
<1>5. CASE Refuses
  <2>1. PICK q : q = Failed(port)
    OBVIOUS
  <2>2. Len(q.turns) = Len(port.turns) /\ q.failed
    BY <1>1, <2>1, FailedFacts
  <2> QED
    BY <1>5, <2>1, <2>2, StreamStep DEF Refuses
<1> QED
  BY <1>2, <1>3, <1>4, <1>5


LEMMA RequestBilled ==
  ASSUME ReceiptInv, StructuredInv', Request
  PROVE  ReceiptInv'
<1>0. /\ at \in {"between", "broken"} /\ result' = result /\ result # "completed"
      /\ port \in ReturnType /\ ledger.admittedToolCalls <= MaxToolCalls
  BY DEF Request, ReceiptInv, StructuredInv, StructuredTypeOK, Metered
<1>1. ASSUME NEW q, port' = q, Kept(port, q), q.failed \/ q = port, at' = "broken", ledger' = ledger
      PROVE  ReceiptInv'
  <2>1. ~q.failed /\ q.accepted # None /\ q.accepted.executed => ledger'.admittedToolCalls > 0
    BY <1>1 DEF ReceiptInv, Metered
  <2> QED
    BY <1>0, <1>1, <2>1, QuietStep
<1>2. CASE ~hooked
  <2>1. PICK q : q = Failed(port)
    OBVIOUS
  <2> QED
    BY <1>0, <1>1, <1>2, <2>1, FailedFacts, FailedIsKept DEF Request, Lost
<1>3. CASE hooked
  <2>1. PICK route \in BOOLEAN :
          LET p == RequestChecked(port, route)
              outOfTurns == ledger.assistantTurns >= MaxTurns
          IN  IF p.failed \/ p.accepted # None \/ outOfTurns \/ expired'
              THEN /\ port' = IF p.accepted = None /\ outOfTurns THEN Failed(p) ELSE p
                   /\ at' = "broken"
                   /\ UNCHANGED ledger
              ELSE /\ port' = [p EXCEPT !.turns = Append(@, NewTurn)]
                   /\ ledger' = [ledger EXCEPT !.assistantTurns = @ + 1]
                   /\ at' = "streaming"
    BY <1>3 DEF Request
  <2>2. PICK p : p = RequestChecked(port, route)
    OBVIOUS
  <2>3. /\ p \in ReturnType /\ Kept(port, p) /\ (~p.failed => p = port)
        /\ ~p.failed => (port.turns # <<>> => Current(port).terminal)
    BY <1>0, <2>2, RequestCheckedFacts, CheckedIsKept
  <2>4. CASE p.failed \/ p.accepted # None \/ ledger.assistantTurns >= MaxTurns \/ expired'
    <3>1. PICK q : q = port'
      OBVIOUS
    <3>2. (q = p \/ q = Failed(p)) /\ at' = "broken" /\ ledger' = ledger
      BY <2>1, <2>2, <2>4, <3>1
    <3>3. Kept(port, q) /\ (q.failed \/ q = port)
      BY <2>3, <3>2, FailedFacts DEF Kept
    <3> QED
      BY <1>1, <3>1, <3>2, <3>3
  <2>5. CASE ~(p.failed \/ p.accepted # None \/ ledger.assistantTurns >= MaxTurns \/ expired')
    <3>1. /\ port' = [p EXCEPT !.turns = Append(@, NewTurn)]
          /\ ledger' = [ledger EXCEPT !.assistantTurns = @ + 1] /\ at' = "streaming"
      BY <2>1, <2>2, <2>5
    <3>2. PICK q : q = [p EXCEPT !.turns = Append(@, NewTurn)]
      OBVIOUS
    <3>3. p = port /\ ~p.failed /\ p.accepted = None /\ (p.turns # <<>> => Current(p).terminal)
      BY <2>3, <2>5
    <3>4. Sound(p) /\ Tally(p, Len(p.turns))
      BY <1>0, <3>3 DEF ReceiptInv, Settled
    <3>5. q \in ReturnType /\ Streamed(q) /\ Len(q.turns) = Len(p.turns) + 1 /\ q.accepted = None
      BY <2>3, <3>2, <3>3, <3>4, OpenedBilled
    <3>6. /\ ledger.assistantTurns = Len(port.turns) /\ ledger.assistantTurns \in Nat
          /\ ledger'.assistantTurns = ledger.assistantTurns + 1
          /\ ledger'.admittedToolCalls = ledger.admittedToolCalls
      BY <3>1 DEF ReceiptInv, Metered, StructuredInv, StructuredTypeOK
    <3>7. port' = q
      BY <3>1, <3>2
    <3>8. Metered'
      BY <1>0, <2>5, <3>3, <3>5, <3>6, <3>7, ReturnAssumption DEF Metered
    <3> QED
      BY <1>0, <3>1, <3>5, <3>7, <3>8 DEF ReceiptInv, Streamed
  <2> QED
    BY <2>4, <2>5
<1> QED
  BY <1>2, <1>3 DEF ReceiptInv, StructuredInv, StructuredTypeOK

(* The end of a message, however it ends.                                  *)
LEMMA StreamEnds ==
  ASSUME ReceiptInv, StructuredInv',
         EndsBadly \/ Disconnects \/ \E r \in Responses, output \in {"confirms", "differs", "refuses"} : Completes(r, output)
  PROVE  ReceiptInv'
<1>1. /\ at = "streaming" /\ port \in ReturnType /\ Open(port) /\ ~Settled(port)
      /\ ledger' = ledger /\ result' = result /\ result # "completed" /\ at' \in {"tools", "broken"}
  BY DEF EndsBadly, Disconnects, Completes, MessageEnds, Lost, StreamUnchanged,
         ReceiptInv, StructuredInv, StructuredTypeOK, Streams, Open, Settled
<1>2. ledger.admittedToolCalls <= MaxToolCalls
  BY DEF ReceiptInv, Metered
<1>3. CASE port' = Failed(port)
  <2>1. PICK q : q = Failed(port)
    OBVIOUS
  <2> QED
    BY <1>1, <1>2, <1>3, <2>1, FailedFacts, FailedIsKept, QuietStep
<1>4. CASE port' = port /\ at' = "broken"
  <2>1. ~port.failed /\ port.accepted # None /\ port.accepted.executed => ledger'.admittedToolCalls > 0
    BY <1>1 DEF Open
  <2> QED
    BY <1>1, <1>2, <1>4, <2>1, FailedIsKept, QuietStep
<1>5. ASSUME NEW r \in Responses, NEW output, port' = TerminalCompleted(port, r, output), at' = "tools"
      PROVE  ReceiptInv'
  <2>1. PICK q : q = TerminalCompleted(port, r, output)
    OBVIOUS
  <2>2. Len(q.turns) = Len(port.turns)
    BY <1>1, <2>1, TerminalFacts DEF Open, SameBefore
  <2>3. ~q.failed => /\ Sound(q) /\ Tally(q, Len(q.turns) - 1) /\ Unused(q)
    <3> SUFFICES ASSUME ~q.failed PROVE Sound(q) /\ Tally(q, Len(q.turns) - 1) /\ Unused(q)
      OBVIOUS
    <3>1. ~port.failed
      BY <1>1, <2>1, TerminalKeepsFailure DEF Open
    <3>2. Fresh(port) /\ Sound(port) /\ Tally(port, Len(port.turns) - 1)
      BY <1>1, <3>1, StreamedPort DEF Streamed
    <3> QED
      BY <1>1, <2>1, <2>2, <3>2, TerminalBilled
  <2>4. Metered'
    BY <1>1, <1>5, <2>1, <2>2, <2>3 DEF ReceiptInv, Metered, Unused
  <2> QED
    BY <1>1, <1>5, <2>1, <2>3, <2>4 DEF ReceiptInv
<1> QED
  BY <1>1, <1>3, <1>4, <1>5 DEF EndsBadly, Disconnects, Completes, MessageEnds, Lost


LEMMA ToolsBilled ==
  ASSUME ReceiptInv, StructuredInv', Dispatch \/ HostRefuses
  PROVE  ReceiptInv'
<1>1. /\ at = "tools" /\ at' = "tools" /\ result' = result /\ result # "completed" /\ port \in ReturnType
      /\ ledger \in [toolCalls : Nat, admittedToolCalls : Nat, assistantTurns : Nat]
      /\ ledger.admittedToolCalls <= MaxToolCalls
  BY DEF Dispatch, HostRefuses, ReceiptInv, Metered, StructuredInv, StructuredTypeOK
<1>2. Counted.assistantTurns = ledger.assistantTurns /\ Counted.admittedToolCalls = ledger.admittedToolCalls
  BY <1>1 DEF Counted
<1>3. CASE ledger' = Counted /\ port' \in {port, Failed(port)}
  <2>1. PICK q : q = port'
    OBVIOUS
  <2>2. Kept(port, q) /\ (q.failed \/ q = port)
    BY <1>1, <1>3, <2>1, FailedFacts, FailedIsKept
  <2>3. ~q.failed /\ q.accepted # None /\ q.accepted.executed => ledger'.admittedToolCalls > 0
    BY <1>2, <1>3, <2>2 DEF ReceiptInv, Metered
  <2> QED
    BY <1>1, <1>2, <1>3, <2>1, <2>2, <2>3, QuietStep
<1>4. CASE /\ ledger.admittedToolCalls < MaxToolCalls
           /\ ledger' = [Counted EXCEPT !.admittedToolCalls = @ + 1]
           /\ port' = IF Head(queue).name = "work" THEN port ELSE Executed(port, Head(queue).call)
  <2>1. PICK q : q = port'
    OBVIOUS
  <2>2. Kept(port, q)
    BY <1>1, <1>4, <2>1, ExecutedIsKept, FailedIsKept
  <2>3. /\ ledger'.assistantTurns = ledger.assistantTurns
        /\ ledger'.admittedToolCalls <= MaxToolCalls /\ ledger'.admittedToolCalls > 0
    <3>1. ledger'.admittedToolCalls = ledger.admittedToolCalls + 1
      BY <1>1, <1>4 DEF Counted
    <3> QED
      BY <1>1, <1>4, <3>1, ReturnAssumption DEF Counted
  <2> QED
    BY <1>1, <2>1, <2>2, <2>3, QuietStep
<1> QED
  BY <1>3, <1>4 DEF Dispatch, HostRefuses

LEMMA FinishTurnBilled ==
  ASSUME ReceiptInv, StructuredInv', FinishTurn
  PROVE  ReceiptInv'
<1>1. /\ at = "tools" /\ at' \in {"broken", "between"} /\ ledger' = ledger
      /\ result' = result /\ result # "completed"
      /\ port \in ReturnType /\ port.turns # <<>> /\ ledger.admittedToolCalls <= MaxToolCalls
  BY DEF FinishTurn, Lost, ReceiptInv, Metered, StructuredInv, StructuredTypeOK, Dispatches
<1>2. CASE Lost
  <2>1. PICK q : q = Failed(port)
    OBVIOUS
  <2> QED
    BY <1>1, <1>2, <2>1, FailedFacts, FailedIsKept, QuietStep DEF Lost
<1>3. CASE port' = TurnFinished(port) /\ at' = "between"
  <2>1. PICK q : q = TurnFinished(port)
    OBVIOUS
  <2>2. q \in ReturnType /\ q.turns = port.turns /\ (~q.failed => ~port.failed)
    BY <1>1, <2>1, TurnFinishedFacts
  <2>3. ~q.failed => /\ Sound(q) /\ Tally(q, Len(q.turns)) /\ q.accepted = port.accepted
    <3> SUFFICES ASSUME ~q.failed PROVE Sound(q) /\ Tally(q, Len(q.turns)) /\ q.accepted = port.accepted
      OBVIOUS
    <3>1. Sound(port) /\ Tally(port, Len(port.turns) - 1)
      BY <1>1, <2>2 DEF ReceiptInv
    <3> QED
      BY <1>1, <2>1, <2>2, <3>1, FinishedBilled
  <2>4. Metered'
    BY <1>1, <1>3, <2>1, <2>2, <2>3 DEF ReceiptInv, Metered
  <2> QED
    BY <1>1, <1>3, <2>1, <2>3, <2>4 DEF ReceiptInv
<1> QED
  BY <1>2, <1>3 DEF FinishTurn

(* Steps of the host between turns.                                        *)
LEMMA HostBilled ==
  ASSUME ReceiptInv, StructuredInv', PromptEnds \/ Inspect \/ Close \/ TurnStops \/ FreshChild
  PROVE  ReceiptInv'
<1>1. /\ port \in ReturnType /\ ledger.admittedToolCalls <= MaxToolCalls
      /\ result = "completed" => at = "returned"
      /\ ~port.failed /\ port.accepted # None /\ port.accepted.executed => ledger.admittedToolCalls > 0
  BY DEF ReceiptInv, Metered, StructuredInv, StructuredTypeOK
<1>2. Kept(port, port)
  BY <1>1, FailedIsKept
<1>3. CASE PromptEnds
  <2>1. at = "between" /\ at' = "ended" /\ port' = port /\ ledger' = ledger /\ result' = result
    BY <1>3 DEF PromptEnds, HostUnchanged
  <2> QED
    BY <1>1, <1>2, <2>1, QuietStep
<1>4. CASE TurnStops
  <2>1. at' = "returned" /\ port' = port /\ ledger' = ledger /\ result' = "failed"
    BY <1>4 DEF TurnStops, Return, HostUnchanged
  <2> QED
    BY <1>1, <1>2, <2>1, QuietStep
<1>5. CASE FreshChild
  <2>1. at \in {"between", "broken"}
    BY <1>5 DEF FreshChild, Driving, CanRetry, ReceiptInv, StructuredInv, Streams, Dispatches, Open
  <2>2. at' = "between" /\ port' = port /\ ledger' = ledger /\ result' = result
    BY <1>5 DEF FreshChild
  <2> QED
    BY <1>1, <1>2, <2>1, <2>2, QuietStep
<1>6. CASE Inspect \/ Close
  <2>1. PICK q : q = Inspected(port, expired')
    OBVIOUS
  <2>2. /\ Kept(port, q)
        /\ ~q.failed => q = port
        /\ Decision(q) = "accepted" => q = port /\ Stands(port)
        /\ Decision(q) # "failed" => ~q.failed
        /\ Decision(q) # "failed" /\ port.accepted # None => Decision(q) = "accepted"
    BY <1>1, <2>1, InspectedIsKept
  <2>3. port' = q /\ ledger' = ledger
    BY <1>6, <2>1 DEF Inspect, Close, HostUnchanged
  <2>4. ~q.failed /\ q.accepted # None /\ q.accepted.executed => ledger'.admittedToolCalls > 0
    BY <1>1, <2>2, <2>3
  <2>5. CASE Inspect
    <3>1. /\ at = "ended" /\ at' \in {"returned", "closing", "between"}
          /\ at' = "closing" => Decision(q) = "accepted"
          /\ result' \in {result, "failed"} /\ result # "completed"
      BY <1>1, <2>3, <2>5 DEF Inspect, Return
    <3> QED
      BY <1>1, <2>2, <2>3, <2>4, <3>1, QuietStep
  <2>6. CASE Close
    <3>1. at = "closing" /\ at' = "returned" /\ (result' = "completed" => Decision(q) # "failed")
      BY <2>3, <2>6 DEF Close, Return
    <3>2. port.accepted # None
      BY <3>1 DEF ReceiptInv, Stands
    <3>3. result' = "completed" => Stands(q)
      BY <2>2, <3>1, <3>2
    <3> QED
      BY <1>1, <2>2, <2>3, <2>4, <3>1, <3>3, QuietStep
  <2> QED
    BY <1>6, <2>5, <2>6
<1> QED
  BY <1>3, <1>4, <1>5, <1>6

LEMMA ReceiptSteps == ReceiptInv /\ [Next]_vars => ReceiptInv'
<1> SUFFICES ASSUME ReceiptInv, [Next]_vars PROVE ReceiptInv'
  OBVIOUS
<1>1. StructuredInv'
  BY CallSteps DEF ReceiptInv
<1>2. CASE Request
  BY <1>1, <1>2, RequestBilled
<1>3. CASE \/ \E r \in Responses : Created(r)
           \/ \E c \in CallIds, n \in Names : Added(c, n)
           \/ \E c \in CallIds, arg \in Arguments, doneTwice \in BOOLEAN : Finalizes(c, arg, doneTwice)
           \/ Refuses
  BY <1>1, <1>3, EventSteps
<1>4. CASE \/ EndsBadly \/ Disconnects
           \/ \E r \in Responses, output \in {"confirms", "differs", "refuses"} : Completes(r, output)
  BY <1>1, <1>4, StreamEnds
<1>5. CASE Dispatch \/ HostRefuses
  BY <1>1, <1>5, ToolsBilled
<1>6. CASE FinishTurn
  BY <1>1, <1>6, FinishTurnBilled
<1>7. CASE PromptEnds \/ Inspect \/ Close \/ TurnStops \/ FreshChild
  BY <1>1, <1>7, HostBilled
<1>8. CASE HooksReplaced \/ UNCHANGED vars
  <2>1. at' = at /\ port' = port /\ ledger' = ledger /\ result' = result
    BY <1>8 DEF HooksReplaced, vars
  <2> QED
    BY <1>1, <2>1 DEF ReceiptInv, Metered
<1> QED
  BY <1>2, <1>3, <1>4, <1>5, <1>6, <1>7, <1>8 DEF Next

-----------------------------------------------------------------------------
(* Whatever the provider, the host and the operator did, a value that the   *)
(* host accepts leaves a receipt that verifies from the raw turns alone     *)
(* (createWorkflowStructuredReceipt(), verifyWorkflowStructuredReceipt()):  *)
(* the submissions counted on line are those that are counted again.        *)
THEOREM ReceiptsAreVerified == Spec => []ReceiptsVerify
<1>1. ASSUME ReceiptInv PROVE ReceiptsVerify
  <2> SUFFICES ASSUME at = "closing" \/ result = "completed" PROVE Verifies(Receipt(port, ledger))
    BY DEF ReceiptsVerify
  <2>1. /\ port \in ReturnType /\ Stands(port)
        /\ ledger \in [toolCalls : Nat, admittedToolCalls : Nat, assistantTurns : Nat]
    BY <1>1 DEF ReceiptInv, StructuredInv, StructuredTypeOK
  <2>2. ~port.failed /\ Settled(port)
    BY <2>1 DEF Stands, Settled
  <2>3. Sound(port) /\ Tally(port, Len(port.turns))
    BY <1>1, <2>2 DEF ReceiptInv
  <2>4. ledger.assistantTurns = Len(port.turns) /\ Len(port.turns) <= MaxTurns
    BY <1>1 DEF ReceiptInv, Metered
  <2>5. ledger.admittedToolCalls \in 1..MaxToolCalls
    BY <1>1, <2>1, ReturnAssumption DEF ReceiptInv, Metered, Stands
  <2> QED
    BY <2>1, <2>3, <2>4, <2>5, StandingVerifies
<1> QED
  BY <1>1, ReceiptStarts, ReceiptSteps, PTL DEF Spec
=============================================================================
