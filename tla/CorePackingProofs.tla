------------------------- MODULE CorePackingProofs -------------------------
(***************************************************************************)
(* What the database guarantees a packing plan whatever the number of      *)
(* connections, lines, plans and requests.  The inductive invariant adds   *)
(* to the properties what a connection remembers between two statements.   *)
(* Conservation needs the sums of quantities besides, whose lemmas come    *)
(* after it, by way of smallest counterexamples.                           *)
(***************************************************************************)
EXTENDS CorePacking, FiniteSetTheorems, WellFoundedInduction, TLAPS

RowsOf(p) == {r \in rows : r.plan = p}

Reverses(r, t) == /\ t.kind \in {"allocation", "unavailable"}
                  /\ t.id = r.reverses /\ t.plan = r.plan
                  /\ t.line = r.line /\ t.quantity = r.quantity

(* A reversal past its first SELECT carries the line and quantity of a     *)
(* committed event, and a connection in the middle of a command has not    *)
(* answered it.                                                            *)
InFlight ==
  \A c \in Conn : pc[c] # "idle" =>
    /\ reply[c] = "none"
    /\ cmd[c].kind = "reversal" /\ pc[c] # "target" => \E t \in rows : Reverses(cmd[c], t)

IInv == /\ TypeOK
        /\ IsFiniteSet(rows)
        /\ InFlight
        /\ VersionCountsRows
        /\ ReversalsAreExact
        /\ AcknowledgedOnce

-----------------------------------------------------------------------------
(* The empty database satisfies the invariant. *)
LEMMA InitInvariant == Init => IInv
<1> SUFFICES ASSUME Init PROVE IInv
  OBVIOUS
<1>1. TypeOK
  BY RequestAssumption DEF Init, TypeOK, Steps
<1>2. IsFiniteSet(rows)
  BY FS_EmptySet DEF Init
<1>3. VersionCountsRows
  <2> SUFFICES ASSUME NEW p \in Plan PROVE version[p] = Cardinality(RowsOf(p))
    BY DEF VersionCountsRows, RowsOf
  <2>1. RowsOf(p) = {}
    BY DEF Init, RowsOf
  <2> QED
    BY <2>1, FS_EmptySet DEF Init
<1>4. InFlight /\ ReversalsAreExact /\ AcknowledgedOnce
  BY DEF Init, InFlight, ReversalsAreExact, AcknowledgedOnce
<1> QED
  BY <1>1, <1>2, <1>3, <1>4 DEF IInv

(* A reversal is a row again.                                             *)
LEMMA ReversalTyped ==
  ASSUME NEW r \in Row, NEW t \in Row
  PROVE  ReversalOf(r, t) \in Row
BY DEF Row, ReversalOf

(* Every step keeps the types. *)
LEMMA TypeStep == TypeOK /\ [Next]_vars => TypeOK'
<1> SUFFICES ASSUME TypeOK, [Next]_vars PROVE TypeOK'
  OBVIOUS
<1> USE DEF TypeOK, Steps
<1>1. ASSUME NEW c \in Conn, Begin(c) PROVE TypeOK'
  BY <1>1, RequestAssumption DEF Begin
<1>2. ASSUME NEW c \in Conn, ReadTarget(c) PROVE TypeOK'
  <2>1. CASE Answer(c, "refused")
    BY <2>1 DEF Answer
  <2>2. CASE \E t \in rows :
               /\ cmd' = [cmd EXCEPT ![c] = ReversalOf(cmd[c], t)]
               /\ pc' = [pc EXCEPT ![c] = "lookup"]
               /\ UNCHANGED <<rows, version, reply>>
    <3> PICK t \in rows :
               /\ cmd' = [cmd EXCEPT ![c] = ReversalOf(cmd[c], t)]
               /\ pc' = [pc EXCEPT ![c] = "lookup"]
               /\ UNCHANGED <<rows, version, reply>>
      BY <2>2
    <3>1. ReversalOf(cmd[c], t) \in Row
      BY ReversalTyped
    <3>2. cmd' \in [Conn -> Row]
      BY <3>1
    <3> QED
      BY <3>2
  <2> QED
    BY <1>2, <2>1, <2>2 DEF ReadTarget
<1>3. ASSUME NEW c \in Conn, Lookup(c) PROVE TypeOK'
  BY <1>3 DEF Lookup, Goto, Answer
<1>4. ASSUME NEW c \in Conn, ReadPlan(c) PROVE TypeOK'
  BY <1>4 DEF ReadPlan, Goto, Answer
<1>5. ASSUME NEW c \in Conn, ReadBox(c) \/ ReadDuplicate(c) \/ ReadRemaining(c) PROVE TypeOK'
  BY <1>5 DEF ReadBox, ReadDuplicate, ReadRemaining, Goto, Answer
<1>6. ASSUME NEW c \in Conn, Write(c) PROVE TypeOK'
  <2>1. cmd[c].plan \in Plan
    BY DEF Row
  <2>2. version[cmd[c].plan] + 1 \in Nat
    BY <2>1
  <2> QED
    BY <1>6, <2>1, <2>2 DEF Write, Answer
<1>7. CASE UNCHANGED vars
  BY <1>7 DEF vars
<1> QED
  BY <1>1, <1>2, <1>3, <1>4, <1>5, <1>6, <1>7 DEF Next

(* Only the committing step changes the tables: it adds one insertable row *)
(* and moves that row's plan by one.                                       *)
LEMMA RowsStep ==
  ASSUME TypeOK, Next
  PROVE  \/ UNCHANGED <<rows, version>>
         \/ \E c \in Conn : /\ Write(c) /\ Insertable(cmd[c])
                            /\ rows' = rows \cup {cmd[c]}
                            /\ version' = [version EXCEPT ![cmd[c].plan] = @ + 1]
<1> PICK c \in Conn : \/ Begin(c) \/ ReadTarget(c) \/ Lookup(c) \/ ReadPlan(c)
                      \/ ReadBox(c) \/ ReadDuplicate(c) \/ ReadRemaining(c) \/ Write(c)
  BY DEF Next
<1>1. CASE Begin(c)
  BY <1>1 DEF Begin
<1>2. CASE ReadTarget(c)
  BY <1>2 DEF ReadTarget, Answer
<1>3. CASE Lookup(c) \/ ReadPlan(c)
  BY <1>3 DEF Lookup, ReadPlan, Goto, Answer
<1>4. CASE ReadBox(c) \/ ReadDuplicate(c) \/ ReadRemaining(c)
  BY <1>4 DEF ReadBox, ReadDuplicate, ReadRemaining, Goto, Answer
<1>5. CASE Write(c)
  BY <1>5 DEF Write, Answer
<1> QED
  BY <1>1, <1>2, <1>3, <1>4, <1>5

(* The new row was in no plan before, so it counts once, in its own plan.  *)
LEMMA VersionStep ==
  ASSUME TypeOK, IsFiniteSet(rows), VersionCountsRows, [Next]_vars
  PROVE  VersionCountsRows' /\ IsFiniteSet(rows')
<1>1. CASE UNCHANGED <<rows, version>>
  BY <1>1 DEF VersionCountsRows
<1>2. ASSUME NEW c \in Conn, Insertable(cmd[c]), rows' = rows \cup {cmd[c]},
             version' = [version EXCEPT ![cmd[c].plan] = @ + 1]
      PROVE  VersionCountsRows' /\ IsFiniteSet(rows')
  <2>1. cmd[c] \in Row /\ cmd[c].plan \in Plan
    BY DEF TypeOK, Row
  <2>2. cmd[c] \notin rows
    BY <1>2 DEF Insertable, SameTable
  <2>3. ASSUME NEW p \in Plan PROVE version'[p] = Cardinality({r \in rows' : r.plan = p})
    <3>1. IsFiniteSet(RowsOf(p)) /\ version[p] = Cardinality(RowsOf(p)) /\ version[p] \in Nat
      BY FS_Subset DEF RowsOf, VersionCountsRows, TypeOK
    <3>2. CASE p = cmd[c].plan
      <4>1. {r \in rows' : r.plan = p} = RowsOf(p) \cup {cmd[c]}
        BY <1>2, <3>2 DEF RowsOf
      <4>2. cmd[c] \notin RowsOf(p)
        BY <2>2 DEF RowsOf
      <4>3. Cardinality(RowsOf(p) \cup {cmd[c]}) = Cardinality(RowsOf(p)) + 1
        BY <3>1, <4>2, FS_AddElement
      <4>4. version'[p] = version[p] + 1
        BY <1>2, <2>1, <3>2 DEF TypeOK
      <4> QED
        BY <3>1, <4>1, <4>3, <4>4
    <3>3. CASE p # cmd[c].plan
      <4>1. {r \in rows' : r.plan = p} = RowsOf(p)
        BY <1>2, <3>3 DEF RowsOf
      <4>2. version'[p] = version[p]
        BY <1>2, <2>1, <3>3 DEF TypeOK
      <4> QED
        BY <3>1, <4>1, <4>2
    <3> QED
      BY <3>2, <3>3
  <2>4. IsFiniteSet(rows')
    BY <1>2, FS_AddElement
  <2> QED
    BY <2>3, <2>4 DEF VersionCountsRows
<1> QED
  BY <1>1, <1>2, RowsStep DEF vars

(* A connection's memory is its own; what another one commits only adds    *)
(* rows to those a reversal has read.                                      *)
LEMMA InFlightStep ==
  ASSUME TypeOK, InFlight, [Next]_vars
  PROVE  InFlight'
<1>1. rows \subseteq rows'
  BY RowsStep DEF vars
<1>2. CASE UNCHANGED vars
  BY <1>2 DEF vars, InFlight, Reverses
<1>3. ASSUME NEW c \in Conn,
             \/ Begin(c) \/ ReadTarget(c) \/ Lookup(c) \/ ReadPlan(c)
             \/ ReadBox(c) \/ ReadDuplicate(c) \/ ReadRemaining(c) \/ Write(c),
             NEW d \in Conn, pc'[d] # "idle"
      PROVE  /\ reply'[d] = "none"
             /\ cmd'[d].kind = "reversal" /\ pc'[d] # "target"
                  => \E t \in rows' : Reverses(cmd'[d], t)
  <2>1. CASE d # c
    <3>1. pc'[d] = pc[d] /\ cmd'[d] = cmd[d] /\ reply'[d] = reply[d]
      <4>1. CASE Begin(c)
        BY <2>1, <4>1 DEF Begin, TypeOK
      <4>2. CASE ReadTarget(c)
        BY <2>1, <4>2 DEF ReadTarget, Answer, TypeOK
      <4>3. CASE Lookup(c) \/ ReadPlan(c)
        BY <2>1, <4>3 DEF Lookup, ReadPlan, Goto, Answer, TypeOK
      <4>4. CASE ReadBox(c) \/ ReadDuplicate(c) \/ ReadRemaining(c)
        BY <2>1, <4>4 DEF ReadBox, ReadDuplicate, ReadRemaining, Goto, Answer, TypeOK
      <4>5. CASE Write(c)
        BY <2>1, <4>5 DEF Write, Answer, TypeOK
      <4> QED
        BY <1>3, <4>1, <4>2, <4>3, <4>4, <4>5
    <3> QED
      BY <1>1, <1>3, <3>1 DEF InFlight
  <2>2. CASE d = c
    <3>1. CASE Begin(c)
      BY <2>2, <3>1 DEF Begin, TypeOK
    <3>2. CASE ReadTarget(c)
      <4>1. ~Answer(c, "refused")
        BY <1>3, <2>2 DEF Answer, TypeOK
      <4>2. PICK t \in rows :
              /\ t.kind \in {"allocation", "unavailable"}
              /\ t.id = cmd[c].reverses /\ t.plan = cmd[c].plan
              /\ cmd' = [cmd EXCEPT ![c] = ReversalOf(cmd[c], t)]
              /\ UNCHANGED <<rows, version, reply>>
        BY <3>2, <4>1 DEF ReadTarget
      <4>3. cmd[c] \in Row
        BY DEF TypeOK
      <4>4. cmd'[c] = [[cmd[c] EXCEPT !.line = t.line] EXCEPT !.quantity = t.quantity]
        BY <4>2 DEF TypeOK, ReversalOf
      <4>5. Reverses(cmd'[c], t)
        <5>1. cmd'[c].line = t.line /\ cmd'[c].quantity = t.quantity
          BY <4>3, <4>4 DEF Row
        <5>2. cmd'[c].reverses = cmd[c].reverses /\ cmd'[c].plan = cmd[c].plan
          BY <4>3, <4>4 DEF Row
        <5> QED
          BY <4>2, <5>1, <5>2 DEF Reverses
      <4>6. reply[c] = "none"
        BY <3>2 DEF ReadTarget, InFlight
      <4> QED
        BY <2>2, <4>2, <4>5, <4>6
    <3>3. CASE Lookup(c) \/ ReadPlan(c)
      <4>1. cmd'[c] = cmd[c] /\ pc[c] # "idle" /\ pc[c] # "target"
        BY <3>3 DEF Lookup, ReadPlan, Goto, Answer
      <4>2. reply'[c] = reply[c]
        BY <1>3, <2>2, <3>3 DEF Lookup, ReadPlan, Goto, Answer, TypeOK
      <4> QED
        BY <1>1, <2>2, <4>1, <4>2 DEF InFlight
    <3>4. CASE ReadBox(c) \/ ReadDuplicate(c) \/ ReadRemaining(c)
      <4>1. cmd'[c] = cmd[c] /\ pc[c] # "idle" /\ pc[c] # "target"
        BY <3>4 DEF ReadBox, ReadDuplicate, ReadRemaining, Goto, Answer
      <4>2. reply'[c] = reply[c]
        BY <1>3, <2>2, <3>4 DEF ReadBox, ReadDuplicate, ReadRemaining, Goto, Answer, TypeOK
      <4> QED
        BY <1>1, <2>2, <4>1, <4>2 DEF InFlight
    <3>5. CASE Write(c)
      BY <1>3, <2>2, <3>5 DEF Write, Answer, TypeOK
    <3> QED
      BY <1>3, <3>1, <3>2, <3>3, <3>4, <3>5
  <2> QED
    BY <2>1, <2>2
<1> QED
  BY <1>2, <1>3 DEF Next, InFlight

(* A reversal is committed with the line and quantity its connection read, *)
(* and UNIQUE(reverses_event_id) refuses a second one.                     *)
LEMMA ReversalStep ==
  ASSUME TypeOK, InFlight, ReversalsAreExact, [Next]_vars
  PROVE  ReversalsAreExact'
<1>1. CASE UNCHANGED <<rows, version>>
  BY <1>1 DEF ReversalsAreExact
<1>2. ASSUME NEW c \in Conn, Write(c), Insertable(cmd[c]), rows' = rows \cup {cmd[c]}
      PROVE  ReversalsAreExact'
  <2>1. ASSUME NEW r \in rows, r.kind = "reversal"
        PROVE  \E t \in rows' : Reverses(r, t)
    BY <1>2, <2>1 DEF ReversalsAreExact, Reverses
  <2>2. cmd[c].kind = "reversal" => \E t \in rows' : Reverses(cmd[c], t)
    BY <1>2 DEF Write, InFlight
  <2>3. ASSUME NEW r \in rows', NEW s \in rows', r.kind = "reversal", s.kind = "reversal",
               s.reverses = r.reverses
        PROVE  s = r
    <3>1. ASSUME NEW q \in rows, q.kind = "reversal", cmd[c].kind = "reversal"
          PROVE  q.reverses # cmd[c].reverses
      BY <1>2, <3>1 DEF Insertable, IsBox
    <3> QED
      BY <1>2, <2>3, <3>1 DEF ReversalsAreExact
  <2> QED
    BY <1>2, <2>1, <2>2, <2>3 DEF ReversalsAreExact, Reverses
<1> QED
  BY <1>1, <1>2, RowsStep DEF vars

(* "ok" is answered by the step that commits the row or by the lookup that *)
(* finds it, and rows are never removed.                                   *)
LEMMA AcknowledgedStep ==
  ASSUME TypeOK, InFlight, AcknowledgedOnce, [Next]_vars
  PROVE  AcknowledgedOnce'
<1>1. rows \subseteq rows'
  BY RowsStep DEF vars
<1>2. ASSUME NEW r \in rows', NEW s \in rows', SameTable(r, s), r.key = s.key
      PROVE  r = s
  <2>1. CASE UNCHANGED <<rows, version>>
    BY <1>2, <2>1 DEF AcknowledgedOnce
  <2>2. ASSUME NEW c \in Conn, Insertable(cmd[c]), rows' = rows \cup {cmd[c]}
        PROVE  r = s
    BY <1>2, <2>2 DEF AcknowledgedOnce, Insertable, SameTable
  <2> QED
    BY <2>1, <2>2, RowsStep DEF vars
<1>3. ASSUME NEW d \in Conn, reply'[d] = "ok" PROVE cmd'[d] \in rows'
  <2>1. CASE UNCHANGED vars
    BY <1>3, <2>1 DEF vars, AcknowledgedOnce
  <2>2. ASSUME NEW c \in Conn, Begin(c) PROVE cmd'[d] \in rows'
    BY <1>1, <1>3, <2>2 DEF Begin, TypeOK, AcknowledgedOnce
  <2>3. ASSUME NEW c \in Conn, ReadTarget(c) PROVE cmd'[d] \in rows'
    <3>1. CASE d = c
      <4>1. reply[c] = "none"
        BY <2>3 DEF ReadTarget, InFlight
      <4> QED
        BY <1>3, <2>3, <3>1, <4>1 DEF ReadTarget, Answer, TypeOK
    <3>2. CASE d # c
      BY <1>1, <1>3, <2>3, <3>2 DEF ReadTarget, Answer, TypeOK, AcknowledgedOnce
    <3> QED
      BY <3>1, <3>2
  <2>4. ASSUME NEW c \in Conn, Lookup(c) PROVE cmd'[d] \in rows'
    BY <1>1, <1>3, <2>4 DEF Lookup, Goto, Answer, TypeOK, AcknowledgedOnce
  <2>5. ASSUME NEW c \in Conn, ReadPlan(c) \/ ReadBox(c) \/ ReadDuplicate(c) \/ ReadRemaining(c)
        PROVE  cmd'[d] \in rows'
    BY <1>1, <1>3, <2>5
       DEF ReadPlan, ReadBox, ReadDuplicate, ReadRemaining, Goto, Answer, TypeOK, AcknowledgedOnce
  <2>6. ASSUME NEW c \in Conn, Write(c) PROVE cmd'[d] \in rows'
    BY <1>1, <1>3, <2>6 DEF Write, Answer, TypeOK, AcknowledgedOnce
  <2> QED
    BY <2>1, <2>2, <2>3, <2>4, <2>5, <2>6 DEF Next
<1> QED
  BY <1>2, <1>3 DEF AcknowledgedOnce

-----------------------------------------------------------------------------
(* The conjunction is inductive and holds throughout every behaviour. *)
THEOREM PackingInvariant == Spec => []IInv
<1>1. IInv /\ [Next]_vars => IInv'
  BY TypeStep, VersionStep, InFlightStep, ReversalStep, AcknowledgedStep DEF IInv
<1> QED
  BY <1>1, InitInvariant, PTL DEF Spec

(* The store keeps its columns typed, for every number of connections. *)
THEOREM TypeCorrect == Spec => []TypeOK
<1>1. IInv => TypeOK
  BY DEF IInv
<1> QED
  BY <1>1, PackingInvariant, PTL

(* create_box and _event bump a plan's version exactly once per row they   *)
(* commit, whoever else writes meanwhile.                                  *)
THEOREM VersionCounted == Spec => []VersionCountsRows
<1>1. IInv => VersionCountsRows
  BY DEF IInv
<1> QED
  BY <1>1, PackingInvariant, PTL

(* reverse_event undoes an event at most once and by exactly its quantity. *)
THEOREM ReversedExactly == Spec => []ReversalsAreExact
<1>1. IInv => ReversalsAreExact
  BY DEF IInv
<1> QED
  BY <1>1, PackingInvariant, PTL

(* A command acknowledged to any number of callers is committed once. *)
THEOREM AcknowledgementsHold == Spec => []AcknowledgedOnce
<1>1. IInv => AcknowledgedOnce
  BY DEF IInv
<1> QED
  BY <1>1, PackingInvariant, PTL
-----------------------------------------------------------------------------
(* Sums of quantities.  MapThenSumSet recurs over the subsets of a set, so  *)
(* what it computes is shown by induction over them, in the form of a       *)
(* smallest set of which the claim would be false.                          *)

Total(S) == MapThenSumSet(Quantity, S)

Pick(s) == CHOOSE x \in s : TRUE
SumFrom(g, s) == IF s = {} THEN 0 ELSE Quantity(Pick(s)) + g[s \ {Pick(s)}]
Summing(g, S) == g = [s \in SUBSET S |-> SumFrom(g, s)]
Sums(S) == CHOOSE g : Summing(g, S)

(* Among some subsets of a finite set there is one with none below it. *)
LEMMA SmallestSubset ==
  ASSUME NEW S, IsFiniteSet(S), NEW X \in SUBSET SUBSET S, X # {}
  PROVE  \E T \in X : \A U \in X : U \subseteq T => U = T
<1>1. IsWellFoundedOn(StrictSubsetOrdering(S), SUBSET S)
  BY FS_FiniteSubsetsOfFinite, FS_StrictSubsetOrderingWellFounded
<1>2. \E T \in X : \A U \in X : ~ (<<U, T>> \in StrictSubsetOrdering(S))
  BY <1>1, WFMin
<1> QED
  BY <1>2 DEF StrictSubsetOrdering

(* The recursion MapThenSumSet stands for. *)
LEMMA TotalUnfolds == \A S : Total(S) = Sums(S)[S]
BY DEF Total, MapThenSumSet, MapThenFoldSet, Sums, Summing, SumFrom, Pick

LEMMA PickIn == \A s : s # {} => Pick(s) \in s
BY DEF Pick

(* Two solutions of the recursion agree wherever both are defined. *)
LEMMA SummingUnique ==
  ASSUME NEW S, NEW T, IsFiniteSet(T), T \subseteq S,
         NEW g, Summing(g, S), NEW h, Summing(h, T)
  PROVE  \A s \in SUBSET T : g[s] = h[s]
<1> DEFINE X == {s \in SUBSET T : g[s] # h[s]}
<1>1. SUFFICES ASSUME X # {} PROVE FALSE
  OBVIOUS
<1>2. PICK s \in X : \A u \in X : u \subseteq s => u = s
  <2> HIDE DEF X
  <2>1. X \in SUBSET SUBSET T
    BY DEF X
  <2> QED
    BY <1>1, <2>1, SmallestSubset
<1>3. g[s] = SumFrom(g, s) /\ h[s] = SumFrom(h, s)
  BY DEF Summing
<1>4. s # {}
  BY <1>3 DEF SumFrom
<1>5. g[s \ {Pick(s)}] = h[s \ {Pick(s)}]
  BY <1>2, <1>4, PickIn
<1> QED
  BY <1>3, <1>4, <1>5 DEF SumFrom

(* On a finite set the recursion has a solution. *)
LEMMA SummingExists ==
  ASSUME NEW S, IsFiniteSet(S)
  PROVE  Summing(Sums(S), S)
<1> DEFINE X == {s \in SUBSET S : ~ \E g : Summing(g, s)}
<1>1. SUFFICES ASSUME X # {} PROVE FALSE
  BY DEF Sums
<1>2. PICK s \in X : \A u \in X : u \subseteq s => u = s
  <2> HIDE DEF X
  <2>1. X \in SUBSET SUBSET S
    BY DEF X
  <2> QED
    BY <1>1, <2>1, SmallestSubset
<1>3. ASSUME NEW u \in SUBSET s, u # s
      PROVE  Summing(Sums(u), u) /\ IsFiniteSet(u)
  <2>1. u \in SUBSET S /\ u \notin X
    BY <1>2, <1>3
  <2> QED
    BY <2>1, FS_Subset DEF Sums
<1> DEFINE rest(t) == t \ {Pick(t)}
           g == [t \in SUBSET s |-> IF t = {} THEN 0 ELSE Quantity(Pick(t)) + Sums(rest(t))[rest(t)]]
<1>4. ASSUME NEW t \in SUBSET s, t # s PROVE g[t] = Sums(t)[t]
  <2>1. Sums(t)[t] = SumFrom(Sums(t), t)
    BY <1>3, <1>4 DEF Summing
  <2>2. CASE t = {}
    BY <2>1, <2>2 DEF SumFrom
  <2>3. CASE t # {}
    <3>1. rest(t) \in SUBSET t /\ rest(t) # s /\ rest(t) \in SUBSET s
      BY <1>4, <2>3, PickIn
    <3>2. Summing(Sums(rest(t)), rest(t)) /\ IsFiniteSet(rest(t)) /\ Summing(Sums(t), t)
      BY <1>3, <1>4, <3>1
    <3> HIDE DEF rest
    <3>3. Sums(t)[rest(t)] = Sums(rest(t))[rest(t)]
      BY <3>1, <3>2, SummingUnique
    <3> QED
      BY <2>1, <2>3, <3>3 DEF SumFrom, rest
  <2> QED
    BY <2>2, <2>3
<1>5. ASSUME NEW t \in SUBSET s PROVE g[t] = SumFrom(g, t)
  <2>1. CASE t = {}
    BY <2>1 DEF SumFrom
  <2>2. CASE t # {}
    <3>1. rest(t) \in SUBSET s /\ rest(t) # s
      BY <2>2, PickIn
    <3>2. g[rest(t)] = Sums(rest(t))[rest(t)]
      BY <1>4, <3>1
    <3> QED
      BY <2>2, <3>2 DEF SumFrom
  <2> QED
    BY <2>1, <2>2
<1>6. Summing(g, s)
  BY <1>5 DEF Summing
<1> QED
  BY <1>6

(* One step of the recursion. *)
LEMMA TotalStep ==
  ASSUME NEW S, IsFiniteSet(S)
  PROVE  Total(S) = IF S = {} THEN 0 ELSE Quantity(Pick(S)) + Total(S \ {Pick(S)})
<1>1. Sums(S)[S] = SumFrom(Sums(S), S)
  BY SummingExists DEF Summing
<1>2. CASE S = {}
  BY <1>1, <1>2, TotalUnfolds DEF SumFrom
<1>3. CASE S # {}
  <2> DEFINE T == S \ {Pick(S)}
  <2>1. IsFiniteSet(T)
    BY FS_Subset
  <2>2. Sums(S)[T] = Sums(T)[T]
    BY <2>1, SummingExists, SummingUnique
  <2> QED
    BY <1>1, <1>3, <2>2, TotalUnfolds DEF SumFrom
<1> QED
  BY <1>2, <1>3

(* A sum of rows is a natural number. *)
LEMMA TotalNat ==
  ASSUME NEW S \in SUBSET Row, IsFiniteSet(S)
  PROVE  Total(S) \in Nat
<1> DEFINE X == {s \in SUBSET S : Total(s) \notin Nat}
<1>1. SUFFICES ASSUME X # {} PROVE FALSE
  OBVIOUS
<1>2. PICK s \in X : \A u \in X : u \subseteq s => u = s
  <2> HIDE DEF X
  <2>1. X \in SUBSET SUBSET S
    BY DEF X
  <2> QED
    BY <1>1, <2>1, SmallestSubset
<1>3. IsFiniteSet(s)
  BY FS_Subset
<1>4. s # {}
  BY <1>3, TotalStep
<1>5. Total(s \ {Pick(s)}) \in Nat /\ Quantity(Pick(s)) \in Nat
  BY <1>2, <1>4, PickIn DEF Quantity, Row
<1> QED
  BY <1>3, <1>4, <1>5, TotalStep

(* Which row the recursion picks does not matter. *)
LEMMA TotalRemove ==
  ASSUME NEW S \in SUBSET Row, IsFiniteSet(S), NEW r \in S
  PROVE  Total(S) = r.quantity + Total(S \ {r})
<1> DEFINE X == {s \in SUBSET S : \E q \in s : Total(s) # q.quantity + Total(s \ {q})}
<1>1. SUFFICES ASSUME X # {} PROVE FALSE
  OBVIOUS
<1>2. PICK s \in X : \A u \in X : u \subseteq s => u = s
  <2> HIDE DEF X
  <2>1. X \in SUBSET SUBSET S
    BY DEF X
  <2> QED
    BY <1>1, <2>1, SmallestSubset
<1>3. PICK q \in s : Total(s) # q.quantity + Total(s \ {q})
  OBVIOUS
<1> DEFINE x == Pick(s)
<1>4. x \in s /\ Total(s) = x.quantity + Total(s \ {x})
  <2>1. IsFiniteSet(s)
    BY FS_Subset
  <2> QED
    BY <1>3, <2>1, PickIn, TotalStep DEF Quantity
<1>5. q # x
  BY <1>3, <1>4
<1>6. s \ {x} \notin X /\ s \ {q} \notin X
  BY <1>2, <1>3, <1>4
<1>7. Total(s \ {x}) = q.quantity + Total((s \ {x}) \ {q})
  BY <1>3, <1>5, <1>6
<1>8. Total(s \ {q}) = x.quantity + Total((s \ {q}) \ {x})
  BY <1>4, <1>5, <1>6
<1>9. (s \ {x}) \ {q} = (s \ {q}) \ {x}
  OBVIOUS
<1>10. q.quantity \in Nat /\ x.quantity \in Nat /\ Total((s \ {q}) \ {x}) \in Nat
  <2>1. IsFiniteSet((s \ {q}) \ {x}) /\ (s \ {q}) \ {x} \in SUBSET Row
    BY FS_Subset
  <2> QED
    BY <1>3, <1>4, <2>1, TotalNat DEF Row
<1> HIDE DEF X, x
<1>11. Total(s \ {x}) = q.quantity + Total((s \ {q}) \ {x})
  BY <1>7, <1>9
<1> QED
  BY <1>3, <1>4, <1>8, <1>10, <1>11

(* One more row adds at most its quantity. *)
LEMMA TotalAdd ==
  ASSUME NEW S \in SUBSET Row, IsFiniteSet(S), NEW r \in Row
  PROVE  Total(S \cup {r}) <= Total(S) + r.quantity
<1>1. r.quantity \in Nat /\ Total(S) \in Nat
  BY TotalNat DEF Row
<1>2. CASE r \in S
  <2>1. Total(S \cup {r}) = Total(S)
    <3>1. S \cup {r} = S
      BY <1>2
    <3> QED
      BY <3>1, Zenon
  <2> QED
    BY <1>1, <2>1
<1>3. CASE r \notin S
  <2>1. IsFiniteSet(S \cup {r}) /\ (S \cup {r}) \ {r} = S
    BY <1>3, FS_AddElement
  <2>2. Total(S \cup {r}) = r.quantity + Total((S \cup {r}) \ {r})
    BY <2>1, TotalRemove
  <2>3. Total((S \cup {r}) \ {r}) = Total(S)
    BY <2>1, Zenon
  <2> QED
    BY <1>1, <2>2, <2>3
<1> QED
  BY <1>2, <1>3

(* Fewer rows sum to no more. *)
LEMMA TotalMonotone ==
  ASSUME NEW S \in SUBSET Row, IsFiniteSet(S), NEW T \in SUBSET S
  PROVE  Total(T) <= Total(S)
<1> DEFINE X == {s \in SUBSET S : T \subseteq s /\ ~(Total(T) <= Total(s))}
<1>1. SUFFICES ASSUME X # {} PROVE FALSE
  OBVIOUS
<1>2. PICK s \in X : \A u \in X : u \subseteq s => u = s
  <2> HIDE DEF X
  <2>1. X \in SUBSET SUBSET S
    BY DEF X
  <2> QED
    BY <1>1, <2>1, SmallestSubset
<1>3. IsFiniteSet(s) /\ IsFiniteSet(T)
  BY FS_Subset
<1>4. s # T
  BY <1>3, TotalNat
<1>5. PICK r \in s : r \notin T
  BY <1>4
<1>6. Total(T) <= Total(s \ {r})
  BY <1>2, <1>5
<1>7. Total(s) = r.quantity + Total(s \ {r})
  BY <1>3, TotalRemove
<1>8. Total(T) \in Nat /\ Total(s \ {r}) \in Nat /\ r.quantity \in Nat
  <2>1. IsFiniteSet(s \ {r}) /\ s \ {r} \in SUBSET Row
    BY <1>3, FS_Subset
  <2> QED
    BY <1>3, <2>1, TotalNat DEF Row
<1> QED
  BY <1>6, <1>7, <1>8

-----------------------------------------------------------------------------
(* What the SELECTs of a command have established, as long as its plan is   *)
(* still at the version the command expects, so that nothing was written.   *)
Checking(c) == LET r == cmd[c] IN
  /\ pc[c] \in {"box", "duplicate"} => r.kind = "allocation"
  /\ pc[c] = "remaining" => r.kind \in {"allocation", "unavailable"}
  /\ pc[c] \in {"box", "duplicate", "remaining", "write"} => r.expected_version <= version[r.plan]
  /\ r.expected_version = version[r.plan] =>
       /\ pc[c] \in {"remaining", "write"} /\ r.kind = "allocation" =>
            \A s \in Active(rows, r.plan, r.line) : s.box # r.box
       /\ pc[c] = "write" /\ r.kind \in {"allocation", "unavailable"} =>
            r.line \in LinesOf[r.plan] /\ r.quantity <= Remaining(r.plan, r.line)

Checked == \A c \in Conn : Checking(c)

(* A row was written at a version its plan has passed. *)
Passed == \A r \in rows : r.expected_version < version[r.plan]

SInv == IInv /\ Checked /\ Passed /\ SerialPlansConserve

(* One more row reverses some of the active ones, or is active itself.      *)
LEMMA ActiveStep ==
  ASSUME NEW S, NEW r, NEW p, NEW l
  PROVE  /\ Active(S \cup {r}, p, l) \subseteq Active(S, p, l) \cup {r}
         /\ r.plan # p \/ r.line # l \/ r.kind \notin {"allocation", "unavailable"} =>
              Active(S \cup {r}, p, l) \subseteq Active(S, p, l)
BY DEF Active

(* What is left of a line is a number. *)
LEMMA RemainingInt ==
  ASSUME TypeOK, IsFiniteSet(rows), NEW p \in Plan, NEW l \in Line
  PROVE  /\ IsFiniteSet(Active(rows, p, l)) /\ Active(rows, p, l) \in SUBSET Row
         /\ Total(Active(rows, p, l)) \in Nat /\ Original[l] \in Nat
         /\ Remaining(p, l) = Original[l] - Total(Active(rows, p, l))
<1>1. Active(rows, p, l) \in SUBSET rows /\ rows \in SUBSET Row
  BY DEF Active, TypeOK
<1>2. IsFiniteSet(Active(rows, p, l))
  BY <1>1, FS_Subset
<1> QED
  BY <1>1, <1>2, TotalNat, QuantityAssumption DEF Remaining, Total

(* A new row takes its quantity from its own line and nothing from others. *)
LEMMA RemainingStep ==
  ASSUME TypeOK, IsFiniteSet(rows), NEW r \in Row, rows' = rows \cup {r},
         NEW p \in Plan, NEW l \in Line
  PROVE  /\ Remaining(p, l)' >= Remaining(p, l) - r.quantity
         /\ r.plan # p \/ r.line # l \/ r.kind \notin {"allocation", "unavailable"} =>
              Remaining(p, l)' >= Remaining(p, l)
         /\ Remaining(p, l) \in Int /\ Remaining(p, l)' \in Int
<1> DEFINE A == Active(rows, p, l)
           B == Active(rows \cup {r}, p, l)
<1>1. IsFiniteSet(A) /\ A \in SUBSET Row /\ Total(A) \in Nat /\ Original[l] \in Nat
      /\ Remaining(p, l) = Original[l] - Total(A)
  BY RemainingInt
<1>2. Remaining(p, l)' = Original[l] - Total(B)
  BY DEF Remaining, Total
<1>3. B \subseteq A \cup {r} /\ (r.plan # p \/ r.line # l \/ r.kind \notin {"allocation", "unavailable"} => B \subseteq A)
  BY ActiveStep
<1> HIDE DEF A, B
<1>4. IsFiniteSet(A \cup {r}) /\ A \cup {r} \in SUBSET Row
  BY <1>1, FS_AddElement
<1>5. Total(A \cup {r}) <= Total(A) + r.quantity /\ r.quantity \in Nat
  BY <1>1, TotalAdd DEF Row
<1>6. IsFiniteSet(B) /\ B \in SUBSET Row
  BY <1>3, <1>4, FS_Subset
<1>7. Total(B) \in Nat /\ Total(A \cup {r}) \in Nat
  BY <1>4, <1>6, TotalNat
<1>8. Total(B) <= Total(A \cup {r})
  BY <1>3, <1>4, TotalMonotone
<1>9. B \subseteq A => Total(B) <= Total(A)
  BY <1>1, TotalMonotone
<1> QED
  BY <1>1, <1>2, <1>3, <1>5, <1>7, <1>8, <1>9

(* The step of a connection leaves what the others remember. *)
LEMMA OthersKeep ==
  ASSUME TypeOK, NEW c \in Conn,
         \/ Begin(c) \/ ReadTarget(c) \/ Lookup(c) \/ ReadPlan(c)
         \/ ReadBox(c) \/ ReadDuplicate(c) \/ ReadRemaining(c) \/ Write(c),
         NEW d \in Conn, d # c
  PROVE  pc'[d] = pc[d] /\ cmd'[d] = cmd[d] /\ reply'[d] = reply[d]
<1>1. CASE Begin(c)
  BY <1>1 DEF Begin, TypeOK
<1>2. CASE ReadTarget(c)
  BY <1>2 DEF ReadTarget, Answer, TypeOK
<1>3. CASE Lookup(c) \/ ReadPlan(c)
  BY <1>3 DEF Lookup, ReadPlan, Goto, Answer, TypeOK
<1>4. CASE ReadBox(c) \/ ReadDuplicate(c) \/ ReadRemaining(c)
  BY <1>4 DEF ReadBox, ReadDuplicate, ReadRemaining, Goto, Answer, TypeOK
<1>5. CASE Write(c)
  BY <1>5 DEF Write, Answer, TypeOK
<1> QED
  BY <1>1, <1>2, <1>3, <1>4, <1>5

(* What another connection checked stays true, or its version has passed. *)
LEMMA CheckingKept ==
  ASSUME TypeOK, IsFiniteSet(rows), NEW d \in Conn, Checking(d),
         pc'[d] = pc[d], cmd'[d] = cmd[d],
         NEW r \in Row, rows' = rows \cup {r},
         version' = [version EXCEPT ![r.plan] = @ + 1]
  PROVE  Checking(d)'
<1> PICK q \in Row : q = cmd[d]
  BY DEF TypeOK
<1>1. q \in Row /\ q.plan \in Plan /\ r.plan \in Plan /\ q.expected_version \in Nat
  BY DEF TypeOK, Row
<1>2. version[q.plan] \in Nat /\ version'[q.plan] = IF q.plan = r.plan THEN version[q.plan] + 1 ELSE version[q.plan]
  BY <1>1 DEF TypeOK
<1>3. pc[d] \in {"box", "duplicate", "remaining", "write"} => q.expected_version <= version'[q.plan]
  BY <1>1, <1>2 DEF Checking
<1>4. ASSUME q.expected_version = version'[q.plan], pc[d] \in {"remaining", "write"}
      PROVE  /\ q.kind = "allocation" => \A s \in Active(rows', q.plan, q.line) : s.box # q.box
             /\ pc[d] = "write" /\ q.kind \in {"allocation", "unavailable"} =>
                  q.line \in LinesOf[q.plan] /\ q.quantity <= Remaining(q.plan, q.line)'
  <2>1. q.plan # r.plan /\ q.expected_version = version[q.plan]
    BY <1>1, <1>2, <1>4 DEF Checking
  <2>2. Active(rows', q.plan, q.line) \subseteq Active(rows, q.plan, q.line)
    BY <2>1, ActiveStep
  <2>3. q.kind = "allocation" => \A s \in Active(rows', q.plan, q.line) : s.box # q.box
    BY <1>4, <2>1, <2>2 DEF Checking
  <2>4. ASSUME pc[d] = "write", q.kind \in {"allocation", "unavailable"}
        PROVE  q.line \in LinesOf[q.plan] /\ q.quantity <= Remaining(q.plan, q.line)'
    <3>1. q.line \in LinesOf[q.plan] /\ q.quantity <= Remaining(q.plan, q.line)
      BY <2>1, <2>4 DEF Checking
    <3>2. q.line \in Line /\ q.quantity \in Nat
      BY <1>1, <3>1, PlansAssumption DEF Row
    <3>3. /\ Remaining(q.plan, q.line)' >= Remaining(q.plan, q.line)
          /\ Remaining(q.plan, q.line) \in Int /\ Remaining(q.plan, q.line)' \in Int
      BY <1>1, <2>1, <3>2, RemainingStep
    <3> QED
      BY <3>1, <3>2, <3>3
  <2> QED
    BY <2>3, <2>4
<1>5. cmd'[d] = q /\ pc'[d] = pc[d]
  OBVIOUS
<1> QED
  BY <1>3, <1>4, <1>5 DEF Checking
(* What a connection establishes itself, one SELECT after another. *)
LEMMA CheckingOwn ==
  ASSUME TypeOK, IsFiniteSet(rows), NEW c \in Conn, Checking(c),
         \/ Begin(c) \/ ReadTarget(c) \/ Lookup(c) \/ ReadPlan(c)
         \/ ReadBox(c) \/ ReadDuplicate(c) \/ ReadRemaining(c) \/ Write(c)
  PROVE  Checking(c)'
<1> DEFINE Guarded == {"box", "duplicate", "remaining", "write"}
<1>1. ASSUME pc'[c] \notin Guarded PROVE Checking(c)'
  BY <1>1 DEF Checking
<1>2. CASE Begin(c) \/ ReadTarget(c) \/ Lookup(c)
  <2>1. pc'[c] \in {"target", "lookup", "plan", "idle"}
    BY <1>2 DEF Begin, ReadTarget, Lookup, Goto, Answer, TypeOK
  <2> QED
    BY <1>1, <2>1
<1>3. CASE Write(c)
  <2>1. pc'[c] = "idle"
    BY <1>3 DEF Write, Answer, TypeOK
  <2> QED
    BY <1>1, <2>1
<1>4. CASE ReadPlan(c)
  <2>1. CASE Answer(c, "refused")
    BY <1>1, <2>1 DEF Answer, TypeOK
  <2>2. CASE ~Answer(c, "refused")
    <3>1. version[cmd[c].plan] = cmd[c].expected_version /\ UNCHANGED <<rows, version, cmd>>
      BY <1>4, <2>2 DEF ReadPlan, Goto
    <3>2. pc'[c] = CASE cmd[c].kind = "allocation"  -> "box"
                     [] cmd[c].kind = "unavailable" -> "remaining"
                     [] OTHER                       -> "write"
      BY <1>4, <2>2 DEF ReadPlan, Goto, TypeOK
    <3>3. cmd[c].expected_version \in Nat
      BY DEF TypeOK, Row
    <3> QED
      BY <3>1, <3>2, <3>3 DEF Checking
  <2> QED
    BY <2>1, <2>2
<1>5. CASE ReadBox(c)
  <2>1. CASE Answer(c, "refused")
    BY <1>1, <2>1 DEF Answer, TypeOK
  <2>2. CASE ~Answer(c, "refused")
    <3>1. pc[c] = "box" /\ pc'[c] = "duplicate" /\ UNCHANGED <<rows, version, cmd>>
      BY <1>5, <2>2 DEF ReadBox, Goto, TypeOK
    <3> QED
      BY <3>1 DEF Checking
  <2> QED
    BY <2>1, <2>2
<1>6. CASE ReadDuplicate(c)
  <2>1. CASE Answer(c, "refused")
    BY <1>1, <2>1 DEF Answer, TypeOK
  <2>2. CASE ~Answer(c, "refused")
    <3>1. pc[c] = "duplicate" /\ pc'[c] = "remaining" /\ UNCHANGED <<rows, version, cmd>>
      BY <1>6, <2>2 DEF ReadDuplicate, Goto, TypeOK
    <3>2. \A s \in Active(rows, cmd[c].plan, cmd[c].line) : s.box # cmd[c].box
      BY <1>6, <2>2 DEF ReadDuplicate
    <3> QED
      BY <3>1, <3>2 DEF Checking
  <2> QED
    BY <2>1, <2>2
<1>7. CASE ReadRemaining(c)
  <2>1. CASE Answer(c, "refused")
    BY <1>1, <2>1 DEF Answer, TypeOK
  <2>2. CASE ~Answer(c, "refused")
    <3>1. pc[c] = "remaining" /\ pc'[c] = "write" /\ UNCHANGED <<rows, version, cmd>>
      BY <1>7, <2>2 DEF ReadRemaining, Goto, TypeOK
    <3>2. cmd[c].line \in LinesOf[cmd[c].plan]
          /\ ~(cmd[c].quantity > Remaining(cmd[c].plan, cmd[c].line))
      BY <1>7, <2>2 DEF ReadRemaining
    <3>3. cmd[c].quantity <= Remaining(cmd[c].plan, cmd[c].line)
      <4>1. cmd[c].plan \in Plan /\ cmd[c].line \in Line /\ cmd[c].quantity \in Nat
        BY <3>2, PlansAssumption DEF TypeOK, Row
      <4>2. Remaining(cmd[c].plan, cmd[c].line) \in Int
        BY <4>1, RemainingInt
      <4> QED
        BY <3>2, <4>1, <4>2
    <3>4. Active(rows', cmd'[c].plan, cmd'[c].line) = Active(rows, cmd[c].plan, cmd[c].line)
          /\ Remaining(cmd[c].plan, cmd[c].line)' = Remaining(cmd[c].plan, cmd[c].line)
      BY <3>1 DEF Active, Remaining
    <3> QED
      BY <3>1, <3>2, <3>3, <3>4 DEF Checking
  <2> QED
    BY <2>1, <2>2
<1> QED
  BY <1>2, <1>3, <1>4, <1>5, <1>6, <1>7

(* Only the committing step changes the rows; it leaves alone what others   *)
(* established for other plans, and moves this one's version.               *)
LEMMA CheckedStep ==
  ASSUME TypeOK, IsFiniteSet(rows), Checked, [Next]_vars
  PROVE  Checked'
<1>1. CASE UNCHANGED vars
  BY <1>1 DEF vars, Checked, Checking, Active, Remaining
<1>2. ASSUME NEW c \in Conn,
             \/ Begin(c) \/ ReadTarget(c) \/ Lookup(c) \/ ReadPlan(c)
             \/ ReadBox(c) \/ ReadDuplicate(c) \/ ReadRemaining(c) \/ Write(c),
             NEW d \in Conn
      PROVE  Checking(d)'
  <2>1. CASE d = c
    BY <1>2, <2>1, CheckingOwn DEF Checked
  <2>2. CASE d # c
    <3>1. pc'[d] = pc[d] /\ cmd'[d] = cmd[d]
      BY <1>2, <2>2, OthersKeep
    <3>2. CASE UNCHANGED <<rows, version>>
      <4>1. Checking(d)
        BY DEF Checked
      <4> QED
        BY <3>1, <3>2, <4>1 DEF Checking, Active, Remaining
    <3>3. ASSUME NEW e \in Conn, rows' = rows \cup {cmd[e]},
                 version' = [version EXCEPT ![cmd[e].plan] = @ + 1]
          PROVE  Checking(d)'
      <4> PICK r \in Row : r = cmd[e]
        BY DEF TypeOK
      <4> QED
        BY <3>1, <3>3, CheckingKept DEF Checked
    <3>4. Next
      BY <1>2 DEF Next
    <3> QED
      BY <3>2, <3>3, <3>4, RowsStep
  <2> QED
    BY <2>1, <2>2
<1> QED
  BY <1>1, <1>2 DEF Next, Checked

(* A row is written no sooner than its plan is at the version it expects,   *)
(* and moves it on.                                                         *)
LEMMA PassedStep ==
  ASSUME TypeOK, Checked, Passed, [Next]_vars
  PROVE  Passed'
<1>1. CASE UNCHANGED <<rows, version>>
  BY <1>1 DEF Passed
<1>2. ASSUME NEW c \in Conn, Write(c), rows' = rows \cup {cmd[c]},
             version' = [version EXCEPT ![cmd[c].plan] = @ + 1],
             NEW r \in rows'
      PROVE  r.expected_version < version'[r.plan]
  <2>1. cmd[c].expected_version <= version[cmd[c].plan]
    BY <1>2 DEF Write, Checked, Checking
  <2>2. r \in Row /\ r.plan \in Plan /\ r.expected_version \in Nat /\ cmd[c].plan \in Plan
    BY <1>2 DEF TypeOK, Row
  <2>3. version[r.plan] \in Nat
        /\ version'[r.plan] = IF r.plan = cmd[c].plan THEN version[r.plan] + 1 ELSE version[r.plan]
    BY <1>2, <2>2 DEF TypeOK
  <2> QED
    BY <1>2, <2>1, <2>2, <2>3 DEF Passed
<1> QED
  BY <1>1, <1>2, RowsStep DEF vars, Passed

(* What conservation says of one plan. *)
Conserved(p) ==
  /\ \A l \in LinesOf[p] : Remaining(p, l) >= 0
  /\ \A l \in Line : \A r, s \in Active(rows, p, l) :
       r.kind = "allocation" /\ s.kind = "allocation" /\ r.box = s.box => r = s

(* A plan whose rows are still serial was serial before its last row, and   *)
(* that row was checked at the version it moved.                            *)
LEMMA SerialBefore ==
  ASSUME TypeOK, Passed, NEW r \in Row, rows' = rows \cup {r},
         version' = [version EXCEPT ![r.plan] = @ + 1],
         r.expected_version <= version[r.plan], NEW p \in Plan, SerialPlan(p)'
  PROVE  SerialPlan(p) /\ (p = r.plan => r.expected_version = version[p])
<1>1. r.plan \in Plan /\ r.expected_version \in Nat /\ version[p] \in Nat
  BY DEF TypeOK, Row
<1>2. CASE p # r.plan
  <2>1. version'[p] = version[p]
    BY <1>1, <1>2 DEF TypeOK
  <2>2. {s \in rows' : s.plan = p} = {s \in rows : s.plan = p}
    BY <1>2
  <2> QED
    BY <1>2, <2>1, <2>2 DEF SerialPlan
<1>3. CASE p = r.plan
  <2>1. version'[p] = version[p] + 1
    BY <1>1, <1>3 DEF TypeOK
  <2>2. \A n : n \in 0 .. version[p] <=> \E s \in rows' : s.plan = p /\ s.expected_version = n
    <3>1. {s.expected_version : s \in {t \in rows' : t.plan = p}} = 0 .. (version[p] + 1) - 1
      BY <2>1 DEF SerialPlan
    <3>2. 0 .. (version[p] + 1) - 1 = 0 .. version[p]
      BY <1>1
    <3> QED
      BY <3>1, <3>2, Zenon
  <2>3. \A s \in rows : s.plan = p => s.expected_version < version[p] /\ s.expected_version \in Nat
    BY DEF Passed, TypeOK, Row
  <2>4. r.expected_version = version[p]
    <3>1. PICK s \in rows' : s.plan = p /\ s.expected_version = version[p]
      <4>1. version[p] \in 0 .. version[p]
        BY <1>1
      <4> QED
        BY <2>2, <4>1, Zenon
    <3> QED
      BY <1>1, <2>3, <3>1
  <2>5. ASSUME NEW n \in 0 .. version[p] - 1
        PROVE  \E s \in rows : s.plan = p /\ s.expected_version = n
    <3>1. PICK s \in rows' : s.plan = p /\ s.expected_version = n
      <4>1. n \in 0 .. version[p]
        BY <1>1
      <4> QED
        BY <2>2, <4>1, Zenon
    <3>2. s # r
      BY <1>1, <2>4, <3>1
    <3> QED
      BY <3>1, <3>2
  <2>6. \A s \in rows : s.plan = p => s.expected_version \in 0 .. version[p] - 1
    BY <1>1, <2>3
  <2>7. {s.expected_version : s \in {t \in rows : t.plan = p}} = 0 .. version[p] - 1
    BY <2>5, <2>6
  <2> QED
    BY <2>4, <2>7, <1>3 DEF SerialPlan
<1> QED
  BY <1>2, <1>3

(* What SerialPlansConserve says of a plan survives a row of it that was    *)
(* checked at this version, and any row of another plan.                    *)
LEMMA ConservedStep ==
  ASSUME TypeOK, IsFiniteSet(rows), NEW r \in Row, rows' = rows \cup {r},
         NEW p \in Plan, Conserved(p),
         p = r.plan /\ r.kind = "allocation" =>
           \A s \in Active(rows, p, r.line) : s.box # r.box,
         p = r.plan /\ r.kind \in {"allocation", "unavailable"} =>
           r.line \in LinesOf[p] /\ r.quantity <= Remaining(p, r.line)
  PROVE  Conserved(p)'
<1>1. ASSUME NEW l \in LinesOf[p] PROVE Remaining(p, l)' >= 0
  <2>1. l \in Line
    BY PlansAssumption
  <2>2. /\ Remaining(p, l)' >= Remaining(p, l) - r.quantity
        /\ r.plan # p \/ r.line # l \/ r.kind \notin {"allocation", "unavailable"} =>
             Remaining(p, l)' >= Remaining(p, l)
        /\ Remaining(p, l) \in Int /\ Remaining(p, l)' \in Int
    BY <2>1, RemainingStep
  <2>3. Remaining(p, l) >= 0 /\ r.quantity \in Nat
    BY DEF Conserved, Row
  <2> QED
    BY <2>2, <2>3
<1>2. ASSUME NEW l \in Line, NEW s \in Active(rows', p, l), NEW t \in Active(rows', p, l),
             s.kind = "allocation", t.kind = "allocation", s.box = t.box
      PROVE  s = t
  <2>1. ASSUME NEW q \in Active(rows', p, l), q # r PROVE q \in Active(rows, p, l)
    BY <2>1, ActiveStep
  <2>2. ASSUME r \in Active(rows', p, l) PROVE r.plan = p /\ r.line = l
    BY <2>2 DEF Active
  <2> QED
    BY <1>2, <2>1, <2>2 DEF Conserved
<1> QED
  BY <1>1, <1>2 DEF Conserved

LEMMA ConserveStep ==
  ASSUME TypeOK, IsFiniteSet(rows), Checked, Passed, SerialPlansConserve, [Next]_vars
  PROVE  SerialPlansConserve'
<1>1. SerialPlansConserve <=> \A p \in Plan : SerialPlan(p) => Conserved(p)
  BY DEF SerialPlansConserve, Conserved
<1>2. SerialPlansConserve' <=> \A p \in Plan : SerialPlan(p)' => Conserved(p)'
  BY DEF SerialPlansConserve, Conserved
<1>3. CASE UNCHANGED <<rows, version>>
  BY <1>3 DEF SerialPlansConserve, SerialPlan, Remaining, Active
<1>4. ASSUME NEW c \in Conn, Write(c), rows' = rows \cup {cmd[c]},
             version' = [version EXCEPT ![cmd[c].plan] = @ + 1],
             NEW p \in Plan, SerialPlan(p)'
      PROVE  Conserved(p)'
  <2> PICK r \in Row : r = cmd[c]
    BY DEF TypeOK
  <2>1. pc[c] = "write" /\ Checking(c)
    BY <1>4 DEF Write, Checked
  <2>2. r.expected_version <= version[r.plan]
    BY <2>1 DEF Checking
  <2>3. SerialPlan(p) /\ (p = r.plan => r.expected_version = version[p])
    BY <1>4, <2>2, SerialBefore
  <2>4. Conserved(p)
    BY <1>1, <2>3
  <2>5. /\ p = r.plan /\ r.kind = "allocation" =>
             \A s \in Active(rows, p, r.line) : s.box # r.box
        /\ p = r.plan /\ r.kind \in {"allocation", "unavailable"} =>
             r.line \in LinesOf[p] /\ r.quantity <= Remaining(p, r.line)
    BY <2>1, <2>3 DEF Checking
  <2> QED
    BY <1>4, <2>4, <2>5, ConservedStep
<1> QED
  BY <1>2, <1>3, <1>4, RowsStep DEF vars

(* The empty store is serial and conserved. *)
LEMMA InitSerial == Init => Checked /\ Passed /\ SerialPlansConserve
<1> SUFFICES ASSUME Init PROVE Checked /\ Passed /\ SerialPlansConserve
  OBVIOUS
<1>1. Checked /\ Passed
  BY DEF Init, Checked, Checking, Passed
<1>2. ASSUME NEW p \in Plan, NEW l \in Line
      PROVE  Active(rows, p, l) = {} /\ Remaining(p, l) >= 0
  <2>1. Active(rows, p, l) = {}
    BY DEF Init, Active
  <2>2. Total(Active(rows, p, l)) = Total({})
    BY <2>1, Zenon
  <2>3. Total({}) = 0
    BY FS_EmptySet, TotalStep
  <2>4. Remaining(p, l) = Original[l] - Total(Active(rows, p, l)) /\ Original[l] \in Nat
    BY QuantityAssumption DEF Remaining, Total
  <2> QED
    BY <2>1, <2>2, <2>3, <2>4
<1>3. SerialPlansConserve
  BY <1>2, PlansAssumption DEF SerialPlansConserve
<1> QED
  BY <1>1, <1>3

(* Conservation of serial plans needs what the connections have checked.    *)
THEOREM SerialInvariant == Spec => []SInv
<1>1. Init => SInv
  BY InitInvariant, InitSerial DEF SInv
<1>2. SInv /\ [Next]_vars => SInv'
  <2> SUFFICES ASSUME SInv, [Next]_vars PROVE SInv'
    OBVIOUS
  <2>1. IInv'
    BY TypeStep, VersionStep, InFlightStep, ReversalStep, AcknowledgedStep DEF SInv, IInv
  <2> QED
    BY <2>1, CheckedStep, PassedStep, ConserveStep DEF SInv, IInv
<1> QED
  BY <1>1, <1>2, PTL DEF Spec

(* allocate and mark_unavailable over-pack a line, or put it in a box twice, *)
(* only where two commands were accepted at one version of the plan.         *)
THEOREM SerialConservation == Spec => []SerialPlansConserve
<1>1. SInv => SerialPlansConserve
  BY DEF SInv
<1> QED
  BY <1>1, SerialInvariant, PTL

=============================================================================
