--------------------- MODULE OrdersAndCustomersProofs ---------------------
(***************************************************************************)
(* CoreOrders and CustomerCatalog: what staff put on record over imported  *)
(* rows.                                                                   *)
(*                                                                         *)
(* Orders and plans, for any number of connections, orders and lines.  The *)
(* inductive invariant adds what a command has established between two     *)
(* statements: its memberships are distinct, and their sources stay        *)
(* imported.  That comparing lines means what it is meant to needs the     *)
(* sorted lines of an order to exist and to be its lines.                  *)
(*                                                                         *)
(* The customer catalogue, for any customers, children and snapshots.  The *)
(* inductive invariant adds that what the activity log says staff decided  *)
(* is marked as theirs in the rows, which is all that a backfill looks at. *)
(***************************************************************************)
EXTENDS CoreOrders, CustomerCatalog, FiniteSetTheorems, FunctionTheorems, SequenceTheorems, TLAPS

-----------------------------------------------------------------------------
(* Sorting an order's lines. *)

Increasing(s) == \A i, j \in DOMAIN s : i < j => s[i].line < s[j].line

(* M[1 .. n] in line order, all of it. *)
Sorts(s, n, M) == /\ s \in [1 .. n -> M] /\ Increasing(s)
                  /\ \A m \in M : \E i \in 1 .. n : s[i] = m

(* Among some subsets of a finite set there is one with none below it. *)
LEMMA SmallestSubset ==
  ASSUME NEW S, IsFiniteSet(S), NEW X \in SUBSET SUBSET S, X # {}
  PROVE  \E T \in X : \A U \in X : U \subseteq T => U = T
<1>1. IsWellFoundedOn(StrictSubsetOrdering(S), SUBSET S)
  BY FS_FiniteSubsetsOfFinite, FS_StrictSubsetOrderingWellFounded
<1>2. \E T \in X : \A U \in X : ~ (<<U, T>> \in StrictSubsetOrdering(S))
  BY <1>1, WFMin
<1> QED
  BY <1>2 DEF StrictSubsetOrdering

(* Some membership has the greatest line. *)
LEMMA LastLine ==
  ASSUME NEW S \in SUBSET Membership, IsFiniteSet(S), S # {}
  PROVE  \E m \in S : \A q \in S : q.line <= m.line
<1> DEFINE X == {T \in SUBSET S : T # {} /\ ~ \E m \in T : \A q \in T : q.line <= m.line}
<1>1. SUFFICES ASSUME X # {} PROVE FALSE
  OBVIOUS
<1>2. PICK T \in X : \A U \in X : U \subseteq T => U = T
  <2> HIDE DEF X
  <2>1. X \in SUBSET SUBSET S
    BY DEF X
  <2> QED
    BY <1>1, <2>1, SmallestSubset
<1>3. PICK a \in T : TRUE
  OBVIOUS
<1>4. \A q \in T : q.line \in Nat
  BY LineAssumption DEF Membership
<1>5. CASE T \ {a} = {}
  <2>1. \A q \in T : q = a
    BY <1>5
  <2> QED
    BY <1>3, <1>4, <2>1
<1>6. CASE T \ {a} # {}
  <2>1. T \ {a} \notin X
    BY <1>2, <1>3
  <2>2. PICK b \in T \ {a} : \A q \in T \ {a} : q.line <= b.line
    BY <1>6, <2>1
  <2>3. CASE a.line <= b.line
    BY <2>2, <2>3
  <2>4. CASE ~(a.line <= b.line)
    BY <1>3, <1>4, <2>2, <2>4
  <2> QED
    BY <2>3, <2>4
<1> QED
  BY <1>5, <1>6

(* A finite set of memberships with lines of their own can be sorted. *)
LEMMA SortExists ==
  ASSUME NEW S \in SUBSET Membership, IsFiniteSet(S),
         \A m, q \in S : m.line = q.line => m = q
  PROVE  \E n \in Nat : \E s : Sorts(s, n, S)
<1> DEFINE X == {T \in SUBSET S : ~ \E n \in Nat : \E s : Sorts(s, n, T)}
<1>1. SUFFICES ASSUME X # {} PROVE FALSE
  OBVIOUS
<1>2. PICK T \in X : \A U \in X : U \subseteq T => U = T
  <2> HIDE DEF X
  <2>1. X \in SUBSET SUBSET S
    BY DEF X
  <2> QED
    BY <1>1, <2>1, SmallestSubset
<1>3. T # {}
  <2> SUFFICES ASSUME T = {} PROVE FALSE
    OBVIOUS
  <2>1. Sorts([i \in 1 .. 0 |-> 0], 0, {})
    BY DEF Sorts, Increasing
  <2> QED
    BY <2>1
<1>4. PICK m \in T : \A q \in T : q.line <= m.line
  BY <1>3, LastLine, FS_Subset
<1>5. T \ {m} \notin X
  BY <1>2
<1>6a. PICK n \in Nat : \E s : Sorts(s, n, T \ {m})
  BY <1>5
<1>6. PICK s : Sorts(s, n, T \ {m})
  BY <1>6a
<1> DEFINE t == [i \in 1 .. n + 1 |-> IF i = n + 1 THEN m ELSE s[i]]
<1>7. \A i \in 1 .. n : t[i] = s[i] /\ s[i] \in T /\ s[i] # m
  BY <1>6 DEF Sorts
<1>8. t \in [1 .. n + 1 -> T] /\ t[n + 1] = m
  <2>1. ASSUME NEW i \in 1 .. n + 1 PROVE t[i] \in T
    <3>1. CASE i = n + 1
      BY <3>1
    <3>2. CASE i # n + 1
      <4>1. i \in 1 .. n
        BY <3>2
      <4> QED
        BY <1>7, <4>1
    <3> QED
      BY <3>1, <3>2
  <2>2. n + 1 \in 1 .. n + 1
    OBVIOUS
  <2>3. t[n + 1] = m
    BY <2>2
  <2> QED
    BY <2>1, <2>3
<1> HIDE DEF t
<1>9. \A i \in 1 .. n : t[i].line < m.line
  <2> TAKE i \in 1 .. n
  <2>1. s[i] \in S /\ m \in S /\ s[i].line # m.line
    BY <1>7
  <2>2. s[i].line \in Nat /\ m.line \in Nat
    BY <2>1, LineAssumption DEF Membership
  <2>3. s[i].line <= m.line /\ t[i] = s[i]
    BY <1>4, <1>7
  <2> QED
    BY <2>1, <2>2, <2>3
<1>10. Increasing(t)
  <2> SUFFICES ASSUME NEW i \in 1 .. n + 1, NEW j \in 1 .. n + 1, i < j
               PROVE  t[i].line < t[j].line
    BY <1>8 DEF Increasing
  <2>1. CASE j = n + 1
    <3>1. i \in 1 .. n
      BY <2>1
    <3> QED
      BY <1>8, <1>9, <2>1, <3>1
  <2>2. CASE j # n + 1
    <3>1. i \in 1 .. n /\ j \in 1 .. n
      BY <2>2
    <3>2. s[i].line < s[j].line
      BY <1>6, <3>1 DEF Sorts, Increasing
    <3> QED
      BY <1>7, <3>1, <3>2
  <2> QED
    BY <2>1, <2>2
<1>11. ASSUME NEW q \in T PROVE \E i \in 1 .. n + 1 : t[i] = q
  <2>1. CASE q = m
    <3>1. n + 1 \in 1 .. n + 1
      OBVIOUS
    <3> QED
      BY <1>8, <2>1, <3>1
  <2>2. CASE q # m
    <3>1. PICK i \in 1 .. n : s[i] = q
      BY <1>6, <2>2 DEF Sorts
    <3>2. i \in 1 .. n + 1 /\ t[i] = q
      BY <1>7, <3>1
    <3> QED
      BY <3>2
  <2> QED
    BY <2>1, <2>2
<1>12. Sorts(t, n + 1, T)
  BY <1>8, <1>10, <1>11 DEF Sorts
<1> QED
  <2>1. n + 1 \in Nat
    OBVIOUS
  <2> QED
    BY <1>12, <2>1

(* What order_lines reads back: the same order, and its lines. *)
LEMMA StoredIsOrder ==
  ASSUME NEW o \in Order, Distinct(o)
  PROVE  /\ Stored(o).id = o.id /\ Stored(o).by = o.by /\ Stored(o).key = o.key
         /\ Range(Stored(o).lines) = Range(o.lines)
<1> DEFINE f == o.lines
           L == Len(f)
           M == Range(f)
           Fits(s) == \A i, j \in DOMAIN s : i < j => s[i].line < s[j].line
           X == CHOOSE s \in [DOMAIN f -> M] : Fits(s)
<1>1. f \in Seq(Membership) /\ L \in Nat /\ DOMAIN f = 1 .. L /\ f \in [1 .. L -> Membership]
  BY DEF Order
<1>2. \A i, j \in 1 .. L : f[i].line = f[j].line => i = j
  BY <1>1 DEF Distinct, IsInjective
<1>3. M \in SUBSET Membership /\ \A m \in M : \E i \in 1 .. L : f[i] = m
  BY <1>1 DEF Range
<1>4. f \in Bijection(1 .. L, M)
  <2>1. f \in [1 .. L -> M]
    BY <1>1 DEF Range
  <2> HIDE DEF f, L, M
  <2>2. \A i, j \in 1 .. L : f[i] = f[j] => i = j
    BY <1>2
  <2>3. f \in Injection(1 .. L, M)
    BY <2>1, <2>2, Fun_IsInj
  <2>4. f \in Surjection(1 .. L, M)
    BY <1>3, <2>1, Fun_IsSurj
  <2> QED
    BY <2>3, <2>4 DEF Bijection
<1>5. \A m, q \in M : m.line = q.line => m = q
  BY <1>2, <1>3
<1> HIDE DEF f, L, M
<1>6. ExistsBijection(1 .. L, M)
  BY <1>4 DEF ExistsBijection
<1>7. IsFiniteSet(M) /\ Cardinality(M) = L
  BY <1>1, <1>6, FS_CountingElements, FS_NatBijection
<1>8a. PICK n \in Nat : \E s : Sorts(s, n, M)
  BY <1>3, <1>5, <1>7, SortExists
<1>8. PICK s : Sorts(s, n, M)
  BY <1>8a
<1>9. ASSUME NEW t \in [1 .. L -> M], Fits(t) PROVE Range(t) = M
  <2>1. \A m \in M : m.line \in Nat
    BY <1>3, LineAssumption DEF Membership
  <2>2. ASSUME NEW i \in 1 .. L, NEW j \in 1 .. L, t[i] = t[j] PROVE i = j
    <3>1. t[i].line \in Nat /\ t[i].line = t[j].line
      BY <2>1, <2>2
    <3>2. ~(i < j) /\ ~(j < i)
      <4>1. i < j => t[i].line < t[j].line
        BY <1>9
      <4>2. j < i => t[j].line < t[i].line
        BY <1>9
      <4> QED
        BY <3>1, <4>1, <4>2
    <3> QED
      BY <1>1, <3>2
  <2>3. t \in Injection(1 .. L, M)
    BY <2>2, Fun_IsInj
  <2>4. IsFiniteSet(1 .. L) /\ Cardinality(1 .. L) = L
    BY <1>1, FS_Interval
  <2>5. t \in Surjection(1 .. L, M)
    BY <1>7, <2>3, <2>4, FS_Injection
  <2> QED
    BY <2>5, Fun_SurjectionProperties
<1>10. n = L
  <2>1. s \in [1 .. n -> M] /\ \A m \in M : \E i \in 1 .. n : s[i] = m
    BY <1>8 DEF Sorts
  <2>2. ASSUME NEW i \in 1 .. n, NEW j \in 1 .. n, s[i] = s[j] PROVE i = j
    <3>0. \A m \in M : m.line \in Nat
      BY <1>3, LineAssumption DEF Membership
    <3>1. s[i].line \in Nat /\ s[i].line = s[j].line
      BY <2>1, <2>2, <3>0
    <3>2. i < j => s[i].line < s[j].line
      BY <1>8, <2>1 DEF Sorts, Increasing
    <3>3. j < i => s[j].line < s[i].line
      BY <1>8, <2>1 DEF Sorts, Increasing
    <3> QED
      BY <3>1, <3>2, <3>3
  <2>3. s \in Injection(1 .. n, M)
    BY <2>1, <2>2, Fun_IsInj
  <2>4. s \in Surjection(1 .. n, M)
    BY <2>1, Fun_IsSurj
  <2>5. ExistsBijection(1 .. n, M)
    BY <2>3, <2>4 DEF ExistsBijection, Bijection
  <2> QED
    BY <1>7, <2>5, FS_CountingElements
<1>11. s \in [DOMAIN f -> M] /\ Fits(s)
  <2>1. s \in [1 .. L -> M] /\ DOMAIN f = 1 .. L
    BY <1>1, <1>8, <1>10 DEF Sorts
  <2>2. Fits(s)
    BY <1>8 DEF Sorts, Increasing
  <2> QED
    BY <2>1, <2>2
<1>12. X \in [DOMAIN f -> M] /\ Fits(X)
  <2> HIDE DEF Fits
  <2> QED
    BY <1>11
<1>13. Range(X) = M
  BY <1>1, <1>9, <1>12
<1>14. Stored(o) = [o EXCEPT !.lines = X]
  BY DEF Stored, f, M
<1> HIDE DEF X
<1>15. [o EXCEPT !.lines = X].lines = X
  BY DEF Order
<1>16. /\ [o EXCEPT !.lines = X].id = o.id
       /\ [o EXCEPT !.lines = X].by = o.by
       /\ [o EXCEPT !.lines = X].key = o.key
  BY DEF Order
<1> QED
  BY <1>13, <1>14, <1>15, <1>16 DEF M, f

-----------------------------------------------------------------------------
(* The inductive invariant. *)

(* What a command of either kind has established before its next statement. *)
Established(c) ==
  /\ pc[c] # "idle" => reply[c] = "none"
  /\ pc[c] \in {"sources", "lines"} => cmd[c].kind = "order"
  /\ pc[c] = "order" => cmd[c].kind = "plan"
  /\ pc[c] \in {"lookup", "lines", "write"} /\ cmd[c].kind = "order" =>
       Distinct(cmd[c].row) /\ Sources(cmd[c].row) \subseteq sources \cap Positive
InFlight == \A c \in Conn : Established(c)

OrderIInv == OrdersTypeOK /\ InFlight /\ OrdersAreTraced /\ AcknowledgedAsAsked

Step(c) == \/ Begin(c) \/ ReadSources(c) \/ LookupOrder(c) \/ ReadLines(c) \/ LookupPlan(c)
           \/ ReadOrder(c) \/ WriteOrder(c) \/ WritePlan(c)

(* Nothing is on record and nothing under way. *)
LEMMA InitOrders == OrdersInit => OrderIInv
<1> SUFFICES ASSUME OrdersInit PROVE OrderIInv
  OBVIOUS
<1>1. OrdersTypeOK
  BY RequestAssumption DEF OrdersInit, OrdersTypeOK
<1> QED
  BY <1>1 DEF OrdersInit, OrderIInv, InFlight, Established, OrdersAreTraced, AcknowledgedAsAsked

(* A command is of an order or of a plan. *)
LEMMA CommandKinds ==
  ASSUME NEW r \in Command
  PROVE  /\ r.kind \in {"order", "plan"}
         /\ r.kind = "order" => r.row \in Order
         /\ r.kind = "plan" => r.row \in Plan
BY DEF Command

(* Every statement but the committing ones leaves the tables alone. *)
LEMMA TypeStep ==
  ASSUME OrdersTypeOK, [OrdersNext]_orderVars
  PROVE  OrdersTypeOK'
<1> USE DEF OrdersTypeOK
<1>1. CASE Import
  BY <1>1 DEF Import
<1>2. ASSUME NEW c \in Conn, Begin(c) PROVE OrdersTypeOK'
  BY <1>2, RequestAssumption DEF Begin, tables
<1>3. ASSUME NEW c \in Conn, ReadSources(c) \/ LookupOrder(c) PROVE OrdersTypeOK'
  BY <1>3 DEF ReadSources, LookupOrder, Goto, Answer, tables
<1>4. ASSUME NEW c \in Conn, ReadLines(c) PROVE OrdersTypeOK'
  BY <1>4 DEF ReadLines, Answer, tables
<1>5. ASSUME NEW c \in Conn, LookupPlan(c) \/ ReadOrder(c) PROVE OrdersTypeOK'
  BY <1>5 DEF LookupPlan, ReadOrder, Goto, Answer, tables
<1>6. ASSUME NEW c \in Conn, WriteOrder(c) PROVE OrdersTypeOK'
  BY <1>6, CommandKinds DEF WriteOrder, Answer, tables
<1>7. ASSUME NEW c \in Conn, WritePlan(c) PROVE OrdersTypeOK'
  BY <1>7, CommandKinds DEF WritePlan, Answer, tables
<1>8. CASE UNCHANGED orderVars
  BY <1>8 DEF orderVars, tables
<1> QED
  BY <1>1, <1>2, <1>3, <1>4, <1>5, <1>6, <1>7, <1>8 DEF OrdersNext

(* The tables grow by an import or by a committed command. *)
LEMMA TablesStep ==
  ASSUME OrdersTypeOK, [OrdersNext]_orderVars
  PROVE  \/ UNCHANGED tables
         \/ sources \subseteq sources' /\ UNCHANGED <<orders, plans>>
         \/ \E c \in Conn : /\ WriteOrder(c) /\ OrderInsertable(cmd[c].row)
                            /\ orders' = orders \cup {cmd[c].row} /\ UNCHANGED <<sources, plans>>
         \/ \E c \in Conn : /\ WritePlan(c) /\ PlanInsertable(cmd[c].row)
                            /\ plans' = plans \cup {cmd[c].row} /\ UNCHANGED <<sources, orders>>
<1>1. CASE Import
  BY <1>1 DEF Import
<1>2. ASSUME NEW c \in Conn, Step(c)
      PROVE  \/ UNCHANGED tables
             \/ /\ WriteOrder(c) /\ OrderInsertable(cmd[c].row)
                /\ orders' = orders \cup {cmd[c].row} /\ UNCHANGED <<sources, plans>>
             \/ /\ WritePlan(c) /\ PlanInsertable(cmd[c].row)
                /\ plans' = plans \cup {cmd[c].row} /\ UNCHANGED <<sources, orders>>
  <2>1. CASE Begin(c) \/ ReadSources(c) \/ LookupOrder(c)
    BY <2>1 DEF Begin, ReadSources, LookupOrder, Goto, Answer
  <2>2. CASE ReadLines(c) \/ LookupPlan(c) \/ ReadOrder(c)
    BY <2>2 DEF ReadLines, LookupPlan, ReadOrder, Goto, Answer
  <2>3. CASE WriteOrder(c)
    BY <2>3 DEF WriteOrder, Answer
  <2>4. CASE WritePlan(c)
    BY <2>4 DEF WritePlan, Answer
  <2> QED
    BY <1>2, <2>1, <2>2, <2>3, <2>4 DEF Step
<1>3. CASE UNCHANGED orderVars
  BY <1>3 DEF orderVars
<1> QED
  BY <1>1, <1>2, <1>3 DEF OrdersNext, Step

LEMMA TablesGrow ==
  ASSUME OrdersTypeOK, [OrdersNext]_orderVars
  PROVE  sources \subseteq sources' /\ orders \subseteq orders' /\ plans \subseteq plans'
BY TablesStep DEF tables

(* A step is one connection's; what the others remember is left. *)
LEMMA OthersKeep ==
  ASSUME OrdersTypeOK, NEW c \in Conn, Step(c), NEW d \in Conn, d # c
  PROVE  pc'[d] = pc[d] /\ cmd'[d] = cmd[d] /\ reply'[d] = reply[d]
<1>1. CASE Begin(c) \/ ReadSources(c) \/ LookupOrder(c)
  BY <1>1 DEF Begin, ReadSources, LookupOrder, Goto, Answer, OrdersTypeOK
<1>2. CASE ReadLines(c) \/ LookupPlan(c) \/ ReadOrder(c)
  BY <1>2 DEF ReadLines, LookupPlan, ReadOrder, Goto, Answer, OrdersTypeOK
<1>3. CASE WriteOrder(c) \/ WritePlan(c)
  BY <1>3 DEF WriteOrder, WritePlan, Answer, OrdersTypeOK
<1> QED
  BY <1>1, <1>2, <1>3 DEF Step

(* A command's own statements establish what the next one relies on. *)
LEMMA OwnStep ==
  ASSUME OrdersTypeOK, [OrdersNext]_orderVars, NEW c \in Conn, Established(c), Step(c)
  PROVE  Established(c)'
<1>1. sources \subseteq sources'
  BY TablesGrow
<1>2. ASSUME pc'[c] = "idle" PROVE Established(c)'
  BY <1>2 DEF Established
<1>3. ASSUME NEW s \in {"lookup", "lines", "order", "write"}, Goto(c, s)
      PROVE  pc'[c] = s /\ cmd'[c] = cmd[c] /\ reply'[c] = reply[c]
  BY <1>3 DEF Goto, OrdersTypeOK
<1>4. ASSUME NEW a, Answer(c, a) PROVE Established(c)'
  BY <1>2, <1>4 DEF Answer, OrdersTypeOK
<1>5. CASE Begin(c)
  BY <1>5 DEF Begin, Established, OrdersTypeOK
<1>6. CASE ReadSources(c)
  <2>1. CASE Answer(c, "refused")
    BY <1>4, <2>1
  <2>2. CASE ~Answer(c, "refused")
    BY <1>1, <1>3, <1>6, <2>2 DEF ReadSources, Established
  <2> QED
    BY <2>1, <2>2
<1>7. CASE LookupOrder(c)
  <2>1. CASE Answer(c, "conflict")
    BY <1>4, <2>1
  <2>2. CASE ~Answer(c, "conflict")
    <3>1. PICK s \in {"lines", "write"} : Goto(c, s)
      BY <1>7, <2>2 DEF LookupOrder
    <3>2. pc'[c] = s /\ cmd'[c] = cmd[c] /\ reply'[c] = reply[c]
      BY <1>3, <3>1
    <3> QED
      BY <1>1, <1>7, <3>2 DEF LookupOrder, Established
  <2> QED
    BY <2>1, <2>2
<1>8. CASE ReadLines(c)
  BY <1>4, <1>8 DEF ReadLines
<1>9. CASE LookupPlan(c)
  <2>1. CASE Goto(c, "order")
    BY <1>3, <1>9, <2>1 DEF LookupPlan, Established
  <2>2. CASE ~Goto(c, "order")
    BY <1>4, <1>9, <2>2 DEF LookupPlan
  <2> QED
    BY <2>1, <2>2
<1>10. CASE ReadOrder(c)
  <2>1. CASE Goto(c, "write")
    BY <1>3, <1>10, <2>1 DEF ReadOrder, Established
  <2>2. CASE ~Goto(c, "write")
    BY <1>4, <1>10, <2>2 DEF ReadOrder
  <2> QED
    BY <2>1, <2>2
<1>11. CASE WriteOrder(c) \/ WritePlan(c)
  <2>1. pc'[c] = "idle"
    BY <1>11 DEF WriteOrder, WritePlan, Answer, OrdersTypeOK
  <2> QED
    BY <1>2, <2>1
<1> QED
  BY <1>5, <1>6, <1>7, <1>8, <1>9, <1>10, <1>11 DEF Step

(* What the others established stays so: sources are never removed. *)
LEMMA InFlightStep ==
  ASSUME OrdersTypeOK, InFlight, [OrdersNext]_orderVars
  PROVE  InFlight'
<1>1. sources \subseteq sources'
  BY TablesGrow
<1>2. CASE UNCHANGED orderVars
  BY <1>2 DEF orderVars, tables, InFlight, Established
<1>3. CASE Import
  BY <1>1, <1>3 DEF Import, InFlight, Established
<1>4. ASSUME NEW c \in Conn, Step(c), NEW d \in Conn PROVE Established(d)'
  <2>1. CASE d # c
    <3>1. pc'[d] = pc[d] /\ cmd'[d] = cmd[d] /\ reply'[d] = reply[d]
      BY <1>4, <2>1, OthersKeep
    <3>2. Established(d)
      BY DEF InFlight
    <3> QED
      BY <1>1, <3>1, <3>2 DEF Established
  <2>2. CASE d = c
    BY <1>4, <2>2, OwnStep DEF InFlight
  <2> QED
    BY <2>1, <2>2
<1> QED
  BY <1>2, <1>3, <1>4 DEF OrdersNext, Step, InFlight

(* A committed order has its identity, key and lines to itself and sources  *)
(* its connection saw imported; a committed plan has its order.             *)
LEMMA TracedStep ==
  ASSUME OrdersTypeOK, InFlight, OrdersAreTraced, [OrdersNext]_orderVars
  PROVE  OrdersAreTraced'
<1>1. CASE UNCHANGED tables
  BY <1>1 DEF tables, OrdersAreTraced
<1>2. CASE sources \subseteq sources' /\ UNCHANGED <<orders, plans>>
  BY <1>2 DEF OrdersAreTraced
<1>3. ASSUME NEW c \in Conn, WriteOrder(c), OrderInsertable(cmd[c].row),
             orders' = orders \cup {cmd[c].row}, UNCHANGED <<sources, plans>>
      PROVE  OrdersAreTraced'
  <2>1. Distinct(cmd[c].row) /\ Sources(cmd[c].row) \subseteq sources \cap Positive
    BY <1>3 DEF WriteOrder, InFlight, Established
  <2>2. \A o, p \in orders' : o.id = p.id \/ o.key = p.key \/ Lines(o) \cap Lines(p) # {} => o = p
    BY <1>3 DEF OrdersAreTraced, OrderInsertable
  <2>3. \A o \in orders' : Distinct(o) /\ Sources(o) \subseteq sources' \cap Positive
    BY <1>3, <2>1 DEF OrdersAreTraced
  <2>4. \A p \in plans' : \E o \in orders' : o.id = p.order
    BY <1>3 DEF OrdersAreTraced
  <2> QED
    BY <2>2, <2>3, <2>4 DEF OrdersAreTraced
<1>4. ASSUME NEW c \in Conn, WritePlan(c), PlanInsertable(cmd[c].row),
             plans' = plans \cup {cmd[c].row}, UNCHANGED <<sources, orders>>
      PROVE  OrdersAreTraced'
  BY <1>4 DEF OrdersAreTraced, PlanInsertable
<1> QED
  BY <1>1, <1>2, <1>3, <1>4, TablesStep

(* What "ok" says of the last command of a connection. *)
Acknowledged(c) == reply[c] = "ok" =>
  IF cmd[c].kind = "plan" THEN cmd[c].row \in plans
  ELSE \E o \in orders : /\ o.id = cmd[c].row.id /\ o.by = cmd[c].row.by
                         /\ o.key = cmd[c].row.key
                         /\ Range(o.lines) = Range(cmd[c].row.lines)

(* "ok" is answered by the step that commits the row, or by the comparison   *)
(* with what is on record, and nothing on record changes.                   *)
LEMMA AcknowledgedOwn ==
  ASSUME OrdersTypeOK, InFlight, OrdersAreTraced, [OrdersNext]_orderVars, NEW c \in Conn, Step(c)
  PROVE  Acknowledged(c)'
<1>2. ASSUME reply'[c] # "ok" PROVE Acknowledged(c)'
  BY <1>2 DEF Acknowledged
<1>3. ASSUME NEW a, Answer(c, a)
      PROVE  reply'[c] = a /\ UNCHANGED <<orders, plans, cmd>>
  BY <1>3 DEF Answer, OrdersTypeOK, tables
<1>4. ASSUME NEW s, Goto(c, s), pc[c] # "idle"
      PROVE  Acknowledged(c)'
  BY <1>2, <1>4 DEF Goto, InFlight, Established
<1>5. CASE Begin(c)
  <2>1. reply'[c] = "none"
    BY <1>5 DEF Begin, OrdersTypeOK
  <2> QED
    BY <1>2, <2>1
<1>6. CASE ReadSources(c) \/ LookupOrder(c) \/ ReadOrder(c)
  <2>1. CASE \E a \in {"refused", "conflict"} : Answer(c, a)
    BY <1>2, <1>3, <2>1
  <2>2. CASE \E s \in {"lookup", "lines", "write"} : Goto(c, s)
    BY <1>4, <1>6, <2>2 DEF ReadSources, LookupOrder, ReadOrder
  <2> QED
    BY <1>6, <2>1, <2>2 DEF ReadSources, LookupOrder, ReadOrder
<1>7. CASE ReadLines(c)
  <2>1. PICK o \in orders : /\ o.id = cmd[c].row.id
                            /\ Answer(c, IF Stored(o) = cmd[c].row THEN "ok" ELSE "conflict")
    BY <1>7 DEF ReadLines
  <2>2. CASE Stored(o) = cmd[c].row
    <3>1. o \in Order /\ Distinct(o)
      BY DEF OrdersTypeOK, OrdersAreTraced
    <3>2. /\ o.id = cmd[c].row.id /\ o.by = cmd[c].row.by /\ o.key = cmd[c].row.key
          /\ Range(o.lines) = Range(cmd[c].row.lines)
      BY <2>2, <3>1, StoredIsOrder
    <3>3. cmd[c].kind = "order" /\ UNCHANGED <<orders, cmd>>
      BY <1>3, <1>7, <2>1 DEF ReadLines, InFlight, Established
    <3> QED
      BY <3>2, <3>3 DEF Acknowledged
  <2>3. CASE Stored(o) # cmd[c].row
    <3>1. Answer(c, "conflict")
      BY <2>1, <2>3
    <3> QED
      BY <1>2, <1>3, <3>1
  <2> QED
    BY <2>2, <2>3
<1>8. CASE LookupPlan(c)
  <2>1. CASE Goto(c, "order")
    BY <1>4, <1>8, <2>1 DEF LookupPlan
  <2>2. CASE Answer(c, "conflict")
    BY <1>2, <1>3, <2>2
  <2>3. CASE Answer(c, "ok") /\ cmd[c].row \in plans
    BY <1>3, <1>8, <2>3 DEF LookupPlan, Acknowledged
  <2> QED
    BY <1>8, <2>1, <2>2, <2>3 DEF LookupPlan
<1>9. CASE WriteOrder(c)
  <2>1. CASE Answer(c, "refused")
    BY <1>2, <1>3, <2>1
  <2>2. CASE orders' = orders \cup {cmd[c].row} /\ UNCHANGED cmd
    BY <1>9, <2>2 DEF WriteOrder, Acknowledged
  <2> QED
    BY <1>9, <2>1, <2>2 DEF WriteOrder
<1>10. CASE WritePlan(c)
  <2>1. CASE Answer(c, "refused")
    BY <1>2, <1>3, <2>1
  <2>2. CASE plans' = plans \cup {cmd[c].row} /\ UNCHANGED cmd
    BY <1>10, <2>2 DEF WritePlan, Acknowledged
  <2> QED
    BY <1>10, <2>1, <2>2 DEF WritePlan
<1> QED
  BY <1>5, <1>6, <1>7, <1>8, <1>9, <1>10 DEF Step

(* What was acknowledged to the others stays on record. *)
LEMMA AcknowledgedStep ==
  ASSUME OrdersTypeOK, InFlight, OrdersAreTraced, AcknowledgedAsAsked, [OrdersNext]_orderVars
  PROVE  AcknowledgedAsAsked'
<1>1. orders \subseteq orders' /\ plans \subseteq plans'
  BY TablesGrow
<1>2. CASE UNCHANGED orderVars
  BY <1>2 DEF orderVars, tables, AcknowledgedAsAsked
<1>3. CASE Import
  BY <1>1, <1>3 DEF Import, AcknowledgedAsAsked
<1>4. ASSUME NEW c \in Conn, Step(c), NEW d \in Conn PROVE Acknowledged(d)'
  <2>1. CASE d # c
    <3>1. pc'[d] = pc[d] /\ cmd'[d] = cmd[d] /\ reply'[d] = reply[d]
      BY <1>4, <2>1, OthersKeep
    <3>2. Acknowledged(d)
      BY DEF AcknowledgedAsAsked, Acknowledged
    <3> QED
      BY <1>1, <3>1, <3>2 DEF Acknowledged
  <2>2. CASE d = c
    BY <1>4, <2>2, AcknowledgedOwn
  <2> QED
    BY <2>1, <2>2
<1> QED
  BY <1>2, <1>3, <1>4 DEF OrdersNext, Step, AcknowledgedAsAsked, Acknowledged

-----------------------------------------------------------------------------
(* The conjunction is inductive and holds throughout every behaviour. *)
THEOREM OrderInvariant == OrdersSpec => []OrderIInv
<1>1. OrderIInv /\ [OrdersNext]_orderVars => OrderIInv'
  BY TypeStep, InFlightStep, TracedStep, AcknowledgedStep DEF OrderIInv
<1> QED
  BY <1>1, InitOrders, PTL DEF OrdersSpec

(* create_order and create_packing_plan never mix the lines, identities or   *)
(* keys of rival commands, and every order is traced to imported rows.       *)
THEOREM OrdersTraced == OrdersSpec => []OrdersAreTraced
<1>1. OrderIInv => OrdersAreTraced
  BY DEF OrderIInv
<1> QED
  BY <1>1, OrderInvariant, PTL

(* Whoever is told "ok" finds the order with exactly the lines it asked for, *)
(* in whatever order it gave them, or the plan it asked for.                 *)
THEOREM AcknowledgementsHold == OrdersSpec => []AcknowledgedAsAsked
<1>1. OrderIInv => AcknowledgedAsAsked
  BY DEF OrderIInv
<1> QED
  BY <1>1, OrderInvariant, PTL

-----------------------------------------------------------------------------
(* The customer catalogue. *)

(* What the activity log says staff decided is marked as theirs. *)
FieldsMarked == \A c \in Customer, f \in Field : activity[<<c, f>>] # <<>> =>
  customers[c] # None /\ (customers[c].created \/ f \in customers[c].protected)
ArchivesMarked == \A c \in Customer : activity[<<c, "archived">>] # <<>> =>
  customers[c] # None /\ customers[c].archived
ChildrenMarked == \A c \in Customer, ch \in Child : activity[<<c, ch>>] # <<>> =>
  children[<<c, ch>>] # None /\ (children[<<c, ch>>].created \/ children[<<c, ch>>].archived)
DecisionsMarked == FieldsMarked /\ ArchivesMarked /\ ChildrenMarked

(* The conjunction is inductive. *)
CustomerIInv == TypeOK /\ ReadyMeansImported /\ DecisionsMarked

(* What the activity log may say. *)
Said == Value \cup {"created", "archived"}

-----------------------------------------------------------------------------
(* What a snapshot says. *)

LEMMA ListedFact ==
  ASSUME NEW s \in Snapshot, NEW c \in Known(s)
  PROVE  FieldsIn(s, c) \in [Field -> Value]
<1> DEFINE R == [customer : Customer \cup {Blank}, fields : [Field -> Value]]
           x == Listed[s]
           i == CHOOSE i \in RowsOf(s, c) : TRUE
<1>1. x \in Seq(R) /\ \A r \in R : r.fields \in [Field -> Value]
  BY SnapshotAssumption
<1>2. i \in DOMAIN x
  BY DEF Known, RowsOf
<1>3. FieldsIn(s, c) = x[i].fields
  BY DEF FieldsIn
<1> HIDE DEF x, R, i
<1>4. x[i] \in R
  BY <1>1, <1>2
<1> QED
  BY <1>1, <1>3, <1>4

LEMMA ChildListedFact ==
  ASSUME NEW s \in Snapshot, NEW c, NEW ch, ChildRowsOf(s, c, ch) # {}
  PROVE  ValueIn(s, c, ch) \in Value
<1> DEFINE R == [customer : Customer \cup {Blank}, child : Source \cup {Blank}, value : Value]
           x == ChildRows[s]
           i == CHOOSE i \in ChildRowsOf(s, c, ch) : TRUE
<1>1. x \in Seq(R) /\ \A r \in R : r.value \in Value
  BY SnapshotAssumption
<1>2. i \in DOMAIN x
  BY DEF ChildRowsOf
<1>3. ValueIn(s, c, ch) = x[i].value
  BY DEF ValueIn
<1> HIDE DEF x, R, i
<1>4. x[i] \in R
  BY <1>1, <1>2
<1> QED
  BY <1>1, <1>3, <1>4

LEMMA RejectedTyped == ASSUME NEW s \in Snapshot PROVE Rejected(s) \subseteq (Customer \cup {Blank}) \X Reasons
<1>2. Known(s) \subseteq Customer /\ Admitted(s) \subseteq Customer
  BY DEF Known, Admitted
<1> QED
  BY <1>2 DEF Rejected, Reasons

-----------------------------------------------------------------------------
(* Reconciling a store with a snapshot. *)

LEMMA TakenFact ==
  ASSUME TypeOK, NEW s \in Snapshot, NEW c \in Admitted(s)
  PROVE  /\ Taken(s, c) \in CustomerRow /\ Taken(s, c) # None /\ ~Taken(s, c).created
         /\ customers[c] = None => ~Taken(s, c).archived /\ Taken(s, c).protected = {}
         /\ customers[c] # None => /\ Taken(s, c).archived = customers[c].archived
                                   /\ Taken(s, c).protected = customers[c].protected
                                   /\ \A f \in Field : f \in customers[c].protected =>
                                        Taken(s, c).fields[f] = customers[c].fields[f]
         /\ \A f \in Field : f \in Taken(s, c).protected \/ Taken(s, c).fields[f] = FieldsIn(s, c)[f]
<1> DEFINE x == FieldsIn(s, c)
           old == customers[c]
<1>1. c \in Customer /\ x \in [Field -> Value] /\ ~Created(c)
  BY ListedFact DEF Admitted, Known
<1>2. CASE old = None
  <2>1. Taken(s, c) = [created |-> FALSE, archived |-> FALSE, fields |-> x, protected |-> {}]
    BY <1>2 DEF Taken
  <2> HIDE DEF x
  <2>2. Taken(s, c) \in CustomerRow
    BY <1>1, <2>1 DEF CustomerRow
  <2>3. /\ ~Taken(s, c).created /\ ~Taken(s, c).archived
        /\ Taken(s, c).protected = {} /\ Taken(s, c).fields = x
    BY <2>1
  <2>4. Taken(s, c) # None
    BY <2>2, NoneAssumption
  <2> QED
    BY <1>2, <2>2, <2>3, <2>4 DEF x
<1>3. CASE old # None
  <2>1. old \in CustomerRow /\ ~old.created
    BY <1>1, <1>3 DEF TypeOK, Created
  <2> DEFINE fields == [f \in Field |-> IF f \in old.protected THEN old.fields[f] ELSE x[f]]
  <2>2. Taken(s, c) = [old EXCEPT !.fields = fields]
    BY <1>3 DEF Taken
  <2>3. fields \in [Field -> Value] /\ \A f \in Field : fields[f] = IF f \in old.protected THEN old.fields[f] ELSE x[f]
    <3> HIDE DEF x, old
    <3> QED
      BY <1>1, <2>1 DEF CustomerRow
  <2>4. old = customers[c]
    OBVIOUS
  <2> HIDE DEF fields, old, x
  <2>5. /\ Taken(s, c) \in CustomerRow /\ ~Taken(s, c).created /\ Taken(s, c).fields = fields
        /\ Taken(s, c).archived = old.archived /\ Taken(s, c).protected = old.protected
    BY <2>1, <2>2, <2>3 DEF CustomerRow
  <2>6. Taken(s, c) # None
    BY <2>5, NoneAssumption
  <2> QED
    BY <1>3, <2>3, <2>4, <2>5, <2>6 DEF x
<1> QED
  BY <1>2, <1>3

ListedChild(s, c, ch) == ChildRowsOf(s, c, ch) # {} /\ ~Malformed(s, c, GroupOf(ch))

LEMMA TakenChildFact ==
  ASSUME TypeOK, NEW s \in Snapshot, NEW c \in Customer, NEW ch \in Child
  PROVE  LET new == TakenChild(s, c, ch)  old == children[<<c, ch>>] IN
         /\ new \in ChildRow \cup {None}
         /\ old # None => new # None /\ (old.created \/ old.archived => new = old)
         /\ ListedChild(s, c, ch) => new # None
         /\ new # None /\ ~new.archived /\ ~new.created => ListedChild(s, c, ch) /\ new.value = ValueIn(s, c, ch)
<1> DEFINE new == TakenChild(s, c, ch)
           old == children[<<c, ch>>]
           listed == ListedChild(s, c, ch)
           v == ValueIn(s, c, ch)
<1>1. old \in ChildRow \cup {None}
  BY DEF TypeOK
<1>2. listed => v \in Value
  BY ChildListedFact DEF ListedChild
<1>3. new = IF listed /\ old = None THEN [created |-> FALSE, archived |-> FALSE, value |-> v]
            ELSE IF old = None \/ old.created \/ old.archived THEN old
            ELSE IF listed THEN [old EXCEPT !.value = v]
            ELSE [old EXCEPT !.archived = TRUE]
  BY DEF TakenChild, ListedChild
<1> SUFFICES /\ new \in ChildRow \cup {None}
             /\ old # None => new # None /\ (old.created \/ old.archived => new = old)
             /\ listed => new # None
             /\ new # None /\ ~new.archived /\ ~new.created => listed /\ new.value = v
  OBVIOUS
<1> HIDE DEF new, old, listed, v
<1>4. CASE listed /\ old = None
  <2>1. new = [created |-> FALSE, archived |-> FALSE, value |-> v]
    BY <1>3, <1>4
  <2>2. new \in ChildRow /\ new.value = v
    BY <1>2, <1>4, <2>1 DEF ChildRow
  <2> QED
    BY <1>4, <2>2, NoneAssumption
<1>5. CASE ~(listed /\ old = None) /\ (old = None \/ old.created \/ old.archived)
  <2>1. new = old
    BY <1>3, <1>5, Zenon
  <2> QED
    BY <1>1, <1>5, <2>1
<1>6. CASE old # None /\ ~old.created /\ ~old.archived /\ listed
  <2>1. new = [old EXCEPT !.value = v]
    BY <1>3, <1>6
  <2>2. new \in ChildRow /\ new.value = v
    BY <1>1, <1>2, <1>6, <2>1 DEF ChildRow
  <2> QED
    BY <1>6, <2>2, NoneAssumption
<1>7. CASE old # None /\ ~old.created /\ ~old.archived /\ ~listed
  <2>1. new = [old EXCEPT !.archived = TRUE]
    BY <1>3, <1>7
  <2>2. new \in ChildRow /\ new.archived
    BY <1>1, <1>7, <2>1 DEF ChildRow
  <2> QED
    BY <1>7, <2>2, NoneAssumption
<1> QED
  BY <1>4, <1>5, <1>6, <1>7

-----------------------------------------------------------------------------
(* What a reconciled store shows of its snapshot. *)

ShowsCustomers(s) == \A c \in Customer :
  /\ c \in Admitted(s) => customers[c] # None /\
       \A f \in Field : f \in customers[c].protected \/ customers[c].fields[f] = FieldsIn(s, c)[f]
  /\ c \notin Admitted(s) /\ customers[c] # None => customers[c].created \/ customers[c].archived
ShowsChild(s, c, ch) ==
  /\ ListedChild(s, c, ch) => children[<<c, ch>>] # None
  /\ children[<<c, ch>>] # None /\ ~children[<<c, ch>>].archived /\ ~children[<<c, ch>>].created =>
       ListedChild(s, c, ch) /\ children[<<c, ch>>].value = ValueIn(s, c, ch)
ShowsChildren(s) == \A c \in Admitted(s), ch \in Source : ShowsChild(s, c, ch)

LEMMA ReadyFact ==
  ReadyMeansImported <=>
    (reconciled # None => /\ quarantine = Rejected(reconciled)
                          /\ ShowsCustomers(reconciled) /\ ShowsChildren(reconciled))
<1>1. \A s : (\A c \in Admitted(s), ch \in Source :
         LET listed == ChildRowsOf(s, c, ch) # {} /\ ~Malformed(s, c, GroupOf(ch)) IN
         /\ listed => children[<<c, ch>>] # None
         /\ IsActive(c, ch) /\ ~children[<<c, ch>>].created => listed /\ children[<<c, ch>>].value = ValueIn(s, c, ch))
      <=> ShowsChildren(s)
  BY DEF ShowsChildren, ShowsChild, ListedChild, IsActive
<1> HIDE DEF ShowsChildren
<1> QED
  BY <1>1 DEF ReadyMeansImported, ShowsCustomers

LEMMA NextReadyFact ==
  ASSUME NEW s, reconciled' = s, quarantine' = Rejected(s)', ShowsCustomers(s)', ShowsChildren(s)'
  PROVE  ReadyMeansImported'
<1>1. (reconciled # None => /\ quarantine = Rejected(reconciled)
                            /\ ShowsCustomers(reconciled) /\ ShowsChildren(reconciled))'
  BY DEF ShowsCustomers, ShowsChildren, ShowsChild, Rejected, Admitted
<1> QED
  BY <1>1, ReadyFact, PTL

(* What a snapshot is let to change depends on what staff created alone. *)
LEMMA AdmittedStays ==
  ASSUME NEW s, \A c \in Known(s) : Cardinality(RowsOf(s, c)) = 1 => (Created(c)' <=> Created(c))
  PROVE  Admitted(s)' = Admitted(s) /\ Rejected(s)' = Rejected(s)
<1>1. Admitted(s)' = Admitted(s)
  BY DEF Admitted
<1> DEFINE R(A) ==
  {<<Blank, "blank_customer_id">> : i \in RowsOf(s, Blank)} \cup
  {<<c, IF Cardinality(RowsOf(s, c)) > 1 THEN "duplicate_customer_id" ELSE "source_collision_core_created">> :
     c \in Known(s) \ A} \cup
  {<<c, "malformed_child">> : c \in {d \in A : \E g \in Groups : Malformed(s, d, g)}} \cup
  {<<c, "orphan_child">> : c \in {d \in Customer \ Known(s) : \E ch \in Source \cup {Blank} : ChildRowsOf(s, d, ch) # {}}}
<1>2. Rejected(s) = R(Admitted(s))
  BY DEF Rejected
<1>3. Rejected(s)' = R(Admitted(s)')
  BY DEF Rejected
<1> HIDE DEF R
<1> QED
  BY <1>1, <1>2, <1>3, Zenon

LEMMA BackfillGives ==
  ASSUME TypeOK, NEW s \in Snapshot, Backfill(s)
  PROVE  /\ customers' \in [Customer -> CustomerRow \cup {None}]
         /\ children' \in [Customer \X Child -> ChildRow \cup {None}]
         /\ \A c \in Customer :
              customers'[c] = IF c \in Admitted(s) THEN Taken(s, c)
                              ELSE IF customers[c] = None \/ Created(c) THEN customers[c]
                              ELSE [customers[c] EXCEPT !.archived = TRUE]
         /\ \A c \in Customer, ch \in Child :
              children'[<<c, ch>>] = IF c \in Admitted(s) /\ ch \in Source THEN TakenChild(s, c, ch)
                                     ELSE children[<<c, ch>>]
<1> DEFINE new(c) == IF c \in Admitted(s) THEN Taken(s, c)
                     ELSE IF customers[c] = None \/ Created(c) THEN customers[c]
                     ELSE [customers[c] EXCEPT !.archived = TRUE]
           kid(k) == IF k[1] \in Admitted(s) /\ k[2] \in Source THEN TakenChild(s, k[1], k[2]) ELSE children[k]
<1>1. customers' = [c \in Customer |-> new(c)] /\ children' = [k \in Customer \X Child |-> kid(k)]
  BY DEF Backfill
<1>2. ASSUME NEW c \in Customer PROVE new(c) \in CustomerRow \cup {None}
  <2>1. CASE c \in Admitted(s)
    BY <2>1, TakenFact
  <2>2. CASE c \notin Admitted(s) /\ (customers[c] = None \/ Created(c))
    BY <2>2 DEF TypeOK
  <2>3. CASE c \notin Admitted(s) /\ ~(customers[c] = None \/ Created(c))
    <3>1. customers[c] \in CustomerRow
      BY <2>3 DEF TypeOK
    <3>2. [customers[c] EXCEPT !.archived = TRUE] \in CustomerRow
      BY <3>1 DEF CustomerRow
    <3> QED
      BY <2>3, <3>2
  <2> QED
    BY <2>1, <2>2, <2>3
<1>3. ASSUME NEW k \in Customer \X Child PROVE kid(k) \in ChildRow \cup {None}
  <2>1. k[1] \in Customer /\ k[2] \in Child /\ children[k] \in ChildRow \cup {None}
    BY DEF TypeOK
  <2>2. TakenChild(s, k[1], k[2]) \in ChildRow \cup {None}
    BY <2>1, TakenChildFact
  <2> QED
    BY <2>1, <2>2
<1>4. \A c \in Customer, ch \in Child : kid(<<c, ch>>) =
        IF c \in Admitted(s) /\ ch \in Source THEN TakenChild(s, c, ch) ELSE children[<<c, ch>>]
  OBVIOUS
<1> HIDE DEF new, kid
<1>5. \A c \in Customer : customers'[c] = new(c)
  BY <1>1
<1>6. \A c \in Customer, ch \in Child : children'[<<c, ch>>] = kid(<<c, ch>>)
  BY <1>1
<1>7. customers' \in [Customer -> CustomerRow \cup {None}] /\ children' \in [Customer \X Child -> ChildRow \cup {None}]
  BY <1>1, <1>2, <1>3
<1> QED
  BY <1>4, <1>5, <1>6, <1>7 DEF new

(* What reconciling makes of a customer: it stays, created or not, and      *)
(* archived or not if staff archived it, and what staff edited stays.       *)
LEMMA BackfillCustomer ==
  ASSUME TypeOK, NEW s \in Snapshot, Backfill(s), NEW c \in Customer
  PROVE  /\ Created(c)' <=> Created(c)
         /\ Created(c) => customers'[c] = customers[c]
         /\ customers[c] # None =>
              /\ customers'[c] # None
              /\ customers'[c].created = customers[c].created
              /\ customers'[c].protected = customers[c].protected
              /\ customers[c].archived => customers'[c].archived
              /\ \A f \in Field : f \in customers[c].protected => customers'[c].fields[f] = customers[c].fields[f]
<1> DEFINE old == customers[c]
           new == customers'[c]
<1>1. new = IF c \in Admitted(s) THEN Taken(s, c)
            ELSE IF old = None \/ Created(c) THEN old
            ELSE [old EXCEPT !.archived = TRUE]
  BY BackfillGives
<1>2. Created(c) <=> old # None /\ old.created
  BY DEF Created
<1>3. Created(c)' <=> new # None /\ new.created
  BY DEF Created
<1>4. CASE c \in Admitted(s)
  <2>1. new = Taken(s, c) /\ ~Created(c)
    BY <1>1, <1>4 DEF Admitted
  <2>2. /\ new # None /\ ~new.created
        /\ old # None => /\ new.archived = old.archived /\ new.protected = old.protected
                         /\ \A f \in Field : f \in old.protected => new.fields[f] = old.fields[f]
    BY <1>4, <2>1, TakenFact
  <2>3. old # None => old.created \in BOOLEAN /\ new.created \in BOOLEAN
    <3>1. old # None => old \in CustomerRow
      BY DEF TypeOK
    <3>2. new \in CustomerRow
      BY <1>4, <2>1, TakenFact
    <3> QED
      BY <3>1, <3>2 DEF CustomerRow
  <2> HIDE DEF old, new
  <2>4. old # None => ~old.created
    BY <1>2, <2>1
  <2>5. old # None => new.created = old.created
    BY <2>2, <2>3, <2>4
  <2>6. (Created(c)' <=> Created(c)) /\ ~Created(c)
    BY <1>3, <2>1, <2>2
  <2> QED
    BY <2>2, <2>5, <2>6 DEF old, new
<1>5. CASE c \notin Admitted(s) /\ (old = None \/ Created(c))
  BY <1>1, <1>2, <1>3, <1>5
<1>6. CASE c \notin Admitted(s) /\ old # None /\ ~Created(c)
  <2>1. old \in CustomerRow
    BY <1>6 DEF TypeOK
  <2>2. new = [old EXCEPT !.archived = TRUE]
    BY <1>1, <1>6
  <2> HIDE DEF old, new
  <2>3. /\ new \in CustomerRow /\ new.created = old.created /\ new.protected = old.protected
        /\ new.archived /\ new.fields = old.fields
    BY <2>1, <2>2 DEF CustomerRow
  <2>4. new # None
    BY <2>3, NoneAssumption
  <2>5. (Created(c)' <=> Created(c)) /\ ~Created(c)
    BY <1>2, <1>3, <1>6, <2>3, <2>4
  <2> QED
    BY <1>6, <2>3, <2>4, <2>5 DEF old, new
<1> QED
  BY <1>4, <1>5, <1>6

LEMMA BackfillStep ==
  ASSUME CustomerIInv, NEW s \in Snapshot, Backfill(s), activity' = activity, source' \in Snapshot
  PROVE  CustomerIInv'
<1> TypeOK /\ DecisionsMarked
  BY DEF CustomerIInv
<1>1. /\ customers' \in [Customer -> CustomerRow \cup {None}]
      /\ children' \in [Customer \X Child -> ChildRow \cup {None}]
      /\ \A c \in Customer :
           customers'[c] = IF c \in Admitted(s) THEN Taken(s, c)
                           ELSE IF customers[c] = None \/ Created(c) THEN customers[c]
                           ELSE [customers[c] EXCEPT !.archived = TRUE]
      /\ \A c \in Customer, ch \in Child :
           children'[<<c, ch>>] = IF c \in Admitted(s) /\ ch \in Source THEN TakenChild(s, c, ch)
                                  ELSE children[<<c, ch>>]
  BY BackfillGives
<1>2. quarantine' = Rejected(s) /\ reconciled' = s
  BY DEF Backfill
<1>3. Admitted(s)' = Admitted(s) /\ Rejected(s)' = Rejected(s)
  <2>1. \A c \in Known(s) : Created(c)' <=> Created(c)
    BY BackfillCustomer DEF Known
  <2> QED
    BY <2>1, AdmittedStays
<1>4. ShowsCustomers(s)'
  <2>1. ASSUME NEW c \in Customer, c \in Admitted(s)
        PROVE  customers'[c] # None /\
                 \A f \in Field : f \in customers'[c].protected \/ customers'[c].fields[f] = FieldsIn(s, c)[f]
    <3>1. customers'[c] = Taken(s, c)
      BY <1>1, <2>1
    <3> QED
      BY <2>1, <3>1, TakenFact
  <2>2. ASSUME NEW c \in Customer, c \notin Admitted(s), customers'[c] # None
        PROVE  customers'[c].created \/ customers'[c].archived
    <3>1. CASE Created(c)
      BY <3>1, <2>2, BackfillCustomer DEF Created
    <3>2. CASE ~Created(c)
      <4>1. customers[c] # None /\ customers'[c] = [customers[c] EXCEPT !.archived = TRUE]
        BY <1>1, <2>2, <3>2
      <4>2. customers[c] \in CustomerRow
        BY <4>1 DEF TypeOK
      <4> QED
        BY <4>1, <4>2 DEF CustomerRow
    <3> QED
      BY <3>1, <3>2
  <2> QED
    BY <1>3, <2>1, <2>2 DEF ShowsCustomers
<1>5. ShowsChildren(s)'
  <2> SUFFICES ASSUME NEW c \in Admitted(s), NEW ch \in Source PROVE ShowsChild(s, c, ch)'
    BY <1>3 DEF ShowsChildren
  <2>1. c \in Customer /\ ch \in Child
    BY DEF Admitted, Known, Child
  <2>2. children'[<<c, ch>>] = TakenChild(s, c, ch)
    BY <1>1, <2>1
  <2> QED
    BY <2>1, <2>2, TakenChildFact DEF ShowsChild
<1>6. ReadyMeansImported'
  BY <1>2, <1>3, <1>4, <1>5, NextReadyFact
<1>7. \A c \in Customer : customers[c] # None => customers'[c] # None
  BY BackfillCustomer
<1>8. ASSUME NEW c \in Customer, NEW ch \in Child, children'[<<c, ch>>] # None PROVE customers'[c] # None
  <2>1. CASE c \in Admitted(s)
    BY <1>1, <2>1, TakenFact
  <2>2. CASE c \notin Admitted(s)
    <3>1. children[<<c, ch>>] # None
      BY <1>1, <1>8, <2>2
    <3>2. customers[c] # None
      <4>1. <<c, ch>> \in Customer \X Child
        OBVIOUS
      <4> QED
        BY <3>1, <4>1 DEF TypeOK
    <3> QED
      BY <1>7, <3>2
  <2> QED
    BY <2>1, <2>2
<1>9. TypeOK'
  <2>1. \A k \in Customer \X Child : children'[k] # None => customers'[k[1]] # None
    BY <1>8
  <2> QED
    BY <1>1, <1>2, <2>1, RejectedTyped DEF TypeOK
<1>10. FieldsMarked' /\ ArchivesMarked'
  <2>1. ASSUME NEW c \in Customer, NEW f \in Field, activity[<<c, f>>] # <<>>
        PROVE  customers'[c] # None /\ (customers'[c].created \/ f \in customers'[c].protected)
    <3>1. customers[c] # None /\ (customers[c].created \/ f \in customers[c].protected)
      BY <2>1 DEF DecisionsMarked, FieldsMarked
    <3> QED
      BY <3>1, BackfillCustomer
  <2>2. ASSUME NEW c \in Customer, activity[<<c, "archived">>] # <<>>
        PROVE  customers'[c] # None /\ customers'[c].archived
    <3>1. customers[c] # None /\ customers[c].archived
      BY <2>2 DEF DecisionsMarked, ArchivesMarked
    <3> QED
      BY <3>1, BackfillCustomer
  <2> QED
    BY <2>1, <2>2 DEF FieldsMarked, ArchivesMarked
<1>11. ChildrenMarked'
  <2> SUFFICES ASSUME NEW c \in Customer, NEW ch \in Child, activity[<<c, ch>>] # <<>>
               PROVE  children'[<<c, ch>>] = children[<<c, ch>>]
    BY DEF DecisionsMarked, ChildrenMarked
  <2>1. children[<<c, ch>>] # None /\ (children[<<c, ch>>].created \/ children[<<c, ch>>].archived)
    BY DEF DecisionsMarked, ChildrenMarked
  <2> QED
    BY <1>1, <2>1, TakenChildFact
<1> QED
  BY <1>6, <1>9, <1>10, <1>11 DEF CustomerIInv, DecisionsMarked

-----------------------------------------------------------------------------
(* What staff ask for. *)

LEMMA AuditGives ==
  ASSUME TypeOK, NEW c \in Customer, NEW after, \A q \in DOMAIN after : after[q] \in Said, Audit(c, after)
  PROVE  /\ activity' \in [Customer \X Part -> Seq(Said)]
         /\ \A k \in Customer \X Part : activity'[k] =
              IF k[1] = c /\ k[2] \in DOMAIN after THEN Append(activity[k], after[k[2]]) ELSE activity[k]
         /\ UNCHANGED <<quarantine, reconciled, source>>
<1>1. activity \in [Customer \X Part -> Seq(Said)]
  BY DEF TypeOK, Said
<1>2. activity' = [k \in Customer \X Part |->
    IF k[1] = c /\ k[2] \in DOMAIN after THEN Append(activity[k], after[k[2]]) ELSE activity[k]]
  BY DEF Audit
<1>3. \A k \in Customer \X Part :
    (IF k[1] = c /\ k[2] \in DOMAIN after THEN Append(activity[k], after[k[2]]) ELSE activity[k]) \in Seq(Said)
  BY <1>1, AppendProperties
<1>4. UNCHANGED <<quarantine, reconciled, source>>
  BY DEF Audit
<1> HIDE DEF Said
<1> QED
  BY <1>2, <1>3, <1>4

(* A change of a customer: the columns and the mark it sets, and it logs.   *)
CustomerChange(c, after) ==
  /\ c \in Customer /\ customers' \in [Customer -> CustomerRow \cup {None}] /\ customers'[c] # None
  /\ \A d \in Customer \ {c} : customers'[d] = customers[d]
  /\ customers[c] = None => customers'[c].created /\ "archived" \notin DOMAIN after
  /\ customers[c] # None =>
       /\ customers'[c].created = customers[c].created
       /\ customers'[c].protected = customers[c].protected \cup (DOMAIN after \cap Field)
       /\ customers'[c].archived = (customers[c].archived \/ "archived" \in DOMAIN after)
       /\ \A f \in Field \ DOMAIN after : customers'[c].fields[f] = customers[c].fields[f]
       /\ \A f \in Field \cap DOMAIN after : customers'[c].fields[f] = after[f]
       /\ "archived" \in DOMAIN after => after["archived"] = "archived"
  /\ DOMAIN after \subseteq Field \cup {"archived"} /\ \A q \in DOMAIN after : after[q] \in Said
  /\ Audit(c, after) /\ children' = children

(* A change of what belongs to a customer. *)
ChildChange(c, ch, after) ==
  /\ c \in Customer /\ ch \in Child /\ customers[c] # None /\ customers' = customers
  /\ children' \in [Customer \X Child -> ChildRow \cup {None}]
  /\ \A k \in Customer \X Child : k # <<c, ch>> => children'[k] = children[k]
  /\ children'[<<c, ch>>] # None /\ (children'[<<c, ch>>].created \/ children'[<<c, ch>>].archived)
  /\ after = IF children'[<<c, ch>>].archived THEN "archived" ELSE children'[<<c, ch>>].value
  /\ after \in Said
  /\ Audit(c, [p \in {ch} |-> after])

LEMMA CreateGives ==
  ASSUME TypeOK, NEW c \in Customer, NEW fields \in [Field -> Value], Create(c, fields)
  PROVE  CustomerChange(c, [p \in Field |-> "created"])
<1> DEFINE new == [created |-> TRUE, archived |-> FALSE, fields |-> fields, protected |-> {}]
           after == [p \in Field |-> "created"]
<1>1. /\ customers[c] = None /\ customers' = [customers EXCEPT ![c] = new]
      /\ Audit(c, after) /\ children' = children
  BY DEF Create
<1>2. new \in CustomerRow /\ new.created
  BY DEF CustomerRow
<1> HIDE DEF new
<1>3. new # None /\ customers \in [Customer -> CustomerRow \cup {None}]
  BY <1>2, NoneAssumption DEF TypeOK
<1>4. /\ customers' \in [Customer -> CustomerRow \cup {None}] /\ customers'[c] = new
      /\ \A d \in Customer \ {c} : customers'[d] = customers[d]
  BY <1>1, <1>2, <1>3
<1>5. DOMAIN after = Field /\ \A q \in DOMAIN after : after[q] \in Said
  BY DEF Said
<1>6. "archived" \notin DOMAIN after
  BY <1>5, PartAssumption
<1> HIDE DEF after
<1>7. CustomerChange(c, after)
  BY <1>1, <1>2, <1>3, <1>4, <1>5, <1>6 DEF CustomerChange
<1> QED
  BY <1>7 DEF after

LEMMA EditGives ==
  ASSUME TypeOK, NEW c \in Customer, NEW changes \in Changes, Edit(c, changes)
  PROVE  CustomerChange(c, changes)
<1>1. DOMAIN changes \subseteq Field /\ \A f \in DOMAIN changes : changes[f] \in Value
  BY DEF Changes
<1> DEFINE old == customers[c]
           fields == [f \in Field |-> IF f \in DOMAIN changes THEN changes[f] ELSE old.fields[f]]
           marks == old.protected \cup DOMAIN changes
           new == [old EXCEPT !.fields = fields, !.protected = marks]
<1>2. old # None /\ Audit(c, changes) /\ children' = children
  BY DEF Edit
<1>3. old \in CustomerRow /\ customers \in [Customer -> CustomerRow \cup {None}]
  BY <1>2 DEF TypeOK
<1>4. customers' = [customers EXCEPT ![c] = new]
  BY <1>3 DEF Edit, CustomerRow
<1>5. /\ fields \in [Field -> Value]
      /\ \A f \in Field : fields[f] = IF f \in DOMAIN changes THEN changes[f] ELSE old.fields[f]
  <2> HIDE DEF old
  <2> QED
    BY <1>1, <1>3 DEF CustomerRow
<1>6. marks \in SUBSET Field /\ marks = old.protected \cup (DOMAIN changes \cap Field)
  <2> HIDE DEF old
  <2> QED
    BY <1>1, <1>3 DEF CustomerRow
<1>7. old = customers[c]
  OBVIOUS
<1> HIDE DEF old, fields, marks
<1>8. /\ new \in CustomerRow /\ new.created = old.created /\ new.archived = old.archived
      /\ new.fields = fields /\ new.protected = marks
  BY <1>3, <1>5, <1>6 DEF CustomerRow
<1> HIDE DEF new
<1>9. new # None
  BY <1>8, NoneAssumption
<1>10. /\ customers' \in [Customer -> CustomerRow \cup {None}] /\ customers'[c] = new
       /\ \A d \in Customer \ {c} : customers'[d] = customers[d]
  BY <1>3, <1>4, <1>8
<1>11. "archived" \notin DOMAIN changes /\ \A q \in DOMAIN changes : changes[q] \in Said
  BY <1>1, PartAssumption DEF Said
<1>12. new.archived = (old.archived \/ "archived" \in DOMAIN changes)
  BY <1>3, <1>8, <1>11 DEF CustomerRow
<1>13. /\ \A f \in Field \ DOMAIN changes : new.fields[f] = old.fields[f]
       /\ \A f \in Field \cap DOMAIN changes : new.fields[f] = changes[f]
  BY <1>5, <1>8
<1> QED
  BY <1>1, <1>2, <1>6, <1>7, <1>8, <1>9, <1>10, <1>11, <1>12, <1>13 DEF CustomerChange

LEMMA ArchiveGives ==
  ASSUME TypeOK, NEW c \in Customer, Archive(c)
  PROVE  CustomerChange(c, [p \in {"archived"} |-> "archived"])
<1> DEFINE old == customers[c]
           new == [old EXCEPT !.archived = TRUE]
           after == [p \in {"archived"} |-> "archived"]
<1>1. old # None /\ customers' = [customers EXCEPT ![c] = new] /\ Audit(c, after) /\ children' = children
  BY DEF Archive
<1>2. old \in CustomerRow /\ customers \in [Customer -> CustomerRow \cup {None}] /\ old = customers[c]
  BY <1>1 DEF TypeOK
<1>3. DOMAIN after = {"archived"} /\ after["archived"] = "archived" /\ \A q \in DOMAIN after : after[q] \in Said
  BY DEF Said
<1> HIDE DEF old, after
<1>4. /\ new \in CustomerRow /\ new.created = old.created /\ new.archived = TRUE
      /\ new.fields = old.fields /\ new.protected = old.protected
  BY <1>2 DEF CustomerRow
<1> HIDE DEF new
<1>5. new # None
  BY <1>4, NoneAssumption
<1>6. /\ customers' \in [Customer -> CustomerRow \cup {None}] /\ customers'[c] = new
      /\ \A d \in Customer \ {c} : customers'[d] = customers[d]
  BY <1>1, <1>2, <1>4
<1>7. DOMAIN after \cap Field = {} /\ "archived" \in DOMAIN after
  BY <1>3, PartAssumption
<1>8. /\ new.archived = (old.archived \/ "archived" \in DOMAIN after)
      /\ new.protected = old.protected \cup (DOMAIN after \cap Field)
  BY <1>4, <1>7
<1>9. CustomerChange(c, after)
  BY <1>1, <1>2, <1>3, <1>4, <1>5, <1>6, <1>7, <1>8 DEF CustomerChange
<1> QED
  BY <1>9 DEF after

LEMMA SetChildGives ==
  ASSUME TypeOK, NEW c \in Customer, NEW ch \in Child, NEW v \in Value, customers[c] # None, SetChild(c, ch, v)
  PROVE  ChildChange(c, ch, v)
<1> DEFINE new == [created |-> TRUE, archived |-> FALSE, value |-> v]
           i == <<c, ch>>
<1>1. /\ children' = [children EXCEPT ![i] = new] /\ customers' = customers
      /\ Audit(c, [p \in {ch} |-> v])
  BY DEF SetChild
<1>2. new \in ChildRow /\ new.created /\ ~new.archived /\ new.value = v
  BY DEF ChildRow
<1>3. i \in Customer \X Child /\ children \in [Customer \X Child -> ChildRow \cup {None}]
  BY DEF TypeOK
<1> HIDE DEF new
<1>4. new # None
  BY <1>2, NoneAssumption
<1>5. i = <<c, ch>> /\ v \in Said
  BY DEF Said
<1> HIDE DEF i
<1>6. /\ children' \in [Customer \X Child -> ChildRow \cup {None}] /\ children'[i] = new
      /\ \A k \in Customer \X Child : k # i => children'[k] = children[k]
  BY <1>1, <1>2, <1>3
<1> QED
  BY <1>1, <1>2, <1>4, <1>5, <1>6 DEF ChildChange

LEMMA ArchiveChildGives ==
  ASSUME TypeOK, NEW c \in Customer, NEW ch \in Child, ArchiveChild(c, ch)
  PROVE  ChildChange(c, ch, "archived")
<1> DEFINE i == <<c, ch>>
           old == children[i]
           new == [old EXCEPT !.archived = TRUE]
<1>1. /\ old # None /\ children' = [children EXCEPT ![i] = new] /\ customers' = customers
      /\ Audit(c, [p \in {ch} |-> "archived"])
  BY DEF ArchiveChild, IsActive
<1>2. i \in Customer \X Child /\ children \in [Customer \X Child -> ChildRow \cup {None}]
  BY DEF TypeOK
<1>3. customers[c] # None
  BY <1>1, <1>2 DEF TypeOK
<1>4. old \in ChildRow
  BY <1>1, <1>2
<1>5. i = <<c, ch>> /\ "archived" \in Said
  BY DEF Said
<1> HIDE DEF old, i
<1>6. new \in ChildRow /\ new.archived
  BY <1>4 DEF ChildRow
<1> HIDE DEF new
<1>7. new # None
  BY <1>6, NoneAssumption
<1>8. /\ children' \in [Customer \X Child -> ChildRow \cup {None}] /\ children'[i] = new
      /\ \A k \in Customer \X Child : k # i => children'[k] = children[k]
  BY <1>1, <1>2, <1>6
<1> QED
  BY <1>1, <1>3, <1>5, <1>6, <1>7, <1>8 DEF ChildChange

LEMMA CustomerChangeStep ==
  ASSUME CustomerIInv, NEW c, NEW after, CustomerChange(c, after)
  PROVE  CustomerIInv'
<1> TypeOK /\ DecisionsMarked /\ ReadyMeansImported
  BY DEF CustomerIInv
<1>1. /\ activity' \in [Customer \X Part -> Seq(Said)]
      /\ \A k \in Customer \X Part : activity'[k] =
           IF k[1] = c /\ k[2] \in DOMAIN after THEN Append(activity[k], after[k[2]]) ELSE activity[k]
      /\ UNCHANGED <<quarantine, reconciled, source>>
  BY AuditGives DEF CustomerChange
<1>2. c \in Customer /\ customers' \in [Customer -> CustomerRow \cup {None}] /\ children' = children
      /\ customers'[c] # None /\ \A d \in Customer \ {c} : customers'[d] = customers[d]
  BY DEF CustomerChange
<1>3. TypeOK'
  <2>1. \A k \in Customer \X Child : children[k] # None => customers'[k[1]] # None
    BY <1>2 DEF TypeOK
  <2> QED
    BY <1>1, <1>2, <2>1 DEF TypeOK, Said
<1>4. ReadyMeansImported'
  <2> SUFFICES ASSUME reconciled # None PROVE ReadyMeansImported'
    BY <1>1 DEF ReadyMeansImported
  <2>1. PICK s : s = reconciled
    OBVIOUS
  <2>2. quarantine = Rejected(s) /\ ShowsCustomers(s) /\ ShowsChildren(s)
    BY <2>1, ReadyFact
  <2>3. ASSUME NEW d \in Known(s), Cardinality(RowsOf(s, d)) = 1 PROVE Created(d)' <=> Created(d)
    <3>1. d \in Customer
      BY DEF Known
    <3>2. CASE customers[d] = None
      <4>1. d \in Admitted(s)
        BY <2>3, <3>2 DEF Admitted, Created
      <4> QED
        BY <2>2, <3>1, <3>2, <4>1 DEF ShowsCustomers
    <3>3. CASE d = c /\ customers[d] # None
      BY <3>3 DEF CustomerChange, Created
    <3>4. CASE d # c
      BY <1>2, <3>1, <3>4 DEF Created
    <3> QED
      BY <3>2, <3>3, <3>4
  <2>4. Admitted(s)' = Admitted(s) /\ Rejected(s)' = Rejected(s)
    BY <2>3, AdmittedStays
  <2>5. ASSUME NEW d \in Customer, d \in Admitted(s)
        PROVE  customers'[d] # None /\
                 \A f \in Field : f \in customers'[d].protected \/ customers'[d].fields[f] = FieldsIn(s, d)[f]
    <3>1. customers[d] # None /\
            \A f \in Field : f \in customers[d].protected \/ customers[d].fields[f] = FieldsIn(s, d)[f]
      BY <2>2, <2>5 DEF ShowsCustomers
    <3>2. CASE d = c
      <4>1. ASSUME NEW f \in Field, f \notin customers'[c].protected
            PROVE  customers'[c].fields[f] = customers[c].fields[f] /\ f \notin customers[c].protected
        BY <3>1, <3>2, <4>1 DEF CustomerChange
      <4> QED
        BY <1>2, <3>1, <3>2, <4>1
    <3>3. CASE d # c
      BY <1>2, <3>1, <3>3
    <3> QED
      BY <3>2, <3>3
  <2>6. ASSUME NEW d \in Customer, d \notin Admitted(s), customers'[d] # None
        PROVE  customers'[d].created \/ customers'[d].archived
    <3>1. CASE d = c
      BY <2>2, <2>6, <3>1 DEF ShowsCustomers, CustomerChange
    <3>2. CASE d # c
      BY <1>2, <2>2, <2>6, <3>2 DEF ShowsCustomers
    <3> QED
      BY <3>1, <3>2
  <2>7. ShowsCustomers(s)'
    BY <2>4, <2>5, <2>6 DEF ShowsCustomers
  <2>8. ShowsChildren(s)'
    BY <1>2, <2>2, <2>4 DEF ShowsChildren, ShowsChild
  <2> QED
    BY <1>1, <2>1, <2>2, <2>4, <2>7, <2>8, NextReadyFact
<1>5. ASSUME NEW d \in Customer, NEW f \in Field, activity'[<<d, f>>] # <<>>
      PROVE  customers'[d] # None /\ (customers'[d].created \/ f \in customers'[d].protected)
  <2>1. <<d, f>> \in Customer \X Part
    BY DEF Part
  <2>2. CASE d = c /\ f \in DOMAIN after
    BY <2>2 DEF CustomerChange
  <2>3. CASE ~(d = c /\ f \in DOMAIN after)
    <3>1. activity[<<d, f>>] # <<>>
      BY <1>1, <1>5, <2>1, <2>3
    <3>2. customers[d] # None /\ (customers[d].created \/ f \in customers[d].protected)
      BY <3>1 DEF DecisionsMarked, FieldsMarked
    <3> QED
      BY <3>2 DEF CustomerChange
  <2> QED
    BY <2>2, <2>3
<1>6. ASSUME NEW d \in Customer, activity'[<<d, "archived">>] # <<>>
      PROVE  customers'[d] # None /\ customers'[d].archived
  <2>1. <<d, "archived">> \in Customer \X Part
    BY DEF Part
  <2>2. CASE d = c /\ "archived" \in DOMAIN after
    BY <2>2 DEF CustomerChange
  <2>3. CASE ~(d = c /\ "archived" \in DOMAIN after)
    <3>1. activity[<<d, "archived">>] # <<>>
      BY <1>1, <1>6, <2>1, <2>3
    <3>2. customers[d] # None /\ customers[d].archived
      BY <3>1 DEF DecisionsMarked, ArchivesMarked
    <3> QED
      BY <3>2 DEF CustomerChange
  <2> QED
    BY <2>2, <2>3
<1>7. ASSUME NEW d \in Customer, NEW ch \in Child, activity'[<<d, ch>>] # <<>>
      PROVE  children'[<<d, ch>>] # None /\ (children'[<<d, ch>>].created \/ children'[<<d, ch>>].archived)
  <2>1. <<d, ch>> \in Customer \X Part
    BY DEF Part
  <2>2. ch \notin DOMAIN after
    BY PartAssumption DEF CustomerChange
  <2>3. activity[<<d, ch>>] # <<>>
    BY <1>1, <1>7, <2>1, <2>2
  <2> QED
    BY <1>2, <2>3 DEF DecisionsMarked, ChildrenMarked
<1> QED
  BY <1>3, <1>4, <1>5, <1>6, <1>7 DEF CustomerIInv, DecisionsMarked, FieldsMarked, ArchivesMarked, ChildrenMarked

LEMMA ChildChangeStep ==
  ASSUME CustomerIInv, NEW c, NEW ch, NEW after, ChildChange(c, ch, after)
  PROVE  CustomerIInv'
<1> DEFINE said == [p \in {ch} |-> after]
<1> TypeOK /\ DecisionsMarked /\ ReadyMeansImported
  BY DEF CustomerIInv
<1>1. /\ activity' \in [Customer \X Part -> Seq(Said)]
      /\ \A k \in Customer \X Part : activity'[k] =
           IF k[1] = c /\ k[2] \in DOMAIN said THEN Append(activity[k], said[k[2]]) ELSE activity[k]
      /\ UNCHANGED <<quarantine, reconciled, source>>
  <2>1. \A q \in DOMAIN said : said[q] \in Said
    BY DEF ChildChange
  <2>2. c \in Customer /\ Audit(c, said)
    BY DEF ChildChange
  <2> HIDE DEF said
  <2> QED
    BY <2>1, <2>2, AuditGives
<1>2. DOMAIN said = {ch}
  OBVIOUS
<1> HIDE DEF said
<1>3. /\ c \in Customer /\ ch \in Child /\ customers[c] # None /\ customers' = customers
      /\ children' \in [Customer \X Child -> ChildRow \cup {None}]
      /\ \A k \in Customer \X Child : k # <<c, ch>> => children'[k] = children[k]
      /\ children'[<<c, ch>>] # None /\ (children'[<<c, ch>>].created \/ children'[<<c, ch>>].archived)
  BY DEF ChildChange
<1>4. TypeOK'
  <2>1. ASSUME NEW k \in Customer \X Child, children'[k] # None PROVE customers[k[1]] # None
    <3>1. CASE k = <<c, ch>>
      BY <1>3, <3>1
    <3>2. CASE k # <<c, ch>>
      BY <1>3, <2>1, <3>2 DEF TypeOK
    <3> QED
      BY <3>1, <3>2
  <2> QED
    BY <1>1, <1>3, <2>1 DEF TypeOK, Said
<1>5. ReadyMeansImported'
  <2> SUFFICES ASSUME reconciled # None PROVE ReadyMeansImported'
    BY <1>1 DEF ReadyMeansImported
  <2>1. PICK s : s = reconciled
    OBVIOUS
  <2>2. quarantine = Rejected(s) /\ ShowsCustomers(s) /\ ShowsChildren(s)
    BY <2>1, ReadyFact
  <2>3. \A d \in Known(s) : Created(d)' <=> Created(d)
    BY <1>3 DEF Created
  <2>4. Admitted(s)' = Admitted(s) /\ Rejected(s)' = Rejected(s)
    BY <2>3, AdmittedStays
  <2>5. ShowsCustomers(s)'
    BY <1>3, <2>2, <2>4 DEF ShowsCustomers
  <2>6. ASSUME NEW d \in Admitted(s), NEW ch2 \in Source PROVE ShowsChild(s, d, ch2)'
    <3>1. <<d, ch2>> \in Customer \X Child
      BY DEF Admitted, Known, Child
    <3>2. ShowsChild(s, d, ch2)
      BY <2>2 DEF ShowsChildren
    <3>3. CASE <<d, ch2>> = <<c, ch>>
      BY <1>3, <3>3 DEF ShowsChild
    <3>4. CASE <<d, ch2>> # <<c, ch>>
      <4>1. children'[<<d, ch2>>] = children[<<d, ch2>>]
        BY <1>3, <3>1, <3>4
      <4> QED
        BY <3>2, <4>1 DEF ShowsChild
    <3> QED
      BY <3>3, <3>4
  <2>7. ShowsChildren(s)'
    BY <2>4, <2>6 DEF ShowsChildren
  <2> QED
    BY <1>1, <2>1, <2>2, <2>4, <2>5, <2>7, NextReadyFact
<1>6. \A k \in Customer \X Part : k[2] \notin Child => activity'[k] = activity[k]
  BY <1>1, <1>2, <1>3
<1>7. FieldsMarked'
  <2> SUFFICES ASSUME NEW d \in Customer, NEW f \in Field PROVE activity'[<<d, f>>] = activity[<<d, f>>]
    BY <1>3 DEF DecisionsMarked, FieldsMarked
  <2>1. <<d, f>> \in Customer \X Part /\ f \notin Child
    BY PartAssumption DEF Part
  <2> QED
    BY <1>6, <2>1
<1>8. ArchivesMarked'
  <2> SUFFICES ASSUME NEW d \in Customer PROVE activity'[<<d, "archived">>] = activity[<<d, "archived">>]
    BY <1>3 DEF DecisionsMarked, ArchivesMarked
  <2>1. <<d, "archived">> \in Customer \X Part /\ "archived" \notin Child
    BY PartAssumption DEF Part
  <2> QED
    BY <1>6, <2>1
<1>9. ASSUME NEW d \in Customer, NEW ch2 \in Child, activity'[<<d, ch2>>] # <<>>
      PROVE  children'[<<d, ch2>>] # None /\ (children'[<<d, ch2>>].created \/ children'[<<d, ch2>>].archived)
  <2>1. <<d, ch2>> \in Customer \X Part /\ <<d, ch2>> \in Customer \X Child
    BY DEF Part
  <2>2. CASE d = c /\ ch2 = ch
    BY <1>3, <2>2
  <2>3. CASE ~(d = c /\ ch2 = ch)
    <3>1. activity[<<d, ch2>>] # <<>>
      BY <1>1, <1>2, <1>9, <2>1, <2>3
    <3>2. children'[<<d, ch2>>] = children[<<d, ch2>>]
      BY <1>3, <2>1, <2>3
    <3> QED
      BY <3>1, <3>2 DEF DecisionsMarked, ChildrenMarked
  <2> QED
    BY <2>2, <2>3
<1> QED
  BY <1>4, <1>5, <1>7, <1>8, <1>9 DEF CustomerIInv, DecisionsMarked, ChildrenMarked

(* Nothing but the mounted snapshot changes when the server starts on the   *)
(* snapshot it is reconciled with, or stops.                                *)
LEMMA SameStep ==
  ASSUME CustomerIInv, UNCHANGED <<customers, children, quarantine, reconciled, activity>>, source' \in Snapshot \cup {None}
  PROVE  CustomerIInv'
<1> TypeOK /\ DecisionsMarked /\ ReadyMeansImported
  BY DEF CustomerIInv
<1>1. TypeOK' /\ DecisionsMarked'
  BY DEF TypeOK, DecisionsMarked, FieldsMarked, ArchivesMarked, ChildrenMarked
<1>2. ReadyMeansImported'
  <2> SUFFICES ASSUME reconciled # None PROVE ReadyMeansImported'
    BY DEF ReadyMeansImported
  <2>1. PICK s : s = reconciled
    OBVIOUS
  <2>2. quarantine = Rejected(s) /\ ShowsCustomers(s) /\ ShowsChildren(s)
    BY <2>1, ReadyFact
  <2>3. \A d \in Known(s) : Created(d)' <=> Created(d)
    BY DEF Created
  <2>4. Admitted(s)' = Admitted(s) /\ Rejected(s)' = Rejected(s)
    BY <2>3, AdmittedStays
  <2>5. ShowsCustomers(s)' /\ ShowsChildren(s)'
    BY <2>2, <2>4 DEF ShowsCustomers, ShowsChildren, ShowsChild
  <2> QED
    BY <2>1, <2>2, <2>4, <2>5, NextReadyFact
<1> QED
  BY <1>1, <1>2 DEF CustomerIInv

(* What a step does: it reconciles, or staff change a customer or what      *)
(* belongs to it, or the store stays as it is.                              *)
LEMMA StepGives ==
  ASSUME CustomerIInv, [Next]_vars
  PROVE  \/ UNCHANGED <<customers, children, quarantine, reconciled, activity>> /\ source' \in Snapshot \cup {None}
         \/ \E s \in Snapshot : Backfill(s) /\ activity' = activity /\ source' \in Snapshot
         \/ \E c, after : CustomerChange(c, after)
         \/ \E c, ch, after : ChildChange(c, ch, after)
<1> TypeOK
  BY DEF CustomerIInv
<1>1. ASSUME NEW s \in Snapshot, Start(s)
      PROVE  \/ UNCHANGED <<customers, children, quarantine, reconciled, activity>> /\ source' \in Snapshot
             \/ Backfill(s) /\ activity' = activity /\ source' \in Snapshot
  BY <1>1 DEF Start
<1>2. CASE Stop
  BY <1>2 DEF Stop
<1>3. ASSUME NEW c \in Customer, NEW fields \in [Field -> Value], Create(c, fields)
      PROVE  \E after : CustomerChange(c, after)
  BY <1>3, CreateGives
<1>4. ASSUME NEW c \in Customer, NEW changes \in Changes, Edit(c, changes)
      PROVE  \E after : CustomerChange(c, after)
  BY <1>4, EditGives
<1>5. ASSUME NEW c \in Customer, Archive(c) PROVE \E after : CustomerChange(c, after)
  BY <1>5, ArchiveGives
<1>6. ASSUME NEW c \in Customer, NEW ch \in Child, NEW v \in Value, customers[c] # None, SetChild(c, ch, v)
      PROVE  \E after : ChildChange(c, ch, after)
  BY <1>6, SetChildGives
<1>7. ASSUME NEW c \in Customer, NEW v \in Value, EditConfig(c, v) PROVE \E after : ChildChange(c, Config, after)
  BY <1>6, <1>7 DEF EditConfig, Child, Source
<1>8. ASSUME NEW c \in Customer, NEW ch \in Added, NEW v \in Value, AddChild(c, ch, v)
      PROVE  \E after : ChildChange(c, ch, after)
  BY <1>6, <1>8 DEF AddChild, Child
<1>9. ASSUME NEW c \in Customer, NEW ch \in Child, NEW v \in Value, EditChild(c, ch, v)
      PROVE  \E after : ChildChange(c, ch, after)
  <2>1. customers[c] # None /\ SetChild(c, ch, v)
    <3>1. <<c, ch>> \in Customer \X Child
      OBVIOUS
    <3> QED
      BY <1>9, <3>1 DEF EditChild, IsActive, TypeOK
  <2> QED
    BY <1>6, <2>1
<1>10. ASSUME NEW c \in Customer, NEW ch \in Child, ArchiveChild(c, ch) PROVE \E after : ChildChange(c, ch, after)
  BY <1>10, ArchiveChildGives
<1>11. CASE UNCHANGED vars
  <2>1. UNCHANGED <<customers, children, quarantine, reconciled, activity, source>>
    BY <1>11 DEF vars
  <2> QED
    BY <2>1 DEF TypeOK
<1> HIDE DEF Start, Stop, Create, Edit, Archive, EditConfig, AddChild, EditChild, ArchiveChild
<1> QED
  BY <1>1, <1>2, <1>3, <1>4, <1>5, <1>7, <1>8, <1>9, <1>10, <1>11 DEF Next

LEMMA InitCustomers == Init => CustomerIInv
<1> SUFFICES ASSUME Init PROVE CustomerIInv
  OBVIOUS
<1>1. TypeOK
  BY DEF Init, TypeOK
<1>2. ReadyMeansImported
  BY DEF Init, ReadyMeansImported
<1>3. FieldsMarked /\ ArchivesMarked /\ ChildrenMarked
  BY DEF Init, FieldsMarked, ArchivesMarked, ChildrenMarked, Part
<1> QED
  BY <1>1, <1>2, <1>3 DEF CustomerIInv, DecisionsMarked

LEMMA StepCustomers == ASSUME CustomerIInv, [Next]_vars PROVE CustomerIInv'
BY StepGives, SameStep, BackfillStep, CustomerChangeStep, ChildChangeStep

(* The inductive invariant: what the activity log says staff decided is      *)
(* marked as theirs, where a reconciliation looks.                           *)
THEOREM CustomersInvariant == Spec => []CustomerIInv
<1>1. CustomerIInv /\ [Next]_vars => CustomerIInv'
  BY StepCustomers
<1> QED
  BY <1>1, InitCustomers, PTL DEF Spec


(* The tables of CustomerStore hold what their columns and checks admit, and *)
(* every child is of a customer there is.                                    *)
THEOREM CustomersTyped == Spec => []TypeOK
<1>1. CustomerIInv => TypeOK
  BY DEF CustomerIInv
<1> QED
  BY <1>1, CustomersInvariant, PTL

(* A store that says it is reconciled shows its snapshot and what staff      *)
(* made of it (reconciliation_status, backfill_from_snapshot).               *)
THEOREM ReadyIsImported == Spec => []ReadyMeansImported
<1>1. CustomerIInv => ReadyMeansImported
  BY DEF CustomerIInv
<1> QED
  BY <1>1, CustomersInvariant, PTL

-----------------------------------------------------------------------------
(* What staff decided stays. *)

LeftAlone(c, p) ==
  /\ activity'[<<c, p>>] = activity[<<c, p>>]
  /\ DecidedOn(c, p) => DecidedOn(c, p)' /\ ValueOf(c, p)' = ValueOf(c, p)
Decided(c, p) ==
  /\ DecidedOn(c, p)'
  /\ \E e \in Said : activity'[<<c, p>>] = Append(activity[<<c, p>>], e)
                     /\ (ValueOf(c, p) = None \/ e = ValueOf(c, p)')

(* A part is a column, the mark of being archived, or a child. *)
LEMMA PartFact ==
  ASSUME NEW p \in Part
  PROVE  \/ p \in Field /\ p \notin Child /\ p # "archived"
         \/ p = "archived" /\ p \notin Field \cup Child
         \/ p \in Child /\ p \notin Field /\ p # "archived"
BY PartAssumption DEF Part

LEMMA ValueFact ==
  ASSUME TypeOK, NEW c \in Customer, customers[c] # None
  PROVE  /\ \A p \in Field : ValueOf(c, p) = customers[c].fields[p] /\ ValueOf(c, p) # None
         /\ ValueOf(c, "archived") = (IF customers[c].archived THEN "archived" ELSE "active")
         /\ ValueOf(c, "archived") # None
         /\ \A p \in Child : ValueOf(c, p) = IF children[<<c, p>>] = None THEN None
                               ELSE IF children[<<c, p>>].archived THEN "archived" ELSE children[<<c, p>>].value
         /\ \A p \in Child : children[<<c, p>>] # None => ValueOf(c, p) # None
<1>1. customers[c] \in CustomerRow
  BY DEF TypeOK
<1>2. ASSUME NEW p \in Field PROVE ValueOf(c, p) = customers[c].fields[p] /\ ValueOf(c, p) # None
  <2>1. ValueOf(c, p) = customers[c].fields[p]
    BY DEF ValueOf
  <2>2. customers[c].fields[p] \in Value
    BY <1>1 DEF CustomerRow
  <2> QED
    BY <2>1, <2>2, NoneAssumption
<1>3. /\ ValueOf(c, "archived") = (IF customers[c].archived THEN "archived" ELSE "active")
      /\ ValueOf(c, "archived") # None
  <2>1. ValueOf(c, "archived") = (IF customers[c].archived THEN "archived" ELSE "active")
    BY PartAssumption DEF ValueOf
  <2> QED
    BY <2>1, NoneAssumption
<1>4. ASSUME NEW p \in Child
      PROVE  /\ ValueOf(c, p) = IF children[<<c, p>>] = None THEN None
                                ELSE IF children[<<c, p>>].archived THEN "archived" ELSE children[<<c, p>>].value
             /\ children[<<c, p>>] # None => ValueOf(c, p) # None
  <2>1. p \notin Field /\ p # "archived"
    BY PartAssumption
  <2>2. ValueOf(c, p) = IF children[<<c, p>>] = None THEN None
                        ELSE IF children[<<c, p>>].archived THEN "archived" ELSE children[<<c, p>>].value
    BY <2>1 DEF ValueOf
  <2>3. children[<<c, p>>] # None => children[<<c, p>>].value \in Value
    <3>1. <<c, p>> \in Customer \X Child
      OBVIOUS
    <3>2. children[<<c, p>>] # None => children[<<c, p>>] \in ChildRow
      BY <3>1 DEF TypeOK
    <3> QED
      BY <3>2 DEF ChildRow
  <2> QED
    BY <2>2, <2>3, NoneAssumption
<1> QED
  BY <1>2, <1>3, <1>4

LEMMA NextValueFact ==
  ASSUME TypeOK', NEW c \in Customer, customers'[c] # None
  PROVE  /\ \A p \in Field : ValueOf(c, p)' = customers'[c].fields[p] /\ ValueOf(c, p)' # None
         /\ ValueOf(c, "archived")' = (IF customers'[c].archived THEN "archived" ELSE "active")
         /\ ValueOf(c, "archived")' # None
         /\ \A p \in Child : ValueOf(c, p)' = IF children'[<<c, p>>] = None THEN None
                               ELSE IF children'[<<c, p>>].archived THEN "archived" ELSE children'[<<c, p>>].value
         /\ \A p \in Child : children'[<<c, p>>] # None => ValueOf(c, p)' # None
<1>1. customers'[c] \in CustomerRow
  BY DEF TypeOK
<1>2. ASSUME NEW p \in Field PROVE ValueOf(c, p)' = customers'[c].fields[p] /\ ValueOf(c, p)' # None
  <2>1. ValueOf(c, p)' = customers'[c].fields[p]
    BY DEF ValueOf
  <2>2. customers'[c].fields[p] \in Value
    BY <1>1 DEF CustomerRow
  <2> QED
    BY <2>1, <2>2, NoneAssumption
<1>3. /\ ValueOf(c, "archived")' = (IF customers'[c].archived THEN "archived" ELSE "active")
      /\ ValueOf(c, "archived")' # None
  <2>1. ValueOf(c, "archived")' = (IF customers'[c].archived THEN "archived" ELSE "active")
    BY PartAssumption DEF ValueOf
  <2> QED
    BY <2>1, NoneAssumption
<1>4. ASSUME NEW p \in Child
      PROVE  /\ ValueOf(c, p)' = IF children'[<<c, p>>] = None THEN None
                                ELSE IF children'[<<c, p>>].archived THEN "archived" ELSE children'[<<c, p>>].value
             /\ children'[<<c, p>>] # None => ValueOf(c, p)' # None
  <2>1. p \notin Field /\ p # "archived"
    BY PartAssumption
  <2>2. ValueOf(c, p)' = IF children'[<<c, p>>] = None THEN None
                        ELSE IF children'[<<c, p>>].archived THEN "archived" ELSE children'[<<c, p>>].value
    BY <2>1 DEF ValueOf
  <2>3. children'[<<c, p>>] # None => children'[<<c, p>>].value \in Value
    <3>1. <<c, p>> \in Customer \X Child
      OBVIOUS
    <3>2. children'[<<c, p>>] # None => children'[<<c, p>>] \in ChildRow
      BY <3>1 DEF TypeOK
    <3> QED
      BY <3>2 DEF ChildRow
  <2> QED
    BY <2>2, <2>3, NoneAssumption
<1> QED
  BY <1>2, <1>3, <1>4

(* A decided part whose customer or child is where it was stays decided.    *)
LEMMA DecidedFact ==
  ASSUME CustomerIInv, NEW c \in Customer, NEW p \in Part, DecidedOn(c, p)
  PROVE  /\ customers[c] # None
         /\ p \in Field => customers[c].created \/ p \in customers[c].protected
         /\ p = "archived" => customers[c].created \/ customers[c].archived
         /\ p \in Child => children[<<c, p>>] # None /\ (children[<<c, p>>].created \/ children[<<c, p>>].archived)
<1> TypeOK /\ FieldsMarked /\ ArchivesMarked /\ ChildrenMarked
  BY DEF CustomerIInv, DecisionsMarked
<1>1. customers[c] # None
  BY DEF DecidedOn, ValueOf
<1>2. p \in Field => customers[c].created \/ p \in customers[c].protected
  BY PartFact DEF DecidedOn, Created, FieldsMarked
<1>3. ASSUME p = "archived" PROVE customers[c].created \/ customers[c].archived
  <2>1. "archived" \notin customers[c].protected
    <3>1. customers[c] \in CustomerRow
      BY <1>1 DEF TypeOK
    <3> QED
      BY <3>1, PartAssumption DEF CustomerRow
  <2>2. activity[<<c, "archived">>] # <<>> \/ Created(c)
    BY <1>3, <2>1, PartFact DEF DecidedOn
  <2> QED
    BY <2>2 DEF ArchivesMarked, Created
<1>4. ASSUME p \in Child
      PROVE  children[<<c, p>>] # None /\ (children[<<c, p>>].created \/ children[<<c, p>>].archived)
  <2>1. ValueOf(c, p) # None /\ (activity[<<c, p>>] # <<>> \/ children[<<c, p>>].created)
    BY <1>4, PartFact DEF DecidedOn
  <2>2. children[<<c, p>>] # None
    BY <1>1, <1>4, <2>1, ValueFact
  <2> QED
    BY <1>4, <2>1, <2>2 DEF ChildrenMarked
<1> QED
  BY <1>1, <1>2, <1>3, <1>4


LEMMA NextDecidedOn ==
  ASSUME TypeOK', NEW c \in Customer, NEW p \in Part, customers'[c] # None,
         p \in Child => children'[<<c, p>>] # None,
         \/ activity'[<<c, p>>] # <<>>
         \/ p \in Field \cup {"archived"} /\ (customers'[c].created \/ p \in customers'[c].protected)
         \/ p \in Child /\ children'[<<c, p>>].created
  PROVE  DecidedOn(c, p)'
<1>1. ValueOf(c, p)' # None
  BY NextValueFact, PartFact
<1> QED
  BY <1>1 DEF DecidedOn, Created

LEMMA StaysDecided ==
  ASSUME CustomerIInv, TypeOK', NEW c \in Customer, NEW p \in Part,
         activity'[<<c, p>>] = activity[<<c, p>>],
         DecidedOn(c, p) =>
           /\ customers'[c] # None /\ customers'[c].created = customers[c].created
           /\ customers[c].protected \subseteq customers'[c].protected
           /\ p \in Field => customers'[c].fields[p] = customers[c].fields[p]
           /\ p = "archived" => customers'[c].archived = customers[c].archived
           /\ p \in Child => children'[<<c, p>>] = children[<<c, p>>]
  PROVE  LeftAlone(c, p)
<1> SUFFICES ASSUME DecidedOn(c, p) PROVE DecidedOn(c, p)' /\ ValueOf(c, p)' = ValueOf(c, p)
  BY DEF LeftAlone
<1>1. /\ customers'[c] # None /\ customers'[c].created = customers[c].created
      /\ customers[c].protected \subseteq customers'[c].protected
      /\ p \in Field => customers'[c].fields[p] = customers[c].fields[p]
      /\ p = "archived" => customers'[c].archived = customers[c].archived
      /\ p \in Child => children'[<<c, p>>] = children[<<c, p>>]
  OBVIOUS
<1>2. TypeOK /\ customers[c] # None /\ (p \in Child => children[<<c, p>>] # None)
  BY DecidedFact DEF CustomerIInv
<1>3. \/ activity[<<c, p>>] # <<>>
      \/ p \in Field \cup {"archived"} /\ (customers[c].created \/ p \in customers[c].protected)
      \/ p \in Child /\ children[<<c, p>>].created
  BY DEF DecidedOn, Created
<1>4. DecidedOn(c, p)'
  BY <1>1, <1>2, <1>3, NextDecidedOn
<1>5. ValueOf(c, p)' = ValueOf(c, p)
  <2>1. CASE p \in Field
    BY <1>1, <1>2, <2>1, ValueFact, NextValueFact
  <2>2. CASE p = "archived"
    BY <1>1, <1>2, <2>2, ValueFact, NextValueFact
  <2>3. CASE p \in Child
    BY <1>1, <1>2, <2>3, ValueFact, NextValueFact
  <2> QED
    BY <2>1, <2>2, <2>3, PartFact
<1> QED
  BY <1>4, <1>5

LEMMA BackfillLeaves ==
  ASSUME CustomerIInv, TypeOK', NEW s \in Snapshot, Backfill(s), activity' = activity, NEW c \in Customer, NEW p \in Part
  PROVE  LeftAlone(c, p)
<1> TypeOK
  BY DEF CustomerIInv
<1>1. ASSUME DecidedOn(c, p)
      PROVE  /\ customers'[c] # None /\ customers'[c].created = customers[c].created
             /\ customers[c].protected \subseteq customers'[c].protected
             /\ p \in Field => customers'[c].fields[p] = customers[c].fields[p]
             /\ p = "archived" => customers'[c].archived = customers[c].archived
             /\ p \in Child => children'[<<c, p>>] = children[<<c, p>>]
  <2>1. /\ customers[c] # None
        /\ p \in Field => customers[c].created \/ p \in customers[c].protected
        /\ p = "archived" => customers[c].created \/ customers[c].archived
        /\ p \in Child => children[<<c, p>>] # None /\ (children[<<c, p>>].created \/ children[<<c, p>>].archived)
    BY <1>1, DecidedFact
  <2>2. /\ customers[c].created => customers'[c] = customers[c]
        /\ customers'[c] # None /\ customers'[c].created = customers[c].created
        /\ customers'[c].protected = customers[c].protected
        /\ customers[c].archived => customers'[c].archived
        /\ \A f \in Field : f \in customers[c].protected => customers'[c].fields[f] = customers[c].fields[f]
    BY <2>1, BackfillCustomer DEF Created
  <2>3. ASSUME p = "archived" PROVE customers'[c].archived = customers[c].archived
    <3>1. CASE customers[c].created
      BY <2>2, <3>1
    <3>2. CASE customers[c].archived
      <4>1. customers'[c].archived \in BOOLEAN /\ customers[c].archived \in BOOLEAN
        <5>1. customers'[c] \in CustomerRow /\ customers[c] \in CustomerRow
          BY <2>1, <2>2 DEF TypeOK
        <5> QED
          BY <5>1 DEF CustomerRow
      <4> QED
        BY <2>2, <3>2, <4>1
    <3> QED
      BY <2>1, <2>3, <3>1, <3>2
  <2>4. ASSUME p \in Child PROVE children'[<<c, p>>] = children[<<c, p>>]
    <3>1. children'[<<c, p>>] = IF c \in Admitted(s) /\ p \in Source THEN TakenChild(s, c, p)
                                ELSE children[<<c, p>>]
      BY <2>4, BackfillGives
    <3>2. TakenChild(s, c, p) = children[<<c, p>>]
      BY <2>1, <2>4, TakenChildFact
    <3> QED
      BY <3>1, <3>2
  <2> QED
    BY <2>1, <2>2, <2>3, <2>4
<1> QED
  BY <1>1, StaysDecided

LEMMA CustomerChangeDecides ==
  ASSUME CustomerIInv, TypeOK', NEW d, NEW after, CustomerChange(d, after), NEW c \in Customer, NEW p \in Part
  PROVE  LeftAlone(c, p) \/ Decided(c, p)
<1> TypeOK
  BY DEF CustomerIInv
<1>1. activity'[<<c, p>>] = IF c = d /\ p \in DOMAIN after THEN Append(activity[<<c, p>>], after[p])
                            ELSE activity[<<c, p>>]
  <2>1. \A k \in Customer \X Part : activity'[k] =
           IF k[1] = d /\ k[2] \in DOMAIN after THEN Append(activity[k], after[k[2]]) ELSE activity[k]
    BY AuditGives DEF CustomerChange
  <2>2. <<c, p>> \in Customer \X Part
    OBVIOUS
  <2> QED
    BY <2>1, <2>2
<1>2. CASE c # d
  <2>1. activity'[<<c, p>>] = activity[<<c, p>>]
    BY <1>1, <1>2
  <2>2. customers'[c] = customers[c] /\ children' = children
    BY <1>2 DEF CustomerChange
  <2>3. DecidedOn(c, p) => customers[c] # None
    BY DecidedFact
  <2>4. /\ customers'[c].created = customers[c].created
        /\ customers'[c].protected = customers[c].protected
        /\ customers'[c].fields = customers[c].fields
        /\ customers'[c].archived = customers[c].archived
        /\ children'[<<c, p>>] = children[<<c, p>>]
    BY <2>2, Zenon
  <2> QED
    BY <2>1, <2>2, <2>3, <2>4, StaysDecided
<1>3. CASE c = d /\ p \notin DOMAIN after
  <2>1. activity'[<<c, p>>] = activity[<<c, p>>]
    BY <1>1, <1>3
  <2>2. DecidedOn(c, p) => customers[c] # None
    BY DecidedFact
  <2>3. customers[c] # None /\ p = "archived" => customers'[c].archived = customers[c].archived
    <3>1. customers[c] # None => customers[c].archived \in BOOLEAN
      <4>1. customers[c] # None => customers[c] \in CustomerRow
        BY DEF TypeOK
      <4> QED
        BY <4>1 DEF CustomerRow
    <3> QED
      BY <1>3, <3>1 DEF CustomerChange
  <2> QED
    BY <1>3, <2>1, <2>2, <2>3, StaysDecided DEF CustomerChange
<1>4. CASE c = d /\ p \in DOMAIN after
  <2>1. p \in Field \cup {"archived"} /\ after[p] \in Said /\ customers'[c] # None
        /\ activity'[<<c, p>>] = Append(activity[<<c, p>>], after[p])
    BY <1>1, <1>4 DEF CustomerChange
  <2>2. activity'[<<c, p>>] # <<>>
    <3> DEFINE x == activity[<<c, p>>]
               e == after[p]
               S == Said
    <3>1. x \in Seq(S) /\ e \in S
      <4>1. <<c, p>> \in Customer \X Part
        OBVIOUS
      <4> QED
        BY <2>1, <4>1 DEF TypeOK, Said
    <3>2. activity'[<<c, p>>] = Append(x, e)
      BY <2>1
    <3> HIDE DEF x, e, S
    <3>3. Append(x, e) # <<>>
      BY <3>1, AppendProperties
    <3> QED
      BY <3>2, <3>3
  <2>3. DecidedOn(c, p)'
    BY <2>1, <2>2, NextDecidedOn, PartFact
  <2>4. ValueOf(c, p) = None \/ after[p] = ValueOf(c, p)'
    <3>1. CASE customers[c] = None
      BY <3>1 DEF ValueOf
    <3>2. CASE customers[c] # None /\ p \in Field
      <4>1. customers'[c].fields[p] = after[p]
        BY <1>4, <3>2 DEF CustomerChange
      <4> QED
        BY <2>1, <3>2, <4>1, NextValueFact
    <3>3. CASE customers[c] # None /\ p = "archived"
      <4>1. customers'[c].archived = (customers[c].archived \/ TRUE) /\ after[p] = "archived"
        BY <1>4, <3>3 DEF CustomerChange
      <4> QED
        BY <2>1, <3>3, <4>1, NextValueFact
    <3> QED
      BY <2>1, <3>1, <3>2, <3>3
  <2> QED
    BY <2>1, <2>3, <2>4 DEF Decided
<1> QED
  BY <1>2, <1>3, <1>4

LEMMA ChildChangeDecides ==
  ASSUME CustomerIInv, TypeOK', NEW d, NEW ch, NEW after, ChildChange(d, ch, after), NEW c \in Customer, NEW p \in Part
  PROVE  LeftAlone(c, p) \/ Decided(c, p)
<1> TypeOK
  BY DEF CustomerIInv
<1>1. activity'[<<c, p>>] = IF c = d /\ p = ch THEN Append(activity[<<c, p>>], after) ELSE activity[<<c, p>>]
  <2> DEFINE said == [q \in {ch} |-> after]
  <2>1. \A q \in DOMAIN said : said[q] \in Said
    BY DEF ChildChange
  <2>2. d \in Customer /\ Audit(d, said)
    BY DEF ChildChange
  <2>3. DOMAIN said = {ch} /\ said[ch] = after
    OBVIOUS
  <2> HIDE DEF said
  <2>4. \A k \in Customer \X Part : activity'[k] =
           IF k[1] = d /\ k[2] \in DOMAIN said THEN Append(activity[k], said[k[2]]) ELSE activity[k]
    BY <2>1, <2>2, AuditGives
  <2>5. <<c, p>> \in Customer \X Part
    OBVIOUS
  <2> QED
    BY <2>3, <2>4, <2>5
<1>2. CASE ~(c = d /\ p = ch)
  <2>1. p \in Child => children'[<<c, p>>] = children[<<c, p>>]
    <3>1. p \in Child => <<c, p>> \in Customer \X Child /\ <<c, p>> # <<d, ch>>
      BY <1>2
    <3> QED
      BY <3>1 DEF ChildChange
  <2>2. customers' = customers /\ activity'[<<c, p>>] = activity[<<c, p>>]
    BY <1>1, <1>2 DEF ChildChange
  <2>3. DecidedOn(c, p) => customers[c] # None
    BY DecidedFact
  <2> QED
    BY <2>1, <2>2, <2>3, StaysDecided
<1>3. CASE c = d /\ p = ch
  <2>1. /\ p \in Child /\ customers'[c] # None /\ children'[<<c, p>>] # None /\ after \in Said
        /\ after = IF children'[<<c, p>>].archived THEN "archived" ELSE children'[<<c, p>>].value
        /\ activity'[<<c, p>>] = Append(activity[<<c, p>>], after)
    BY <1>1, <1>3 DEF ChildChange
  <2>2. activity'[<<c, p>>] # <<>>
    <3> DEFINE x == activity[<<c, p>>]
               S == Said
    <3>1. x \in Seq(S) /\ after \in S
      <4>1. <<c, p>> \in Customer \X Part
        OBVIOUS
      <4> QED
        BY <2>1, <4>1 DEF TypeOK, Said
    <3>2. activity'[<<c, p>>] = Append(x, after)
      BY <2>1
    <3> HIDE DEF x, S
    <3>3. Append(x, after) # <<>>
      BY <3>1, AppendProperties
    <3> QED
      BY <3>2, <3>3
  <2>3. DecidedOn(c, p)'
    BY <2>1, <2>2, NextDecidedOn
  <2>4. after = ValueOf(c, p)'
    BY <2>1, NextValueFact
  <2> QED
    BY <2>1, <2>3, <2>4 DEF Decided
<1> QED
  BY <1>2, <1>3

LEMMA KeyStep ==
  ASSUME CustomerIInv, CustomerIInv', [Next]_vars, NEW c \in Customer, NEW p \in Part
  PROVE  LeftAlone(c, p) \/ Decided(c, p)
<1>1. TypeOK'
  BY DEF CustomerIInv
<1>2. CASE UNCHANGED <<customers, children, quarantine, reconciled, activity>>
  <2>1. customers' = customers /\ children' = children /\ activity' = activity
    BY <1>2
  <2>2. DecidedOn(c, p) => customers[c] # None
    BY DecidedFact
  <2> QED
    BY <1>1, <2>1, <2>2, StaysDecided
<1> QED
  BY <1>1, <1>2, StepGives, BackfillLeaves, CustomerChangeDecides, ChildChangeDecides

(* The values and the decisions that a state stands for. *)
ValueNow == [k \in Customer \X Part |-> ValueOf(k[1], k[2])]
DecidedNow == {k \in Customer \X Part : DecidedOn(k[1], k[2])}

LEMMA InitDecisions == Init => Decisions!Init
<1> SUFFICES ASSUME Init, NEW k \in Customer \X Part PROVE activity[k] = <<>>
  BY DEF Decisions!Init
<1> QED
  BY DEF Init

LEMMA StepDecisions == CustomerIInv /\ CustomerIInv' /\ [Next]_vars => Decisions!Next
<1> SUFFICES ASSUME CustomerIInv, CustomerIInv', [Next]_vars, NEW k \in Customer \X Part
             PROVE  Decisions!Kept(k) \/ Decisions!Decide(k)
  BY DEF Decisions!Next
<1>0. PICK c \in Customer, p \in Part : k = <<c, p>>
  OBVIOUS
<1>1. /\ ValueNow[k] = ValueOf(c, p) /\ ValueNow'[k] = ValueOf(c, p)'
      /\ (k \in DecidedNow <=> DecidedOn(c, p)) /\ (k \in DecidedNow' <=> DecidedOn(c, p)')
  <2>1. k[1] = c /\ k[2] = p
    BY <1>0
  <2>2. ValueNow[k] = ValueOf(k[1], k[2]) /\ ValueNow'[k] = ValueOf(k[1], k[2])'
    BY DEF ValueNow
  <2>3. (k \in DecidedNow <=> DecidedOn(k[1], k[2])) /\ (k \in DecidedNow' <=> DecidedOn(k[1], k[2])')
    BY DEF DecidedNow
  <2> QED
    BY <2>1, <2>2, <2>3
<1>2. CASE LeftAlone(c, p)
  <2>1. activity'[k] = activity[k] /\ (k \in DecidedNow => k \in DecidedNow' /\ ValueNow'[k] = ValueNow[k])
    BY <1>0, <1>1, <1>2 DEF LeftAlone
  <2> QED
    BY <2>1 DEF Decisions!Kept, DecidedNow, ValueNow
<1>3. CASE Decided(c, p)
  <2>1. PICK e \in Said : activity'[k] = Append(activity[k], e) /\ (ValueNow[k] = None \/ e = ValueNow'[k])
    BY <1>0, <1>1, <1>3 DEF Decided
  <2> DEFINE n == Len(activity[k]) + 1
             S == Said
             x == activity[k]
             y == activity'[k]
  <2>2. x \in Seq(S) /\ e \in S /\ y = Append(x, e) /\ n = Len(x) + 1 /\ Len(x) \in Nat
    BY <2>1 DEF CustomerIInv, TypeOK, Said
  <2> HIDE DEF S, x, y, n
  <2>3. /\ Len(y) = n /\ y[n] = e
        /\ \A i \in 1 .. Len(x) : y[i] = x[i]
    BY <2>2, AppendProperties
  <2>4. SubSeq(y, 1, n - 1) = x
    <3>1. y \in Seq(S)
      BY <2>2, AppendProperties
    <3>2. n - 1 = Len(x)
      BY <2>2
    <3>3. SubSeq(y, 1, Len(x)) = [i \in 1 .. Len(x) |-> y[i]]
      BY <2>2, <2>3, <3>1
    <3>4. x = [i \in 1 .. Len(x) |-> x[i]]
      BY <2>2
    <3>5. SubSeq(y, 1, Len(x)) = x
      BY <2>3, <3>3, <3>4
    <3> QED
      BY <3>2, <3>5
  <2>5. k \in DecidedNow'
    BY <1>1, <1>3 DEF Decided
  <2>6. /\ Len(activity'[k]) = Len(activity[k]) + 1
        /\ SubSeq(activity'[k], 1, (Len(activity[k]) + 1) - 1) = activity[k]
        /\ ValueNow[k] = None \/ activity'[k][Len(activity[k]) + 1] = ValueNow'[k]
        /\ k \in DecidedNow'
    BY <2>1, <2>3, <2>4, <2>5 DEF x, y, n
  <2> QED
    BY <2>6 DEF Decisions!Decide, DecidedNow, ValueNow
<1> QED
  BY <1>2, <1>3, KeyStep

(* The catalogue implements StaffDecisions: what staff decided of a customer,*)
(* a column or a child stays, and is what the activity log says, over any    *)
(* reconciliations (backfill_from_snapshot).                                 *)
THEOREM StaffDecideCustomers == Spec => DecisionsStand
<1>1. CustomerIInv /\ CustomerIInv' /\ [Next]_vars => [Decisions!Next]_(Decisions!catalogue)
  BY StepDecisions
<1> QED
  BY <1>1, InitDecisions, CustomersInvariant, PTL DEF Spec, DecisionsStand, Decisions!Spec
=============================================================================
