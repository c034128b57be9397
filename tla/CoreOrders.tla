----------------------------- MODULE CoreOrders -----------------------------
(***************************************************************************)
(* Orders and packing plans of CoreOrderStore (apc_core/core_orders.py):   *)
(* create_order over imported source rows, and create_packing_plan.        *)
(*                                                                         *)
(* As in CorePacking, every SELECT is a step outside any transaction and   *)
(* the INSERTs of a command are one.  Source rows are immutable and only   *)
(* imports add them, so the source SELECTs of a command are one step.      *)
(***************************************************************************)
EXTENDS Integers, Sequences, Functions

CONSTANTS
  Conn,      \* database connections
  OrderId, PlanId, Actor, Key,
  Line,      \* line identities, numbered in their collation order
  SourceRow, \* source coordinates (snapshot, table, rowid)
  Positive,  \* the source rows with a positive quantity
  Requests   \* the commands callers may issue, any number of times

Membership == [line : Line, source : SourceRow]
Order == [id : OrderId, by : Actor, key : Key, lines : Seq(Membership) \ {<<>>}]
Plan == [id : PlanId, by : Actor, key : Key, order : OrderId]

Command == [kind : {"order"}, row : Order] \cup [kind : {"plan"}, row : Plan]

ASSUME LineAssumption == Line \subseteq Nat
ASSUME RequestAssumption == Requests \subseteq Command

VARIABLES
  sources,  \* core_source_rows
  orders,   \* core_orders, each with its core_order_lines in the order inserted
  plans,    \* core_packing_plans
  pc,       \* the statement each connection runs next
  cmd,      \* its command
  reply     \* the outcome of its last command

tables == <<sources, orders, plans>>
orderVars == <<tables, pc, cmd, reply>>

OrdersTypeOK ==
  /\ sources \in SUBSET SourceRow
  /\ orders \in SUBSET Order
  /\ plans \in SUBSET Plan
  /\ pc \in [Conn -> {"idle", "sources", "lookup", "lines", "order", "write"}]
  /\ cmd \in [Conn -> Command]
  /\ reply \in [Conn -> {"none", "ok", "refused", "conflict"}]

-----------------------------------------------------------------------------
Lines(o) == {o.lines[i].line : i \in DOMAIN o.lines}
Sources(o) == {o.lines[i].source : i \in DOMAIN o.lines}

(* "duplicate explicit source membership" *)
Distinct(o) == IsInjective([i \in DOMAIN o.lines |-> o.lines[i].line])
               /\ IsInjective([i \in DOMAIN o.lines |-> o.lines[i].source])

(* order_lines: the rows of the order, ORDER BY line_id. *)
Stored(o) == [o EXCEPT !.lines =
  CHOOSE s \in [DOMAIN o.lines -> Range(o.lines)] :
    \A i, j \in DOMAIN s : i < j => s[i].line < s[j].line]

(* Mutant of OrderInsertable: a line may serve two orders. *)
OrderInsertableAnyLine(o) == \A p \in orders : p.id # o.id /\ p.key # o.key

(* PRIMARY KEYs of order and lines, UNIQUE idempotency_key. *)
OrderInsertable(o) ==
  \A p \in orders : p.id # o.id /\ p.key # o.key /\ Lines(p) \cap Lines(o) = {}

(* PRIMARY KEY and UNIQUE of core_packing_plans, and its foreign key. *)
PlanInsertable(p) ==
  /\ \A q \in plans : q.id # p.id /\ q.key # p.key
  /\ \E o \in orders : o.id = p.order

-----------------------------------------------------------------------------
OrdersInit ==
  /\ sources = {} /\ orders = {} /\ plans = {}
  /\ pc = [c \in Conn |-> "idle"]
  /\ cmd \in [Conn -> Requests]
  /\ reply = [c \in Conn |-> "none"]

(* Another process imports accepted source rows; none is ever removed. *)
Import ==
  /\ \E s \in SUBSET (SourceRow \ sources) : s # {} /\ sources' = sources \cup s
  /\ UNCHANGED <<orders, plans, pc, cmd, reply>>

Goto(c, step) ==
  /\ pc' = [pc EXCEPT ![c] = step]
  /\ UNCHANGED <<tables, cmd, reply>>

Answer(c, outcome) ==
  /\ pc' = [pc EXCEPT ![c] = "idle"]
  /\ reply' = [reply EXCEPT ![c] = outcome]
  /\ UNCHANGED <<tables, cmd>>

Begin(c) ==
  /\ pc[c] = "idle"
  /\ \E r \in Requests :
       /\ cmd' = [cmd EXCEPT ![c] = r]
       /\ pc' = [pc EXCEPT ![c] = IF r.kind = "order" THEN "sources" ELSE "lookup"]
  /\ reply' = [reply EXCEPT ![c] = "none"]
  /\ UNCHANGED tables

(* Every membership once, known and with a positive quantity. *)
ReadSources(c) ==
  /\ pc[c] = "sources"
  /\ IF Distinct(cmd[c].row) /\ Sources(cmd[c].row) \subseteq sources \cap Positive
     THEN Goto(c, "lookup")
     ELSE Answer(c, "refused")

LookupOrder(c) ==
  /\ pc[c] = "lookup" /\ cmd[c].kind = "order"
  /\ LET found == {o \in orders : o.key = cmd[c].row.key}
     IN \/ found = {} /\ Goto(c, "write")
        \/ \E o \in found : IF o.id = cmd[c].row.id /\ o.by = cmd[c].row.by
                            THEN Goto(c, "lines")
                            ELSE Answer(c, "conflict")

(* Mutant of ReadLines: the lines are not compared. *)
ReadNoLines(c) == pc[c] = "lines" /\ Answer(c, "ok")

(* The stored lines in line order against the asked ones as they were given. *)
ReadLines(c) ==
  /\ pc[c] = "lines"
  /\ \E o \in orders : /\ o.id = cmd[c].row.id
                       /\ Answer(c, IF Stored(o) = cmd[c].row THEN "ok" ELSE "conflict")

LookupPlan(c) ==
  /\ pc[c] = "lookup" /\ cmd[c].kind = "plan"
  /\ LET found == {p \in plans : p.key = cmd[c].row.key}
     IN \/ found = {} /\ Goto(c, "order")
        \/ \E p \in found : Answer(c, IF p = cmd[c].row THEN "ok" ELSE "conflict")

ReadOrder(c) ==
  /\ pc[c] = "order"
  /\ IF \E o \in orders : o.id = cmd[c].row.order THEN Goto(c, "write") ELSE Answer(c, "refused")

WriteOrder(c) ==
  /\ pc[c] = "write" /\ cmd[c].kind = "order"
  /\ \/ ~OrderInsertable(cmd[c].row) /\ Answer(c, "refused")
     \/ /\ OrderInsertable(cmd[c].row)
        /\ orders' = orders \cup {cmd[c].row}
        /\ pc' = [pc EXCEPT ![c] = "idle"]
        /\ reply' = [reply EXCEPT ![c] = "ok"]
        /\ UNCHANGED <<sources, plans, cmd>>

WritePlan(c) ==
  /\ pc[c] = "write" /\ cmd[c].kind = "plan"
  /\ \/ ~PlanInsertable(cmd[c].row) /\ Answer(c, "refused")
     \/ /\ PlanInsertable(cmd[c].row)
        /\ plans' = plans \cup {cmd[c].row}
        /\ pc' = [pc EXCEPT ![c] = "idle"]
        /\ reply' = [reply EXCEPT ![c] = "ok"]
        /\ UNCHANGED <<sources, orders, cmd>>

OrdersNext ==
  \/ Import
  \/ \E c \in Conn :
       \/ Begin(c) \/ ReadSources(c) \/ LookupOrder(c) \/ ReadLines(c) \/ LookupPlan(c)
       \/ ReadOrder(c) \/ WriteOrder(c) \/ WritePlan(c)

OrdersSpec == OrdersInit /\ [][OrdersNext]_orderVars

-----------------------------------------------------------------------------
(* A line identity belongs to one order and comes from one source row that  *)
(* was imported with a positive quantity; a plan packs an order on record.  *)
(* Rival commands for an identity, a key or a line never mix their lines.   *)
OrdersAreTraced ==
  /\ \A o, p \in orders : o.id = p.id \/ o.key = p.key \/ Lines(o) \cap Lines(p) # {} => o = p
  /\ \A o \in orders : Distinct(o) /\ Sources(o) \subseteq sources \cap Positive
  /\ \A p \in plans : \E o \in orders : o.id = p.order

(* "ok" is said only of an order with exactly the asked lines and of a plan *)
(* of exactly the asked order, whether this call wrote it or an earlier one *)
(* with the key, by whomever.                                               *)
AcknowledgedAsAsked ==
  \A c \in Conn : reply[c] = "ok" =>
    IF cmd[c].kind = "plan" THEN cmd[c].row \in plans
    ELSE \E o \in orders : /\ o.id = cmd[c].row.id /\ o.by = cmd[c].row.by
                           /\ o.key = cmd[c].row.key
                           /\ Range(o.lines) = Range(cmd[c].row.lines)

=============================================================================
