---------------------------- MODULE CorePacking ----------------------------
(***************************************************************************)
(* Packing of a Core order (apc_core/core_orders.py): boxes and            *)
(* quantity events of packing plans, written by any number of database     *)
(* connections.                                                            *)
(*                                                                         *)
(* A CoreOrderStore method runs its SELECTs outside a transaction (the     *)
(* sqlite3 module opens one implicitly, before the first INSERT), so every *)
(* read below is a step of its own that sees what is committed at that     *)
(* moment, and only the INSERT and the UPDATE of the plan's version, with  *)
(* the table constraints they meet, are one atomic step.                   *)
(*                                                                         *)
(* A command is represented by the row it wants to insert; actor, reason   *)
(* and timestamps are data no decision but the row comparison of a replay  *)
(* depends on, and are part of what makes two requests different.          *)
(***************************************************************************)
EXTENDS Integers, FiniteSets, FiniteSetsExt

CONSTANTS
  Conn,       \* database connections, each running one command at a time
  Plan,       \* packing plans, all created at version 0
  Line,       \* order lines
  RowId,      \* identities of boxes and events
  Key,        \* idempotency keys
  None,       \* absent column
  LinesOf,    \* LinesOf[p]: the lines of the order that plan p packs
  Original,   \* Original[l]: the immutable original quantity of line l
  Requests    \* the commands callers may issue, any number of times

Kinds == {"box", "allocation", "unavailable", "reversal"}

(* A box row uses "quantity" for its box number. *)
Row == [kind : Kinds, id : RowId, plan : Plan, line : Line \cup {None},
        box : RowId \cup {None}, quantity : Nat, reverses : RowId \cup {None},
        expected_version : Nat, key : Key]

ASSUME PlansAssumption == LinesOf \in [Plan -> SUBSET Line]
ASSUME QuantityAssumption == Original \in [Line -> Nat]
ASSUME RequestAssumption == Requests \subseteq Row
ASSUME NoneAssumption == None \notin RowId /\ None \notin Line

VARIABLES
  rows,       \* core_packing_boxes and core_packing_events, append-only
  version,    \* core_packing_plans.version
  pc,         \* the statement each connection runs next
  cmd,        \* its command: the row to insert
  reply       \* the outcome of its last command

vars == <<rows, version, pc, cmd, reply>>

Steps == {"idle", "target", "lookup", "plan", "box", "duplicate", "remaining", "write"}

TypeOK ==
  /\ rows \in SUBSET Row
  /\ version \in [Plan -> Nat]
  /\ pc \in [Conn -> Steps]
  /\ cmd \in [Conn -> Row]
  /\ reply \in [Conn -> {"none", "ok", "refused"}]

-----------------------------------------------------------------------------
IsBox(r) == r.kind = "box"

(* Rows of the same table; keys and identities are unique per table. *)
SameTable(r, s) == IsBox(r) <=> IsBox(s)

(* Allocations and unavailabilities no event reverses. *)
Active(S, p, l) ==
  {r \in S : /\ r.kind \in {"allocation", "unavailable"}
             /\ r.plan = p /\ r.line = l
             /\ \A s \in S : ~IsBox(s) => s.reverses # r.id}

Quantity(r) == r.quantity

Remaining(p, l) == Original[l] - MapThenSumSet(Quantity, Active(rows, p, l))

(* Mutants of Insertable: no UNIQUE keys and identities; no UNIQUE reversal. *)
InsertableTwice(r) ==
  /\ IsBox(r) => \A s \in rows : IsBox(s) /\ s.plan = r.plan => s.quantity # r.quantity
  /\ r.kind = "allocation" => \E s \in rows : IsBox(s) /\ s.id = r.box
  /\ r.kind = "reversal" => \A s \in rows : ~IsBox(s) => s.reverses # r.reverses

InsertableReversedTwice(r) ==
  /\ \A s \in rows : SameTable(r, s) => s.id # r.id /\ s.key # r.key
  /\ r.kind = "reversal" => \E s \in rows : ~IsBox(s) /\ s.id = r.reverses

(* UNIQUE, PRIMARY KEY and REFERENCES of the two tables. *)
Insertable(r) ==
  /\ \A s \in rows : SameTable(r, s) => s.id # r.id /\ s.key # r.key
  /\ IsBox(r) => \A s \in rows : IsBox(s) /\ s.plan = r.plan => s.quantity # r.quantity
  /\ r.kind = "allocation" => \E s \in rows : IsBox(s) /\ s.id = r.box
  /\ r.kind = "reversal" =>
       /\ \E s \in rows : ~IsBox(s) /\ s.id = r.reverses
       /\ \A s \in rows : ~IsBox(s) => s.reverses # r.reverses

-----------------------------------------------------------------------------
Init ==
  /\ rows = {}
  /\ version = [p \in Plan |-> 0]
  /\ pc = [c \in Conn |-> "idle"]
  /\ \E r \in Requests : cmd = [c \in Conn |-> r]
  /\ reply = [c \in Conn |-> "none"]

Goto(c, step) ==
  /\ pc' = [pc EXCEPT ![c] = step]
  /\ UNCHANGED <<rows, version, cmd, reply>>

Answer(c, outcome) ==
  /\ pc' = [pc EXCEPT ![c] = "idle"]
  /\ reply' = [reply EXCEPT ![c] = outcome]
  /\ UNCHANGED <<rows, version, cmd>>

(* A caller issues a command, new or repeated; only a reversal reads the    *)
(* event it reverses before the idempotency lookup.                         *)
Begin(c) ==
  /\ pc[c] = "idle"
  /\ \E r \in Requests :
       /\ cmd' = [cmd EXCEPT ![c] = r]
       /\ pc' = [pc EXCEPT ![c] = IF r.kind = "reversal" THEN "target" ELSE "lookup"]
  /\ reply' = [reply EXCEPT ![c] = "none"]
  /\ UNCHANGED <<rows, version>>

(* reverse_event copies line and quantity from the event it reverses. *)
ReversalOf(r, t) == [r EXCEPT !.line = t.line, !.quantity = t.quantity]

ReadTarget(c) ==
  /\ pc[c] = "target"
  /\ LET targets == {t \in rows : /\ t.kind \in {"allocation", "unavailable"}
                                  /\ t.id = cmd[c].reverses /\ t.plan = cmd[c].plan}
     IN \/ /\ targets = {}
           /\ Answer(c, "refused")
        \/ \E t \in targets :
             /\ cmd' = [cmd EXCEPT ![c] = ReversalOf(cmd[c], t)]
             /\ pc' = [pc EXCEPT ![c] = "lookup"]
             /\ UNCHANGED <<rows, version, reply>>

(* Mutant of Lookup: a known key is taken for the same command. *)
LookupByKey(c) ==
  /\ pc[c] = "lookup"
  /\ IF \E r \in rows : SameTable(r, cmd[c]) /\ r.key = cmd[c].key
     THEN Answer(c, "ok")
     ELSE Goto(c, "plan")

(* A known key either replays its own command or is refused. *)
Lookup(c) ==
  /\ pc[c] = "lookup"
  /\ LET found == {r \in rows : SameTable(r, cmd[c]) /\ r.key = cmd[c].key}
     IN \/ found = {} /\ Goto(c, "plan")
        \/ \E r \in found : Answer(c, IF r = cmd[c] THEN "ok" ELSE "refused")

ReadPlan(c) ==
  /\ pc[c] = "plan"
  /\ IF version[cmd[c].plan] # cmd[c].expected_version
     THEN Answer(c, "refused")
     ELSE Goto(c, CASE cmd[c].kind = "allocation"  -> "box"
                    [] cmd[c].kind = "unavailable" -> "remaining"
                    [] OTHER                       -> "write")

ReadBox(c) ==
  /\ pc[c] = "box"
  /\ IF \E b \in rows : IsBox(b) /\ b.id = cmd[c].box /\ b.plan = cmd[c].plan
     THEN Goto(c, "duplicate")
     ELSE Answer(c, "refused")

ReadDuplicate(c) ==
  /\ pc[c] = "duplicate"
  /\ IF \E r \in Active(rows, cmd[c].plan, cmd[c].line) : r.box = cmd[c].box
     THEN Answer(c, "refused")
     ELSE Goto(c, "remaining")

(* Mutant of ReadRemaining: the quantity is checked against the whole line. *)
ReadOriginal(c) ==
  /\ pc[c] = "remaining"
  /\ IF \/ cmd[c].line \notin LinesOf[cmd[c].plan]
        \/ cmd[c].quantity > Original[cmd[c].line]
     THEN Answer(c, "refused")
     ELSE Goto(c, "write")

ReadRemaining(c) ==
  /\ pc[c] = "remaining"
  /\ IF \/ cmd[c].line \notin LinesOf[cmd[c].plan]
        \/ cmd[c].quantity > Remaining(cmd[c].plan, cmd[c].line)
     THEN Answer(c, "refused")
     ELSE Goto(c, "write")

(* INSERT and UPDATE version=version+1, committed together or rolled back. *)
Write(c) ==
  /\ pc[c] = "write"
  /\ \/ /\ ~Insertable(cmd[c])
        /\ Answer(c, "refused")
     \/ /\ Insertable(cmd[c])
        /\ rows' = rows \cup {cmd[c]}
        /\ version' = [version EXCEPT ![cmd[c].plan] = @ + 1]
        /\ pc' = [pc EXCEPT ![c] = "idle"]
        /\ reply' = [reply EXCEPT ![c] = "ok"]
        /\ UNCHANGED cmd

Next == \E c \in Conn : \/ Begin(c) \/ ReadTarget(c) \/ Lookup(c) \/ ReadPlan(c)
                        \/ ReadBox(c) \/ ReadDuplicate(c) \/ ReadRemaining(c) \/ Write(c)

Spec == Init /\ [][Next]_vars

-----------------------------------------------------------------------------
(* What holds however many connections write.                              *)

(* A plan's version is the number of boxes and events it has: a retry, a    *)
(* refused command or a rolled back transaction never moves it, and no row  *)
(* is committed without moving it.                                          *)
VersionCountsRows ==
  \A p \in Plan : version[p] = Cardinality({r \in rows : r.plan = p})

(* An event is reversed at most once, by a reversal of the same plan, line  *)
(* and quantity (reverse_event reads them before any transaction, and       *)
(* events are immutable).                                                   *)
ReversalsAreExact ==
  \A r \in rows : r.kind = "reversal" =>
    /\ \E t \in rows : /\ t.kind \in {"allocation", "unavailable"}
                       /\ t.id = r.reverses /\ t.plan = r.plan
                       /\ t.line = r.line /\ t.quantity = r.quantity
    /\ \A s \in rows : s.kind = "reversal" /\ s.reverses = r.reverses => s = r

(* Whoever was told "ok", by the first run of a command or by a replay of   *)
(* it, finds exactly the row it asked for, and a key never names two rows.  *)
AcknowledgedOnce ==
  /\ \A c \in Conn : reply[c] = "ok" => cmd[c] \in rows
  /\ \A r, s \in rows : SameTable(r, s) /\ r.key = s.key => r = s

(* The expected versions of a plan's rows are its history 0, 1, 2, ...:     *)
(* no two commands were accepted on the same reading of the plan.           *)
SerialPlan(p) == {r.expected_version : r \in {s \in rows : s.plan = p}} = 0 .. version[p] - 1

(* What the checks before the transaction are there for.                    *)

(* Nothing is packed or written off beyond the line's original quantity     *)
(* (reconciliation raises "packing conservation is violated").              *)
Conservation ==
  \A p \in Plan : \A l \in LinesOf[p] : Remaining(p, l) >= 0

(* As long as no two commands of a plan were accepted at one version, its   *)
(* lines are conserved and no box of it holds two active allocations of one *)
(* line: over-allocation always leaves two rows with one expected version,  *)
(* however the SELECTs and writes interleaved and whatever was reversed.    *)
SerialPlansConserve ==
  \A p \in Plan : SerialPlan(p) =>
    /\ \A l \in LinesOf[p] : Remaining(p, l) >= 0
    /\ \A l \in Line : \A r, s \in Active(rows, p, l) :
         r.kind = "allocation" /\ s.kind = "allocation" /\ r.box = s.box => r = s

=============================================================================
