---------------------------- MODULE ItemCatalog ----------------------------
(***************************************************************************)
(* The item catalogue (CoreStore and ItemExplorer of                       *)
(* apc_core/item_explorer.py): items imported from accepted snapshots, and *)
(* what staff create, edit and archive.                                    *)
(*                                                                         *)
(* An import is not one transaction but one for every row it rejects,      *)
(* inserts or fills.  The server runs one before each change staff ask for *)
(* (and before a search of an empty catalogue), and the importer           *)
(* (apc_core/import_snapshot.py) runs one beside the server, often of a    *)
(* newer snapshot.  A process is the sequence of transactions it has still *)
(* to commit; between any two of them the other may commit, or the process *)
(* fail: a lost race to insert, a full disk, a lock, a crash.  All columns *)
(* of an item but the USA name are one value, data.                        *)
(***************************************************************************)
EXTENDS Naturals, FiniteSets, SequencesExt

CONSTANTS
  Item, Value,
  Snapshot,
  Listed,       \* Listed[s]: rows of MainDB__ITEM, [item, data, usa, valid]
  Auxiliary,    \* Auxiliary[s]: the tables joined to it, each the items of its rows
  ChangeName,   \* ChangeName[s]: the USA rows of TempDB__ChangeName, [item, name]
  Override,     \* Override[i]: what the legacy table item_overrides has, [data, usa]
  Changes,      \* the changes staff may ask for
  Blank,        \* a blank identifier or name
  None,         \* absent
  MaxActivity   \* bound on the activity

Process == {"server", "importer"}
Part == {"data", "usa", "archived"}
ItemRow == [created : BOOLEAN, archived : BOOLEAN, data : Value, usa : Value \cup {Blank}]

(* What _clean_changes and create let through, each one transaction. *)
Change == [op : {"edit"}, item : Item, part : {"data", "usa"}, value : Value]
          \cup [op : {"create"}, item : Item, data : Value, usa : Value \cup {Blank}]
          \cup [op : {"archive"}, item : Item]

(* What the importing methods of CoreStore are called with. *)
Reasons == {"unmatched_item_id", "duplicate_item_id", "duplicate_auxiliary_item_id", "out_of_range",
            "duplicate_usa_name_item_id", "blank_usa_name", "unmatched_override"}
Transaction == [op : {"clear", "done"}, of : Snapshot]
               \cup [op : {"quarantine"}, item : Item \cup {Blank}, reason : Reasons]
               \cup [op : {"insert"}, item : Item, data : Value, usa : Value \cup {Blank}]
               \cup [op : {"fill"}, item : Item, usa : Value]
               \cup Change

ASSUME ChangesAssumption == Changes \subseteq Change
ASSUME SnapshotAssumption == \A s \in Snapshot :
  /\ Listed[s] \in Seq([item : Item \cup {Blank}, data : Value, usa : Value \cup {Blank}, valid : BOOLEAN])
  /\ ChangeName[s] \in Seq([item : Item \cup {Blank}, name : Value \cup {Blank}])
ASSUME OverrideAssumption ==
  /\ \A i \in Item : Override[i] # None => Override[i] \in [data : Value, usa : Value \cup {Blank, None}]
  /\ IsFiniteSet({i \in Item : Override[i] # None})
ASSUME AbsenceAssumption ==
  /\ Blank \notin Item \cup Value
  /\ None \notin ItemRow \cup Snapshot \cup Value \cup Reasons \cup {Blank, "active", "archived"}
  /\ None \notin [by : Process, of : Snapshot, done : BOOLEAN, alone : BOOLEAN]

VARIABLES
  items,       \* core_items
  quarantine,  \* the active rows of item_backfill_quarantine, [item, reason]
  activity,    \* activity[i, p]: what the activity log has for a part, in order
  source,      \* the snapshot the server was started on
  pending,     \* pending[p]: the transactions a process has still to commit
  imported,    \* the snapshots some import has completed (history)
  swept        \* the last import to clear the quarantine (history)

vars == <<items, quarantine, activity, source, pending, imported, swept>>

-----------------------------------------------------------------------------
(* What a snapshot says of an item. *)
Listings(s, i) == Cardinality({n \in DOMAIN Listed[s] : Listed[s][n].item = i})
ListedItems(s) == {i \in Item : Listings(s, i) > 0}

(* _auxiliary_item_values: an auxiliary table names the item twice. *)
Conflicting(s, i) == \E table \in DOMAIN Auxiliary[s] : \E m, n \in DOMAIN Auxiliary[s][table] :
  m # n /\ Auxiliary[s][table][m] = i /\ Auxiliary[s][table][n] = i

(* _usa_name_values *)
UsaNames(s, i) == {n \in DOMAIN ChangeName[s] : ChangeName[s][n].item = i}
UsaName(s, i) == IF Cardinality(UsaNames(s, i)) = 1
                 THEN ChangeName[s][CHOOSE n \in UsaNames(s, i) : TRUE].name ELSE Blank
UsaIssue(s, i) ==
  CASE Cardinality(UsaNames(s, i)) > 1 -> "duplicate_usa_name_item_id"
    [] Cardinality(UsaNames(s, i)) = 1 /\ UsaName(s, i) = Blank -> "blank_usa_name"
    [] OTHER -> None

(* Why the import rejects a row, or None. *)
Reason(s, row) ==
  IF row.item = Blank THEN "unmatched_item_id"
  ELSE IF Listings(s, row.item) > 1 THEN "duplicate_item_id"
  ELSE IF Conflicting(s, row.item) THEN "duplicate_auxiliary_item_id"
  ELSE IF ~row.valid THEN "out_of_range" ELSE None

(* _baseline_items: the row's own USA name, else the declaration's. *)
Usa(s, row) == IF row.usa # Blank THEN row.usa ELSE UsaName(s, row.item)

Quarantine(i, reason) == [op |-> "quarantine", item |-> i, reason |-> reason]
Overridden == {i \in Item : Override[i] # None}

(* Mutant of TransactionsOf: a row with an ambiguous USA name is rejected. *)
TransactionsOfNamed(s, row) ==
  IF Reason(s, row) # None THEN <<Quarantine(row.item, Reason(s, row))>>
  ELSE IF UsaIssue(s, row.item) # None THEN <<Quarantine(row.item, UsaIssue(s, row.item))>>
  ELSE <<[op |-> "insert", item |-> row.item, data |-> row.data, usa |-> Usa(s, row)]>>

(* The transactions an import makes of a row. *)
TransactionsOf(s, row) ==
  LET issue == UsaIssue(s, row.item)  usa == Usa(s, row) IN
  IF Reason(s, row) # None THEN <<Quarantine(row.item, Reason(s, row))>>
  ELSE <<[op |-> "insert", item |-> row.item, data |-> row.data, usa |-> usa]>>
       \o (IF usa # Blank /\ issue = None THEN <<[op |-> "fill", item |-> row.item, usa |-> usa]>> ELSE <<>>)
       \o (IF issue # None THEN <<Quarantine(row.item, issue)>> ELSE <<>>)

(* backfill_from_snapshot *)
Import(s) ==
  <<[op |-> "clear", of |-> s]>>
  \o FlattenSeq([n \in DOMAIN Listed[s] |-> TransactionsOf(s, Listed[s][n])])
  \o LET unmatched == SetToSeq(Overridden \ ListedItems(s)) IN
     [n \in DOMAIN unmatched |-> Quarantine(unmatched[n], "unmatched_override")]
  \o <<[op |-> "done", of |-> s]>>

Rejections(s) ==
  {[item |-> Import(s)[n].item, reason |-> Import(s)[n].reason] :
     n \in {m \in DOMAIN Import(s) : Import(s)[m].op = "quarantine"}}
Admitted(s) == {i \in ListedItems(s) :
  \E n \in DOMAIN Listed[s] : Listed[s][n].item = i /\ Reason(s, Listed[s][n]) = None}

-----------------------------------------------------------------------------
Init ==
  /\ items = [i \in Item |-> None] /\ quarantine = {}
  /\ activity = [k \in Item \X Part |-> <<>>]
  /\ source \in Snapshot
  /\ pending = [p \in Process |-> <<>>]
  /\ imported = {} /\ swept = None

ActivityRows == Cardinality(UNION {{k} \X DOMAIN activity[k] : k \in Item \X Part})

Requested(transactions) ==
  /\ pending["server"] = <<>> /\ pending' = [pending EXCEPT !["server"] = transactions]
  /\ UNCHANGED <<items, quarantine, activity, source, imported, swept>>

(* edit, create, archive, and duplicate, which changes nothing itself *)
Ask(change) == ActivityRows < MaxActivity /\ Requested(Import(source) \o <<change>>)
Duplicate == ActivityRows < MaxActivity /\ Requested(Import(source))

(* search *)
Search ==
  /\ \A i \in Item : items[i] = None
  /\ quarantine = {}
  /\ Requested(Import(source))

(* import_latest, of the snapshot it has just certified *)
RunImporter(s) ==
  /\ pending["importer"] = <<>> /\ pending' = [pending EXCEPT !["importer"] = Import(s)]
  /\ UNCHANGED <<items, quarantine, activity, source, imported, swept>>

(* The server is started again, on the snapshot accepted by then. *)
Restart(s) ==
  /\ source' = s /\ pending' = [pending EXCEPT !["server"] = <<>>]
  /\ UNCHANGED <<items, quarantine, activity, imported, swept>>

(* What a process has not committed is not done. *)
Fail(p) ==
  /\ pending[p] # <<>> /\ pending' = [pending EXCEPT ![p] = <<>>]
  /\ UNCHANGED <<items, quarantine, activity, source, imported, swept>>

-----------------------------------------------------------------------------
(* The transactions. *)
Due(p, op) == pending[p] # <<>> /\ Head(pending[p]).op = op
Committed(p) == pending' = [pending EXCEPT ![p] = Tail(@)]

(* Mutant of Clear: what earlier imports rejected stays active. *)
ClearNothing(p) ==
  /\ Due(p, "clear") /\ Committed(p)
  /\ swept' = [by |-> p, of |-> Head(pending[p]).of, done |-> FALSE,
               alone |-> \A q \in Process \ {p} : pending[q] = <<>> \/ Head(pending[q]).op = "clear"]
  /\ UNCHANGED <<items, quarantine, activity, source, imported>>

(* clear_active_quarantines *)
Clear(p) ==
  /\ Due(p, "clear") /\ Committed(p)
  /\ quarantine' = {}
  /\ swept' = [by |-> p, of |-> Head(pending[p]).of, done |-> FALSE,
               alone |-> \A q \in Process \ {p} : pending[q] = <<>> \/ Head(pending[q]).op = "clear"]
  /\ UNCHANGED <<items, activity, source, imported>>

(* quarantine *)
Reject(p) ==
  /\ Due(p, "quarantine") /\ Committed(p)
  /\ quarantine' = quarantine \cup {[item |-> Head(pending[p]).item, reason |-> Head(pending[p]).reason]}
  /\ UNCHANGED <<items, activity, source, imported, swept>>

(* import_canonical, which prefers what a legacy override has *)
Insert(p) == LET t == Head(pending[p])  legacy == Override[t.item] IN
  /\ Due(p, "insert") /\ Committed(p)
  /\ items' = IF items[t.item] # None THEN items
              ELSE [items EXCEPT ![t.item] =
                [created |-> FALSE, archived |-> FALSE,
                 data |-> IF legacy = None THEN t.data ELSE legacy.data,
                 usa |-> IF legacy = None \/ legacy.usa = None THEN t.usa ELSE legacy.usa]]
  /\ UNCHANGED <<quarantine, activity, source, imported, swept>>

(* Mutant of Fill: the name staff gave is replaced. *)
FillAnyway(p) == LET t == Head(pending[p]) IN
  /\ Due(p, "fill") /\ Committed(p)
  /\ items' = [items EXCEPT ![t.item].usa = IF items[t.item].created THEN @ ELSE t.usa]
  /\ UNCHANGED <<quarantine, activity, source, imported, swept>>

(* backfill_canonical_usa_name *)
Fill(p) == LET t == Head(pending[p])  item == items[t.item]  legacy == Override[t.item] IN
  /\ Due(p, "fill") /\ Committed(p)
  /\ items' = [items EXCEPT ![t.item].usa =
       IF ~item.created /\ @ = Blank /\ (legacy = None \/ legacy.usa \in {None, Blank}) THEN t.usa ELSE @]
  /\ UNCHANGED <<quarantine, activity, source, imported, swept>>

(* The import returns. *)
Done(p) ==
  /\ Due(p, "done") /\ Committed(p)
  /\ imported' = imported \cup {Head(pending[p]).of}
  /\ swept' = IF swept.by = p THEN [swept EXCEPT !.done = TRUE] ELSE swept
  /\ UNCHANGED <<items, quarantine, activity, source>>

Logged(i, after) ==
  activity' = [k \in Item \X Part |->
    IF k[1] = i /\ k[2] \in DOMAIN after THEN Append(activity[k], after[k[2]]) ELSE activity[k]]

(* update_canonical, refused when there is no such item *)
Edit == LET t == Head(pending["server"]) IN
  /\ Due("server", "edit") /\ Committed("server")
  /\ IF items[t.item] = None THEN UNCHANGED <<items, activity>>
     ELSE /\ items' = [items EXCEPT ![t.item] =
               IF t.part = "data" THEN [@ EXCEPT !.data = t.value] ELSE [@ EXCEPT !.usa = t.value]]
          /\ Logged(t.item, [p \in {t.part} |-> t.value])
  /\ UNCHANGED <<quarantine, source, imported, swept>>

(* create_canonical, refused when there is one *)
Create == LET t == Head(pending["server"]) IN
  /\ Due("server", "create") /\ Committed("server")
  /\ IF items[t.item] # None THEN UNCHANGED <<items, activity>>
     ELSE /\ items' = [items EXCEPT ![t.item] =
               [created |-> TRUE, archived |-> FALSE, data |-> t.data, usa |-> t.usa]]
          /\ Logged(t.item, [p \in {"data", "usa"} |-> "created"])
  /\ UNCHANGED <<quarantine, source, imported, swept>>

(* archive_canonical *)
Archive == LET t == Head(pending["server"]) IN
  /\ Due("server", "archive") /\ Committed("server")
  /\ IF items[t.item] = None THEN UNCHANGED <<items, activity>>
     ELSE /\ items' = [items EXCEPT ![t.item].archived = TRUE]
          /\ Logged(t.item, [p \in {"archived"} |-> "archived"])
  /\ UNCHANGED <<quarantine, source, imported, swept>>

Next ==
  \/ \E change \in Changes : Ask(change)
  \/ Duplicate \/ Search
  \/ \E s \in Snapshot : RunImporter(s) \/ Restart(s)
  \/ \E p \in Process : Clear(p) \/ Reject(p) \/ Insert(p) \/ Fill(p) \/ Done(p) \/ Fail(p)
  \/ Edit \/ Create \/ Archive

Spec == Init /\ [][Next]_vars

-----------------------------------------------------------------------------
(* The type invariant: what the columns and checks of CoreStore admit; no    *)
(* transaction runs on an item the one before it has not put there.          *)
TypeOK ==
  /\ items \in [Item -> ItemRow \cup {None}]
  /\ quarantine \subseteq [item : Item \cup {Blank}, reason : Reasons]
  /\ activity \in [Item \X Part -> Seq(Value \cup {Blank, "created", "archived"})]
  /\ source \in Snapshot /\ imported \subseteq Snapshot
  /\ pending \in [Process -> Seq(Transaction)]
  /\ swept \in [by : Process, of : Snapshot, done : BOOLEAN, alone : BOOLEAN] \cup {None}
  /\ \A p \in Process : Due(p, "fill") => items[Head(pending[p]).item] # None

(* An import that returns has left every item it admits in the catalogue,    *)
(* named where the snapshot or staff could name it, whichever imports failed *)
(* or ran beside it; and nothing else got in but what staff created.         *)
ImportsAreWhole ==
  /\ \A s \in imported : \A n \in DOMAIN Listed[s] :
       LET row == Listed[s][n] IN Reason(s, row) = None =>
         /\ items[row.item] # None
         /\ Usa(s, row) # Blank /\ UsaIssue(s, row.item) = None /\ Override[row.item] = None
              => items[row.item].created \/ items[row.item].usa # Blank
  /\ \A i \in Item : items[i] # None /\ ~items[i].created => \E s \in Snapshot : i \in Admitted(s)

(* The quarantine tells what the last import to clear it rejected, once that *)
(* returns: everything it rejected, and nothing else unless another import   *)
(* was already under way (backfill_from_snapshot clears before it rejects).  *)
QuarantineTells ==
  swept # None /\ swept.done =>
    /\ Rejections(swept.of) \subseteq quarantine
    /\ swept.alone => quarantine = Rejections(swept.of)

(* What staff decided about an item stays over any imports, also those that  *)
(* run between their request and their change, and is what the activity log  *)
(* says (backfill_from_snapshot: "never replace overrides").                 *)
ValueOf(i, p) ==
  IF items[i] = None THEN None
  ELSE IF p = "archived" THEN IF items[i].archived THEN "archived" ELSE "active"
  ELSE items[i][p]
Decisions == INSTANCE StaffDecisions WITH
  Datum <- Item \X Part, Absent <- None,
  value <- [k \in Item \X Part |-> ValueOf(k[1], k[2])],
  decided <- {k \in Item \X Part : items[k[1]] # None /\ (items[k[1]].created \/ activity[k] # <<>>)},
  recorded <- activity
DecisionsStand == Decisions!Spec
=============================================================================
