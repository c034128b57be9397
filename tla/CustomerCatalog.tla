-------------------------- MODULE CustomerCatalog --------------------------
(***************************************************************************)
(* The customer catalogue (apc_core/customer_explorer.py) of the server    *)
(* that mounts it (apc_core/server.py): customers and what belongs to them *)
(* (export config, consignees, notes), reconciled with accepted snapshots, *)
(* and what staff create, edit and archive.                                *)
(*                                                                         *)
(* One request runs at a time, the methods that write are one transaction  *)
(* each, and the server reconciles before it serves, so a method is an     *)
(* action.  A method that raises changes nothing and is not an action; a   *)
(* reconciliation that fails at start leaves the module unmounted.  The    *)
(* columns of a child are one value, and so are those of a config.         *)
(***************************************************************************)
EXTENDS Naturals, Sequences, FiniteSets

CONSTANTS
  Customer,
  Field,         \* CUSTOMER_FIELDS
  Config,        \* the one row of customer_export_config a customer has
  Consignee,     \* source keys of customer_consignees
  Note,          \* source keys of customer_notes
  Added,         \* rows staff add to either, which have no source key
  Value,
  Snapshot,      \* accepted artifacts, one for each hash
  Listed,        \* Listed[s]: the rows of MainDB__CUST, [customer, fields]
  ChildRows,     \* ChildRows[s]: the rows that belong to customers, [customer, child, value]
  Blank,         \* a blank identifier
  None,          \* absent
  MaxActivity    \* bound on what the activity records

Source == {Config} \cup Consignee \cup Note
Child == Source \cup Added
Part == Field \cup Child \cup {"archived"}
CustomerRow == [created : BOOLEAN, archived : BOOLEAN, fields : [Field -> Value], protected : SUBSET Field]
ChildRow == [created : BOOLEAN, archived : BOOLEAN, value : Value]
Reasons == {"blank_customer_id", "duplicate_customer_id", "source_collision_core_created",
            "malformed_child", "orphan_child"}

ASSUME SnapshotAssumption == \A s \in Snapshot :
  /\ Listed[s] \in Seq([customer : Customer \cup {Blank}, fields : [Field -> Value]])
  /\ ChildRows[s] \in Seq([customer : Customer \cup {Blank}, child : Source \cup {Blank}, value : Value])
ASSUME PartAssumption == "archived" \notin Field \cup Child /\ Field \cap Child = {} /\ Added \cap Source = {}
ASSUME NoneAssumption ==
  None \notin CustomerRow \cup ChildRow \cup Snapshot \cup Value \cup {"active", "archived"}

VARIABLES
  customers,   \* core_customers, each with its customer_field_provenance
  children,    \* customer_export_config, customer_consignees, customer_notes
  quarantine,  \* the active rows of customer_quarantine
  reconciled,  \* customer_reconciliation_state
  activity,    \* activity[c, p]: what customer_activity has as after for a part, in order
  source       \* the snapshot of the mounted module

vars == <<customers, children, quarantine, reconciled, activity, source>>

(* The type invariant: what the columns and checks of CustomerStore admit,  *)
(* and a customer for every child (profile looks children up by customer).  *)
TypeOK ==
  /\ customers \in [Customer -> CustomerRow \cup {None}]
  /\ children \in [Customer \X Child -> ChildRow \cup {None}]
  /\ \A k \in Customer \X Child : children[k] # None => customers[k[1]] # None
  /\ quarantine \subseteq (Customer \cup {Blank}) \X Reasons
  /\ reconciled \in Snapshot \cup {None}
  /\ activity \in [Customer \X Part -> Seq(Value \cup {"created", "archived"})]
  /\ source \in Snapshot \cup {None}

-----------------------------------------------------------------------------
(* What a snapshot says. *)
RowsOf(s, c) == {i \in DOMAIN Listed[s] : Listed[s][i].customer = c}
Known(s) == {c \in Customer : RowsOf(s, c) # {}}
FieldsIn(s, c) == Listed[s][CHOOSE i \in RowsOf(s, c) : TRUE].fields
ChildRowsOf(s, c, ch) == {i \in DOMAIN ChildRows[s] : ChildRows[s][i].customer = c /\ ChildRows[s][i].child = ch}
ValueIn(s, c, ch) == ChildRows[s][CHOOSE i \in ChildRowsOf(s, c, ch) : TRUE].value

(* The groups of children, each malformed as a whole. *)
Groups == {{Config}, Consignee \cup {Blank}, Note}
Malformed(s, c, g) ==
  \E ch \in g : ChildRowsOf(s, c, ch) # {} /\ (ch = Blank \/ Cardinality(ChildRowsOf(s, c, ch)) > 1)
GroupOf(ch) == CHOOSE g \in Groups : ch \in g

(* The customers a snapshot may change: listed once, and not by staff first. *)
Created(c) == customers[c] # None /\ customers[c].created
Admitted(s) == {c \in Known(s) : Cardinality(RowsOf(s, c)) = 1 /\ ~Created(c)}

Rejected(s) ==
  {<<Blank, "blank_customer_id">> : i \in RowsOf(s, Blank)} \cup
  {<<c, IF Cardinality(RowsOf(s, c)) > 1 THEN "duplicate_customer_id" ELSE "source_collision_core_created">> :
     c \in Known(s) \ Admitted(s)} \cup
  {<<c, "malformed_child">> : c \in {d \in Admitted(s) : \E g \in Groups : Malformed(s, d, g)}} \cup
  {<<c, "orphan_child">> : c \in {d \in Customer \ Known(s) : \E ch \in Source \cup {Blank} : ChildRowsOf(s, d, ch) # {}}}

(* Mutant of Taken: the columns staff edited are taken from the snapshot too. *)
TakenAll(s, c) ==
  IF customers[c] = None
  THEN [created |-> FALSE, archived |-> FALSE, fields |-> FieldsIn(s, c), protected |-> {}]
  ELSE [customers[c] EXCEPT !.fields = FieldsIn(s, c)]

(* The row of an admitted customer: what staff edited is kept, and so is    *)
(* the mark of being archived, whoever set it.                              *)
Taken(s, c) ==
  IF customers[c] = None
  THEN [created |-> FALSE, archived |-> FALSE, fields |-> FieldsIn(s, c), protected |-> {}]
  ELSE [customers[c] EXCEPT !.fields =
          [f \in Field |-> IF f \in customers[c].protected THEN @[f] ELSE FieldsIn(s, c)[f]]]

(* Mutant of TakenChild: children the snapshot no longer lists are left. *)
TakenChildLeft(s, c, ch) ==
  LET row == children[<<c, ch>>]  listed == ChildRowsOf(s, c, ch) # {} IN
  IF listed /\ row = None
  THEN [created |-> FALSE, archived |-> FALSE, value |-> ValueIn(s, c, ch)]
  ELSE IF ~listed \/ row.created \/ row.archived THEN row
  ELSE [row EXCEPT !.value = ValueIn(s, c, ch)]

(* _upsert_source_children, for one child of an admitted customer. *)
TakenChild(s, c, ch) ==
  LET row == children[<<c, ch>>]
      listed == ChildRowsOf(s, c, ch) # {} /\ ~Malformed(s, c, GroupOf(ch)) IN
  IF listed /\ row = None
  THEN [created |-> FALSE, archived |-> FALSE, value |-> ValueIn(s, c, ch)]
  ELSE IF row = None \/ row.created \/ row.archived THEN row
  ELSE IF listed THEN [row EXCEPT !.value = ValueIn(s, c, ch)]
  ELSE [row EXCEPT !.archived = TRUE]

(* backfill_from_snapshot *)
Backfill(s) ==
  /\ customers' = [c \in Customer |->
       IF c \in Admitted(s) THEN Taken(s, c)
       ELSE IF customers[c] = None \/ Created(c) THEN customers[c]
       ELSE [customers[c] EXCEPT !.archived = TRUE]]
  /\ children' = [k \in Customer \X Child |->
       IF k[1] \in Admitted(s) /\ k[2] \in Source THEN TakenChild(s, k[1], k[2]) ELSE children[k]]
  /\ quarantine' = Rejected(s)
  /\ reconciled' = s

-----------------------------------------------------------------------------
Init ==
  /\ customers = [c \in Customer |-> None] /\ children = [k \in Customer \X Child |-> None]
  /\ activity = [k \in Customer \X Part |-> <<>>]
  /\ quarantine = {} /\ reconciled = None /\ source = None

(* The server starts on s and reconciles unless the store is reconciled with s. *)
Start(s) ==
  /\ source = None /\ source' = s
  /\ \/ reconciled = s /\ UNCHANGED <<customers, children, quarantine, reconciled>>
     \/ reconciled # s /\ Backfill(s)
  /\ UNCHANGED activity

(* The process ends, by a stop or a crash. *)
Stop ==
  /\ source # None /\ source' = None
  /\ UNCHANGED <<customers, children, quarantine, reconciled, activity>>

(* audit: one activity row says what became of these parts of a customer. *)
Audit(c, after) ==
  /\ source # None
  /\ Cardinality(UNION {{k} \X DOMAIN activity[k] : k \in Customer \X Part}) < MaxActivity
  /\ activity' = [k \in Customer \X Part |->
       IF k[1] = c /\ k[2] \in DOMAIN after THEN Append(activity[k], after[k[2]]) ELSE activity[k]]
  /\ UNCHANGED <<quarantine, reconciled, source>>

Create(c, fields) ==
  /\ customers[c] = None
  /\ customers' = [customers EXCEPT ![c] =
       [created |-> TRUE, archived |-> FALSE, fields |-> fields, protected |-> {}]]
  /\ Audit(c, [p \in Field |-> "created"])
  /\ UNCHANGED children

(* edit, of an archived customer too *)
Edit(c, changes) ==
  /\ customers[c] # None
  /\ customers' = [customers EXCEPT
       ![c].fields = [f \in Field |-> IF f \in DOMAIN changes THEN changes[f] ELSE @[f]],
       ![c].protected = @ \cup DOMAIN changes]
  /\ Audit(c, changes)
  /\ UNCHANGED children

Archive(c) ==
  /\ customers[c] # None
  /\ customers' = [customers EXCEPT ![c].archived = TRUE]
  /\ Audit(c, [p \in {"archived"} |-> "archived"])
  /\ UNCHANGED children

IsActive(c, ch) == children[<<c, ch>>] # None /\ ~children[<<c, ch>>].archived

(* A child becomes what staff say, and theirs. *)
SetChild(c, ch, v) ==
  /\ children' = [children EXCEPT ![<<c, ch>>] = [created |-> TRUE, archived |-> FALSE, value |-> v]]
  /\ Audit(c, [p \in {ch} |-> v])
  /\ UNCHANGED customers

(* edit_export_config, which also gives a customer the config it lacks, or  *)
(* had archived                                                             *)
EditConfig(c, v) == customers[c] # None /\ SetChild(c, Config, v)

(* add_consignee, add_note *)
AddChild(c, ch, v) == customers[c] # None /\ children[<<c, ch>>] = None /\ SetChild(c, ch, v)

(* edit_consignee, edit_note *)
EditChild(c, ch, v) == IsActive(c, ch) /\ SetChild(c, ch, v)

(* archive_export_config, archive_consignee, archive_note *)
ArchiveChild(c, ch) ==
  /\ IsActive(c, ch)
  /\ children' = [children EXCEPT ![<<c, ch>>].archived = TRUE]
  /\ Audit(c, [p \in {ch} |-> "archived"])
  /\ UNCHANGED customers

Changes == UNION {[fs -> Value] : fs \in SUBSET Field \ {{}}}

Next ==
  \/ \E s \in Snapshot : Start(s)
  \/ Stop
  \/ \E c \in Customer :
       \/ \E fields \in [Field -> Value] : Create(c, fields)
       \/ \E changes \in Changes : Edit(c, changes)
       \/ Archive(c)
       \/ \E v \in Value : EditConfig(c, v)
       \/ \E ch \in Added, v \in Value : AddChild(c, ch, v)
       \/ \E ch \in Child \ {Config}, v \in Value : EditChild(c, ch, v)
       \/ \E ch \in Child : ArchiveChild(c, ch)

Spec == Init /\ [][Next]_vars

-----------------------------------------------------------------------------
(* A store that says it is reconciled with a snapshot shows nothing of an   *)
(* earlier one: what it shows is the snapshot's, or staff made or edited it, *)
(* and what it hides the snapshot rejects or omits, or it was hidden before. *)
(* (The server serves on the strength of reconciliation_status alone.)       *)
ReadyMeansImported == LET s == reconciled IN s # None =>
  /\ quarantine = Rejected(s)
  /\ \A c \in Customer :
       /\ c \in Admitted(s) => customers[c] # None /\
            \A f \in Field : f \in customers[c].protected \/ customers[c].fields[f] = FieldsIn(s, c)[f]
       /\ c \notin Admitted(s) /\ customers[c] # None => customers[c].created \/ customers[c].archived
  /\ \A c \in Admitted(s), ch \in Source :
       LET listed == ChildRowsOf(s, c, ch) # {} /\ ~Malformed(s, c, GroupOf(ch)) IN
       /\ listed => children[<<c, ch>>] # None
       /\ IsActive(c, ch) /\ ~children[<<c, ch>>].created => listed /\ children[<<c, ch>>].value = ValueIn(s, c, ch)

(* What staff decided about a customer, a column or a child stays over any   *)
(* imports, and is what the activity log says (backfill_from_snapshot        *)
(* promises to keep protected columns and rows staff own).                   *)
ValueOf(c, p) ==
  IF customers[c] = None THEN None
  ELSE IF p \in Field THEN customers[c].fields[p]
  ELSE IF p = "archived" THEN IF customers[c].archived THEN "archived" ELSE "active"
  ELSE IF children[<<c, p>>] = None THEN None
  ELSE IF children[<<c, p>>].archived THEN "archived" ELSE children[<<c, p>>].value
DecidedOn(c, p) ==
  /\ ValueOf(c, p) # None
  /\ \/ activity[<<c, p>>] # <<>>
     \/ p \in Field \cup {"archived"} /\ (Created(c) \/ p \in customers[c].protected)
     \/ p \in Child /\ children[<<c, p>>].created
Decisions == INSTANCE StaffDecisions WITH
  Datum <- Customer \X Part, Absent <- None,
  value <- [k \in Customer \X Part |-> ValueOf(k[1], k[2])],
  decided <- {k \in Customer \X Part : DecidedOn(k[1], k[2])},
  recorded <- activity
DecisionsStand == Decisions!Spec
=============================================================================
