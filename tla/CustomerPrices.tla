--------------------------- MODULE CustomerPrices ---------------------------
(***************************************************************************)
(* Customer prices (apc_core/customer_price_module.py) as the server that  *)
(* mounts them uses them (apc_core/server.py): rows imported from accepted *)
(* snapshots, prices staff override one by one or by applying a preview of *)
(* a pasted list, and the audit of both.                                   *)
(*                                                                         *)
(* One request runs at a time and each method that writes is one           *)
(* transaction, so a method is an action.  A method that raises changes    *)
(* nothing and is not an action; an import that fails at start leaves the  *)
(* module unmounted.  Previews live in the process and outlive the prices  *)
(* they were made from.  Descriptions and paths follow from the snapshot.  *)
(***************************************************************************)
EXTENDS Naturals, Sequences, FiniteSets

CONSTANTS
  Customer, Item,
  Price,         \* prices _validate_price accepts
  Snapshot,      \* accepted artifacts, one for each hash
  Listed,        \* Listed[s]: the rows of MainDB__CUST_PRC, [key, price]
  CustomersIn,   \* CustomersIn[s]: the codes in MainDB__CUST
  ItemsIn,       \* ItemsIn[s]: the items in MainDB__ITEM
  Paste,         \* lists that may be pasted, lines [item, price]
  Active,        \* active staff
  Ref,           \* preview references (random tokens)
  None,          \* absent, or not a price
  MaxAudit       \* bound on the audit rows of a key

Key == Customer \X Item
Row == [price : Price, source : Snapshot, override : BOOLEAN, active : BOOLEAN]
Reasons == {"duplicate_natural_key", "unknown_customer", "unknown_item", "invalid_price"}
AuditRow == [action : {"price_edited", "price_bulk_applied"},
             before : Price, after : Price, actor : Active]

ASSUME ListedAssumption == \A s \in Snapshot :
  Listed[s] \in Seq([key : Key, price : Price \cup {None}])
ASSUME PasteAssumption == Paste \subseteq Seq([item : Item, price : Price \cup {None}])
ASSUME NoneAssumption == None \notin Price /\ None \notin Snapshot /\ None \notin Row

VARIABLES
  rows,        \* customer_price_rows
  quarantine,  \* the active rows of customer_price_quarantine
  reconciled,  \* customer_price_reconciliation_state
  audit,       \* audit[k]: customer_price_activity of a key, in order
  source,      \* the snapshot of the mounted module
  previews,    \* _previews: the prices of a list, None when it needs correction
  issued       \* the references ever issued

vars == <<rows, quarantine, reconciled, audit, source, previews, issued>>

(* The type invariant: rows, audit and previews are what the columns and    *)
(* the checks of customer_price_module.py admit, and only issued references *)
(* have previews.                                                           *)
TypeOK ==
  /\ rows \in [Key -> Row \cup {None}]
  /\ quarantine \subseteq [key : Key, reason : Reasons, rows : Nat]
  /\ reconciled \in Snapshot \cup {None}
  /\ audit \in [Key -> Seq(AuditRow)]
  /\ source \in Snapshot \cup {None}
  /\ DOMAIN previews \subseteq issued /\ issued \subseteq Ref
  /\ \A r \in DOMAIN previews :
       /\ previews[r].customer \in Customer
       /\ previews[r].prices # None =>
            previews[r].prices \in [DOMAIN previews[r].prices -> Price]
            /\ DOMAIN previews[r].prices \subseteq Item

-----------------------------------------------------------------------------
(* What an import makes of a snapshot. *)
Listings(s, k) == {i \in DOMAIN Listed[s] : Listed[s][i].key = k}
PriceIn(s, k) == Listed[s][CHOOSE i \in Listings(s, k) : TRUE].price

Reason(s, k) ==
  CASE Cardinality(Listings(s, k)) > 1 -> "duplicate_natural_key"
    [] Cardinality(Listings(s, k)) <= 1 /\ k[1] \notin CustomersIn[s] -> "unknown_customer"
    [] Cardinality(Listings(s, k)) <= 1 /\ k[1] \in CustomersIn[s] /\ k[2] \notin ItemsIn[s] -> "unknown_item"
    [] OTHER -> IF PriceIn(s, k) \in Price THEN "none" ELSE "invalid_price"

ListedKeys(s) == {k \in Key : Listings(s, k) # {}}
Admitted(s) == {k \in ListedKeys(s) : Reason(s, k) = "none"}
Rejected(s) == {[key |-> k, reason |-> Reason(s, k), rows |-> Cardinality(Listings(s, k))] :
                  k \in ListedKeys(s) \ Admitted(s)}

IsActive(k) == rows[k] # None /\ rows[k].active
ActiveKeys == {k \in Key : IsActive(k)}

(* Mutant of Imported: a snapshot that lists the row again has the last word. *)
ImportedOver(s, k) == [price |-> PriceIn(s, k), source |-> s, override |-> FALSE, active |-> TRUE]

(* The row that importing s leaves for the admitted key k. *)
Imported(s, k) ==
  LET edited == rows[k] # None /\ rows[k].override IN
  [price |-> IF edited THEN rows[k].price ELSE PriceIn(s, k), source |-> s,
   override |-> edited, active |-> TRUE]

(* Mutant of Import: a row the snapshot no longer admits stays active. *)
ImportAdmitted(s) ==
  /\ rows' = [k \in Key |-> IF k \in Admitted(s) THEN Imported(s, k) ELSE rows[k]]
  /\ quarantine' = Rejected(s)
  /\ reconciled' = s

(* import_from_snapshot *)
Import(s) ==
  /\ rows' = [k \in Key |-> IF k \in Admitted(s) THEN Imported(s, k)
                            ELSE IF rows[k] = None THEN None
                            ELSE [rows[k] EXCEPT !.active = FALSE]]
  /\ quarantine' = Rejected(s)
  /\ reconciled' = s

(* _legacy_snapshot_matches_store: the store is what importing s leaves. *)
ImportedWhole(s) ==
  /\ ActiveKeys = Admitted(s)
  /\ \A k \in ActiveKeys : /\ rows[k].source = s
                           /\ rows[k].override \/ rows[k].price = PriceIn(s, k)
  /\ quarantine = Rejected(s)

-----------------------------------------------------------------------------
(* A new store, or one from before the reconciliation state was kept, with  *)
(* at most one price that staff had edited.                                 *)
Legacy(s) ==
  /\ quarantine = Rejected(s)
  /\ \E edited \in SUBSET Admitted(s), p \in Price, a \in Active :
       /\ Cardinality(edited) <= 1
       /\ rows = [k \in Key |->
            IF k \notin Admitted(s) THEN None
            ELSE [price |-> IF k \in edited THEN p ELSE PriceIn(s, k), source |-> s,
                  override |-> k \in edited, active |-> TRUE]]
       /\ audit = [k \in Key |->
            IF k \notin edited THEN <<>>
            ELSE <<[action |-> "price_edited", before |-> PriceIn(s, k), after |-> p, actor |-> a]>>]

Init ==
  /\ \/ rows = [k \in Key |-> None] /\ quarantine = {} /\ audit = [k \in Key |-> <<>>]
     \/ \E s \in Snapshot : Legacy(s)
  /\ reconciled = None /\ source = None /\ previews = <<>> /\ issued = {}

Reconciled(s) == reconciled = s \/ (reconciled = None /\ ImportedWhole(s))

(* Mutant of Start: the module can also be loaded again while it runs. *)
StartAgain(s) ==
  /\ source' = s
  /\ \/ Reconciled(s) /\ reconciled' = s /\ UNCHANGED <<rows, quarantine>>
     \/ ~Reconciled(s) /\ Import(s)
  /\ UNCHANGED <<audit, previews, issued>>

(* The server starts on s: it imports unless the store is reconciled with s. *)
Start(s) ==
  /\ source = None /\ source' = s
  /\ \/ Reconciled(s) /\ reconciled' = s /\ UNCHANGED <<rows, quarantine>>
     \/ ~Reconciled(s) /\ Import(s)
  /\ UNCHANGED <<audit, previews, issued>>

(* The process ends, by a stop or a crash, and its previews with it. *)
Stop ==
  /\ source # None
  /\ source' = None /\ previews' = <<>>
  /\ UNCHANGED <<rows, quarantine, reconciled, audit, issued>>

(* Mutant of Overridden: the new price is written without the mark. *)
OverriddenUnmarked(prices) ==
  rows' = [k \in Key |-> IF k \in DOMAIN prices THEN [rows[k] EXCEPT !.price = prices[k]] ELSE rows[k]]

(* Staff give new prices to active rows; each leaves an audit row. *)
Overridden(prices) ==
  rows' = [k \in Key |-> IF k \in DOMAIN prices
             THEN [rows[k] EXCEPT !.price = prices[k], !.override = TRUE] ELSE rows[k]]
Audited(prices, action, actor) ==
  audit' = [k \in Key |-> IF k \in DOMAIN prices
              THEN Append(audit[k], [action |-> action, before |-> rows[k].price,
                                     after |-> prices[k], actor |-> actor])
              ELSE audit[k]]

Edit(k, price, actor) ==
  /\ source # None /\ IsActive(k) /\ Len(audit[k]) < MaxAudit
  /\ Overridden([j \in {k} |-> price]) /\ Audited([j \in {k} |-> price], "price_edited", actor)
  /\ UNCHANGED <<quarantine, reconciled, source, previews, issued>>

(* A pasted list needs no correction when it names each item once, an item  *)
(* with an active row, with a price.                                        *)
Correct(c, lines) ==
  \A i \in DOMAIN lines :
    /\ lines[i].price \in Price /\ IsActive(<<c, lines[i].item>>)
    /\ \A j \in DOMAIN lines : lines[j].item = lines[i].item => j = i

Prices(lines) ==
  [item \in {lines[i].item : i \in DOMAIN lines} |->
     lines[CHOOSE i \in DOMAIN lines : lines[i].item = item].price]

PreviewTsv(r, c, lines) ==
  /\ source # None /\ r \notin issued /\ \E i \in Item : IsActive(<<c, i>>)
  /\ issued' = issued \cup {r}
  /\ previews' = [x \in DOMAIN previews \cup {r} |->
       IF x # r THEN previews[x]
       ELSE [customer |-> c, prices |-> IF Correct(c, lines) THEN Prices(lines) ELSE None]]
  /\ UNCHANGED <<rows, quarantine, reconciled, audit, source>>

(* The prices of a preview that differ from the current ones. *)
Changes(r) ==
  LET c == previews[r].customer  prices == previews[r].prices IN
  [k \in {<<c, i>> : i \in {j \in DOMAIN prices : rows[<<c, j>>].price # prices[j]}} |-> prices[k[2]]]

(* apply_preview_id: the prices of the list that differ from the current    *)
(* ones, whatever those were when the preview was made.  The preview is     *)
(* used up.                                                                 *)
Apply(r, actor) ==
  LET c == previews[r].customer  prices == previews[r].prices IN
  /\ source # None /\ prices # None
  /\ \A i \in DOMAIN prices : IsActive(<<c, i>>) /\ Len(audit[<<c, i>>]) < MaxAudit
  /\ Overridden(Changes(r)) /\ Audited(Changes(r), "price_bulk_applied", actor)
  /\ previews' = [x \in DOMAIN previews \ {r} |-> previews[x]]
  /\ UNCHANGED <<quarantine, reconciled, source, issued>>

Next ==
  \/ \E s \in Snapshot : Start(s)
  \/ Stop
  \/ \E k \in Key, p \in Price, a \in Active : Edit(k, p, a)
  \/ \E r \in Ref, c \in Customer, lines \in Paste : PreviewTsv(r, c, lines)
  \/ \E r \in DOMAIN previews, a \in Active : Apply(r, a)

Spec == Init /\ [][Next]_vars

-----------------------------------------------------------------------------
(* A store that says it is reconciled with a snapshot is what importing that *)
(* snapshot leaves, rejections included, except for the prices staff          *)
(* overrode (reconciliation_status is all the server asks before it serves).  *)
ReadyMeansImported == reconciled # None => ImportedWhole(reconciled)

(* The audit of a key is a chain: each entry starts from the price the one   *)
(* before it left, and the last left the current price, over the imports and *)
(* the stale previews between them (_apply_preview reads the price again).   *)
AuditIsAChain == \A k \in Key :
  /\ \A i \in 1 .. Len(audit[k]) - 1 : audit[k][i].after = audit[k][i + 1].before
  /\ audit[k] # <<>> => rows[k] # None /\ rows[k].price = audit[k][Len(audit[k])].after

(* A preview that was shown without a line to correct can still be applied   *)
(* as a whole: no import has retired a row it names (_apply_preview would    *)
(* raise in the middle of its list).                                         *)
PreviewsStayApplicable == \A r \in DOMAIN previews : previews[r].prices # None =>
  \A i \in DOMAIN previews[r].prices : IsActive(<<previews[r].customer, i>>)

(* What staff decided stays, and is what the audit says, over any imports.   *)
Decisions == INSTANCE StaffDecisions WITH
  Datum <- Key, Absent <- None,
  value <- [k \in Key |-> IF rows[k] = None THEN None ELSE rows[k].price],
  decided <- {k \in Key : rows[k] # None /\ rows[k].override},
  recorded <- [k \in Key |-> [i \in 1 .. Len(audit[k]) |-> audit[k][i].after]]
DecisionsStand == Decisions!Spec
=============================================================================
