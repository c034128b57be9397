# APC Core: verification

APC Core (`src/apc_core`) is a local web application for a flower shipper. It
imports accepted snapshots of a legacy database, lets staff edit the item,
customer and price catalogues that come out of them, packs orders into boxes
and turns orders into invoices and priced documents. Everything it must not
lose lives in SQLite files; several stores and several server processes may
have connections to one file open at once.

This project holds TLA+ modules of the parts where order, concurrency, retries
and crashes decide what ends up in those files, TLC configurations that check
them on small instances, and proofs, checked by TLAPS, that every safety property of
a passing run holds for every instance. `PROJECT.json` is the index: components,
runs, mutants, the source lines of every definition, findings, hazards and
theorems.

| to do | command |
|---|---|
| check a run | `tlc -config CorePacking.cfg MCCorePacking` (run table below) |
| check proofs | `tlapm CorePackingProofs.tla` (and the seven other `*Proofs.tla`) |

## 1. Inventory

State, operations and the properties that make each part correct. "Modelled"
says where to find it; the plan for the rest is in section 7.

**Source evidence** (`core_provenance.py`, `CoreProvenanceStore`). Imported
snapshots and their rows, append-only; a receipt per import; the schema, built
by five migrations that each run in one `BEGIN IMMEDIATE` transaction. An import
copies the snapshot file under a stable name, verifies it and inserts all its
rows in one transaction. Correct when an import is all or nothing, a repeated
import adds nothing, and rows never change. Only its committed effect is
modelled so far (`Import` of `CoreOrders`).

**Orders and packing** (`core_orders.py`, `CoreOrderStore`). Orders with lines
that each trace to one imported row, packing plans with a version, numbered
boxes, and quantity events (allocation, write-off, reversal), append-only.
Correct when a source quantity is never packed twice, a reversal undoes exactly
one event, a retry changes nothing and a stale writer is refused. Modelled:
`CoreOrders`, `CorePacking`.

**P3 invoices** (`core_invoices.py`, `CoreInvoiceStore`). Invoices without
money: order lines, a status (draft, review, approved, cancelled), a version, an
append-only event log, and conflicts with later evidence. Once a P4 document is
based on an invoice, P3 may no longer move its status. Correct when the log and
the row always tell one story, a line is billed once, conflicts are resolved
once. Modelled: `CoreInvoices`.

**P4 documents** (`core_invoices.py`, `CoreInvoiceWorkflowStore`). Temporary
documents with prices and a reference number out of 999 per customer and year,
confirmed under a permanent number, cancelled, corrected by a successor. Correct
when a base invoice is billed by one document at a time, a permanent number is
issued once, references have no gap, and nothing real is unpriced. Modelled:
`InvoiceWorkflow`, and abstractly `DocumentLedger`.

**Invoice drafts** (`invoice_drafts.py` store, `invoice_draft_builder.py` pure
builder, `invoice_draft_previews.py` registry of one-use previews,
`invoice_draft_service.py`, and the draft routes of `item_explorer.py`). A
preview freezes a proposal in server memory; saving consumes the preview and
inserts draft, line allocations and audit row in one transaction. Correct when
a preview saves at most once, in time, by the server that showed it and exactly
as it was shown, an order line is billed by one draft, and a draft is conflicted
exactly while a conflict is open. Modelled:
`InvoiceDrafts`, `DraftPreviews`.

**Recovery** (`recovery.py`, its routes in `item_explorer.py`, the closing of
modules in `server.py`). Registers accepted snapshots; `prepare_restore` and
`rollback` close the running modules, replace the database file and write an
audit row, in that order, and the server stops to be started again. Correct when
whatever happens between those steps nothing is lost without a copy, a rollback
gives back what a restore on record replaced, no module goes on writing to a
replaced file, and what a caller is told is what is on record. Modelled:
`Recovery`. Its authorizer (PIN, sessions, setup lock) is not modelled.

**Item catalogue** (`item_explorer.py`, `CoreStore`, `ItemExplorer`). Canonical
rows from a snapshot, values staff gave them, items staff created or archived, an
activity log, a quarantine of rejected rows. An import is one transaction per
row, repeated before every change staff ask for, while the importer
(`import_snapshot.py`) may run another one beside the server. Correct when what
staff decided survives every import and is what the log says, a complete import
leaves all it admits whatever failed before it, and the quarantine is that of the
last import. Modelled: `ItemCatalog`.

**Customer catalogue** (`customer_explorer.py`, `CustomerStore`,
`CustomerExplorer`). Customers with columns that are each the snapshot's or
staff's, an export config, consignees and notes that are each the snapshot's or
staff's, a quarantine, an activity log and the snapshot the store says it is
reconciled with. Correct when a reconciliation leaves everything that is not
staff's as the snapshot has it, and nothing else, and staff's as it was.
Modelled: `CustomerCatalog`.

**Customer prices** (`customer_price_module.py`). Imported rows and overrides
with an audit; a pasted list is shown as a preview held in memory and applied
later. Correct when a store that is skipped at start needs no import, the audit
is a chain of the prices a key had, and an old preview cannot fail halfway.
Modelled: `CustomerPrices`. The three catalogues implement one abstract
specification, `StaffDecisions`.

**Snapshot acceptance** (`snapshot_contract.py`, `certify.py`,
`import_snapshot.py`, the loading in `server.py`). A certifier copies, validates
and links an artifact and then replaces the manifest that names it; a server
reads the manifest, opens and hashes the artifact and mounts its modules on it.
Correct when the manifest always names a validated and whole artifact, and the
modules of a server show that one. Modelled: `SnapshotAcceptance`.

**HTTP routes, staff registry, server assembly** (`item_explorer.py`
`make_handler`, `core_staff_registry.py`, `server.py`). Requests run under one
`request_gate` per process, which is why a request is an action wherever one
request is one transaction. The draft routes and the staff check are modelled in
`DraftPreviews`, the recovery routes in `Recovery`, the start of a server in
`SnapshotAcceptance`; the rest passes requests on.

**Not modelled**: readers of immutable snapshots and the projections for pages
(no state changes), date parsing and fixture contracts (pure), pages (strings),
and `tools/apc_mini_release.py` (a command line over Docker and files).

How they interact: acceptance decides which file every other part reads;
importing it is the only source of the rows orders refer to and of the
catalogues' rows that staff did not make; orders feed plans and invoices; P4
documents freeze the P3 invoices they are based on, through triggers rather than
calls; drafts read snapshot files and share nothing with orders but line
identities; recovery stops everyone else. All sharing is through database files
except the two preview registries, which are memory of one process.

What is hard, and where it is looked at:

* *Reads before the transaction.* See section 2: every store of orders and
  invoices checks with SELECTs that are not protected by the transaction that
  follows. (`CorePacking`, `CoreOrders`, `CoreInvoices`, `InvoiceWorkflow`)
* *Retries.* Every command has an idempotency key; a caller that lost its answer
  asks again, while its first run or a rival commits. (the four modules of orders
  and invoices, and `InvoiceDrafts`)
* *Two layers that must agree.* Methods check, and triggers check again with
  their own text. (`CoreInvoices`, `InvoiceWorkflow`)
* *Imports against decisions.* Every catalogue is imported again and again, from
  snapshots that list, drop, duplicate or malform the rows staff have meanwhile
  edited, archived or created. (`ItemCatalog`, `CustomerCatalog`,
  `CustomerPrices`)
* *Imports in pieces.* An item import is many transactions; it may stop between
  any two or run beside another. (`ItemCatalog`)
* *Trusted summaries.* A store that says it is reconciled is not imported again,
  and a path that was hashed is opened once more. (`CustomerPrices`,
  `CustomerCatalog`, `SnapshotAcceptance`)
* *Memory and database.* A preview dies with the server, the draft does not; a
  price preview outlives the prices it was made from. (`DraftPreviews`,
  `CustomerPrices`)
* *Crashes between files, or file and database.* (`Recovery`,
  `SnapshotAcceptance`)

## 2. How the code maps to steps

Python's `sqlite3` opens a transaction implicitly before the first INSERT, UPDATE
or DELETE and not before a SELECT; `with self.connection:` only commits or rolls
back. A store method that runs `SELECT ..; SELECT ..; INSERT ..; UPDATE ..`
therefore runs each SELECT on whatever is committed at that moment, and only the
last part atomically. In `CorePacking`, `CoreOrders`, `CoreInvoices` and
`InvoiceWorkflow`

* a connection `c` runs one command at a time; `pc[c]` names the statement it
  runs next, `cmd[c]` is the command, `reply[c]` what its caller was told;
* `Begin` is the call, with whatever the method refuses before its first
  statement expressed by `WellFormed` or the type of commands;
* each `Read...`/`Lookup...` action is one SELECT with the Python tests that
  follow it, and either answers or goes on. The shared operators `Goto` and
  `Answer` are those two outcomes;
* each `Write...` action is the transaction: the constraints, foreign keys and
  triggers of the schema are its conditions (`Insertable`, `Justified`,
  `Creatable`, `NumberFree`, ...), evaluated on what is committed at *that*
  moment. If one fails, everything is rolled back and the caller is refused. A
  lock that is not obtained in time is the same step with the same effect as
  issuing nothing.

A caller may issue any request at any time and any number of times, so lost
answers and retries, duplicates and rival callers need no action of their own.
A process that dies in the middle of a command leaves its SELECTs without effect
and its transaction rolled back: for the tables that is a connection that never
takes its next step, which every behaviour of the specifications may contain.

`InvoiceDraftStore` begins its transactions explicitly (`BEGIN IMMEDIATE`) before
reading, so each of its operations is one action of `InvoiceDrafts`. A
`BUSY` refusal changes nothing and is a stuttering step there; in
`DraftPreviews`, where it still costs the preview, it is an outcome of `Save`.

In `Recovery` one request runs at a time (`request_gate` around requests, the
service's lock around the two operations), so there is one `step` and one
`request`. Each file operation or registry transaction that survives the process
is an action: `Maintenance`, `Validate`, `Backup`, `Replace`, `Audit`, `Answer`.
Between any two the process may die (`Crash`), the operation may raise (`Fail`,
which ends the request and keeps what was done) or a registered artifact may be
damaged (`Damage`); registration runs in a process of its own. The routes answer
a `ValueError`, which a `RecoveryError` is, and an `sqlite3.Error` with one and
the same 400, so `answer` has one value for both, "refused"; any other error, and
one of the connection to the caller, leaves the answer "lost".

`CustomerCatalog` and `CustomerPrices` belong to one server, whose requests run
one at a time, and nothing else opens their tables: a method that writes is one
transaction and so one action, and the reconciliation at start is part of
`Start`. A method that raises rolls its transaction back and is no action.

`ItemCatalog` is not so simple, because `backfill_from_snapshot` commits row by
row and the importer is a second process. There a process is the sequence of
transactions it has still to commit (`pending`): `Ask` puts the import and the
change staff asked for there, `RunImporter` the import, and `Clear`, `Reject`,
`Insert`, `Fill`, `Done`, `Edit`, `Create` and `Archive` each commit the first of
them. `Fail` drops what is left, which is what an exception and a crash both do.

In `SnapshotAcceptance` a step is a file operation (`Copy`, `Validate`, `Link`,
`Publish`, `ReadManifest`, `OpenArtifact`) or the mounting of one module with the
import it needs. `Damage` changes an artifact at any time except while a
certifier is at work: between the hash of a file that is already there and the
replacement of the manifest the code cannot know of it. It is a change of what
the path leads to: a server that has opened and hashed a file goes on with that
content. Bytes that change in place under an open descriptor, which the price
module reads without a second hash (`server.py:216`), are not modelled, and
`ServedIsAccepted` says nothing of them.

## 3. Modules

| module | models | state |
|---|---|---|
| `CorePacking` | `create_box`, `allocate`, `mark_unavailable`, `reverse_event` | `rows` (boxes and events), `version` of each plan |
| `CoreOrders` | `create_order`, `create_packing_plan`, the effect of imports | `sources`, `orders` (with lines in inserted order), `plans` |
| `CoreInvoices` | `create_invoice`, `submit_for_review`, `approve`, `cancel`, `record_evidence_conflict`, `resolve_conflict`; triggers of migrations 3 and 4 | `status`, `version`, `members`, `events`, `conflicts`, `documented` |
| `InvoiceWorkflow` | `create_temporary_invoice`, `override_temporary_price`, `confirm_real`, `cancel`, `create_correction_temporary`; triggers of migrations 4 and 5 | `state`, `version`, `number`, `header`, `sequence`, `events` |
| `DocumentLedger` | what `InvoiceWorkflow` promises about billing, with no documents, keys or versions | `live`, `issued` |
| `InvoiceDrafts` | `create_draft` and `create_converter_draft`, `record_staff_decision`, `record_conflict`, `resolve_conflict` | `submission`, `status`, `allocations`, `conflicts`, `audit`, and `receipts` (what callers were told) |
| `DraftPreviews` | preview and save routes, builder, registry, restart; extends `InvoiceDrafts` and calls its `Create` and `Replay` inside `Save` | `pending`, `issued`, `answer`, `accepted`, and `shown` (what the running server showed under each reference) and `served` (both history) |
| `Recovery` | `register_accepted_snapshot`, `prepare_restore`, `rollback`, their routes, `close_core_modules_for_recovery`, start, stop and crash of the server, the stores it opens on demand | `live`, `artifacts`, `accepted`, `kept` (generations), `audit`; `server`, `opened`, `closed`; `step`, `request`, `answer`; and `switches` (history) |
| `StaffDecisions` | what the three catalogues promise staff about imports: decided values stay, and are what was last recorded | `value`, `decided`, `recorded` |
| `ItemCatalog` | `backfill_from_snapshot` transaction by transaction, in the server and in the importer; `edit`, `create`, `archive`, `duplicate`, `search`; restart on another snapshot | `items`, `quarantine`, `activity`; `source`, `pending`; and `imported`, `swept` (history) |
| `CustomerCatalog` | `backfill_from_snapshot`, `create`, `edit`, `archive`, and the operations on export config, consignees and notes; start and stop | `customers` (with field provenance), `children`, `quarantine`, `reconciled`, `activity`, `source` |
| `CustomerPrices` | `import_from_snapshot`, the recognition of stores from before the reconciliation state, `edit`, `preview_tsv`, `apply_preview_id`; start and stop | `rows`, `quarantine`, `reconciled`, `audit`, `source`, `previews`, `issued` |
| `SnapshotAcceptance` | `certify_snapshot` and its variants, `_read_accepted_manifest`, the loading and mounting of the customer and price modules; damage, failed imports, a recovered database | `artifact`, `manifest`, `certifying`; `store`, `server`; and `spoiled` (history) |
| `MC*` | constants of the runs | |
| `*Proofs` | theorems and their proofs; `SnapshotProofs` has those of `SnapshotAcceptance` and `ItemCatalog`, `OrdersAndCustomersProofs` those of `CoreOrders` and `CustomerCatalog` (which is why the specifications of the first of each are called `AcceptanceSpec` and `OrdersSpec`) | |

Abstractions worth knowing:

* A command is the row (or event) it wants to insert. Two commands with one key
  are the same command exactly when their rows are equal, which is what
  `_idempotent`, `_event_replay` and the draft store compare. Actor, reason and
  timestamps are part of that identity and of no other decision.
* Quantities are natural numbers in `CorePacking` (Decimals in the code), and
  only sums and comparisons matter. Prices are model values: null or not null
  decides, and a price that is positive for Python but not for SQLite is refused
  with its whole transaction.
* Freshness of evidence is the relation `Later`: the code compares timestamps
  in Python and again in SQLite, and both must agree to record a conflict.
* The P3 and P4 stores share one file but are separate modules. P4 meets P3 only
  by taking an invoice over (`CreateDocument` of `CoreInvoices`, any invoice at
  any time); P3 meets P4 only through the immutable lines of a base invoice
  (`BaseLines`).
* Time in `DraftPreviews` is what is left of each preview (`Tick`); `TTL` and
  `MaxPending` are parameters, 300 s and 32 in the code.
* A database file in `Recovery` is the value it holds, equal to another exactly
  when their SHA-256 are; a write makes a value no file held before. An open
  connection is the number of the live file it opened, because a renamed file
  keeps its open connections. Everything the server loses when its process ends
  is reset by `Down`. The only writers of the live file are the server's modules:
  an importer that runs beside the server during a restore is not modelled, and
  neither the copy a restore makes nor `NoConnectionSurvives` covers its writes.
* A snapshot in a catalogue is what its rows say: which keys it lists, how often,
  and with which values. All columns of an item but the USA name are one value,
  as are the columns of a consignee, note or export config; the columns of a
  customer are told apart because each has its own provenance.
* The refinement mappings of the catalogues to `StaffDecisions` read a datum off
  the rows, call it decided when the code will no longer let an import touch it,
  and take what was recorded from the `after` column of the activity. They name
  what the code uses to decide, so a mark that is forgotten breaks the refinement
  at the next import.
* A hash in `SnapshotAcceptance` is the content that has it; `Ready` says which
  modules a snapshot's verification allows.
* `_p4_workflow` is computed when a store is opened: a connection opened before
  migration 4 (`LegacyConn`) skips the ownership SELECT, and only the triggers
  stop it.

## 4. Runs

TLC finishes each passing run with the whole reachable state space of its
instance. `MC` modules choose the commands so that every pair that can meet does:
rivals for one identity, key, line, box number, permanent number or reference;
the same command repeated; a command at a version that is stale, current or yet
to come.

| run | config | shows |
|---|---|---|
| `packing` | `CorePacking.cfg` | two connections, one line of quantity 3 and a foreign line, boxes with rival numbers, allocations, write-offs and two rival reversals: versions count rows, reversals are exact, acknowledgements hold, and a line is over-packed or packed twice into a box only if two commands were accepted at one version |
| `packing_overlap` | `CorePackingOverlap.cfg` | *violation* of `Conservation` (finding 1) |
| `orders` | `CoreOrders.cfg` | two connections race orders sharing identities, keys, lines and sources, plans for them, and imports |
| `invoices` | `CoreInvoices.cfg` | two connections, one of them legacy; rival creations, the lifecycle, conflicts and rival resolutions, documents taking invoices over |
| `workflow` | `InvoiceWorkflow.cfg` | two connections, three documents of two bases, one contended permanent number, a reference sequence of 2 that fills up, corrections of corrections; `ImplementsLedger` is the refinement |
| `drafts` | `DraftPreviews.cfg` | two references over a registry of two with two ticks of life, overlapping selections in both orders, a dispute that may be decided either way, an unpriced order, an inactive actor, restarts with another snapshot, and decisions and conflicts about the drafts that come of it, up to five audit rows: what is saved is what the running server showed under the reference, once and in time |
| `prices` | `CustomerPrices.cfg` | three snapshots that list, repeat, drop, misprice and bring back the rows of two customers, over new and legacy stores, with edits, previews of one- and two-line lists, and late applications; `DecisionsStand` is the refinement |
| `customers` | `CustomerCatalog.cfg` | three snapshots with duplicate, dropped and returning customers and malformed, orphaned and blank children, in any order, with any three audited changes by staff; `DecisionsStand` is the refinement |
| `items` | `ItemCatalog.cfg` | imports of an older snapshot in the server and of either in the importer, one transaction at a time, that stop anywhere, with a change by staff, a legacy override, ambiguous names and restarts; `DecisionsStand` is the refinement |
| `acceptance` | `SnapshotAcceptance.cfg` | two certifiers of three contents, one of which does not validate and one of which has no customers, cut off anywhere, damaged files, servers starting in between, imports that fail, recovered databases |
| `recovery` | `Recovery.cfg` | two snapshots of different content that compete for two identities, an eager store and two opened on demand, up to three switches and two generations: switches are traced whatever was cut off, no connection survives one, a result is only sent of a switch on record and a refused request has no row, and an answered switch leads to a server with all its modules |
| `recovery_interrupted` | `RecoveryInterrupted.cfg` | *violation* of `RollsBackLatestRestore` (finding 2) |

Bounds, and why they are enough for what the run asks:

* *Two connections.* A race is between one connection's reads and another's
  write; a third writer can only add a further write, and the invariants that
  survive are proved for any number of them.
* *Commands at listed versions.* A version is only compared for equality; each
  command is offered at the versions the plan, invoice or document has when the
  commands it contends with meet it. This also bounds the state: each identity
  can be inserted once.
* *`VIEW Relevant`* (packing, invoices, workflow) drops the command of an idle
  connection that was not told "ok", and tells the other replies apart only as
  "ok" or not. `Begin` overwrites both before anything reads them, and no
  property of these runs looks at them, so states that agree on the view have the
  same successors up to it and satisfy the same properties. The violation runs
  use no view.
* *Symmetry*: draft identities and references (`drafts`), price preview
  references (`prices`) and certifiers (`acceptance`) are only compared.
* *`MaxAudit`* and *`MaxActivity`* bound what is recorded, and name nothing of the
  code: 5 audit rows in `drafts` (a draft, a conflict and its resolution beside a
  second draft, or review and back), 2 for each key in `prices` (an edit and an
  application, or two applications), 3 in `customers`, and 1 in `items`, where each
  request is an import of its own and the second process makes the interleavings.
  What a step does depends on the rows and not on how many records there are.
  *`MaxSeq`* is 999 in the code and 2 in the run, so that the third creation meets
  the limit.
* *Three snapshots, or two in `items`.* A row can be admitted, rejected or absent
  in a snapshot; what matters to an import is the row it finds and the one listed,
  so a pair of snapshots shows every change and a third that it comes back.
* No run switches deadlock checking off: retries, imports and restarts are always
  possible.
* *`MaxSwitches` and `MaxKept`* are guards of `Ask`. Three switches and two
  generations are a restore, a second one that is cut off or not, and a rollback;
  a rollback makes no generation, so it is never cut short by `MaxKept`. One
  content beyond those that are offered lets a request change the live file
  between two switches.

Fairness. `recovery` assumes weak fairness of two actions and of nothing else:
`Stop`, because the thread started after the answer calls `shutdown` and
`serve_forever` then returns as soon as the running request is over; and `Start`,
because `prepare_restore` says a supervisor restarts the server
(`recovery.py:164`). Neither a request nor a step of one is obliged to happen.
`RestartFollows` is therefore about switches that were answered; a restore that
is refused after maintenance, whatever it did, or whose answer cannot be sent
leaves the server running with its modules closed until someone restarts it, and
the model has those behaviours. That the thread can be started at all is assumed:
`Answer` is the sending and the start of the thread in one step.
The other runs assume no fairness and check no liveness: commands are sequences
of at most nine statements without loops or waiting, imports are run by a
request or an operator, and nothing there is obliged to happen without a caller.
`FullOfLivePreviews` states as safety what could starve: expired previews never
use up the registry.

Every property has a mutant in `PROJECT.json`: a definition with the guard or
comparison a plausible bug would drop, under which TLC finds the property
violated. They stand before the definition they replace, marked "Mutant of".

## 5. Findings

1. **A line can be packed beyond its quantity** (`packing_overlap`,
   `core_orders.py:204`). `_event` compares with `_remaining` and the plan version
   before any transaction, and the UPDATE of the version is unconditional. Two
   connections at one version both pass and both commit. Reconciliation calls the
   result impossible ("packing conservation is violated"). `SerialPlansConserve`
   shows that this is the *only* way to it: over-packing always leaves two rows
   accepted at one version.
2. **A rollback may undo the wrong restore** (`recovery_interrupted`,
   `recovery.py:204`). The file is replaced before the audit row is inserted, and
   rollback goes by the last row. If a second restore is cut off in between, the
   next rollback gives back what the *first* one replaced. `SwitchesAreTraced` is
   what remains true: nothing is replaced without a copy under
   `recovery-generations`, and a rollback undoes the last restore *on record*.

Within one server process `request_gate` serialises requests, so the first needs
two processes or a store used beside the server; the second needs a crash or an
error of the registry.

The models hold, without a run that isolates them, five more behaviours a reader
of the code may not expect:

* a repeated order is called a different command if its lines were not given in
  `line_id` order (`core_orders.py:125`; `ReadLines` of `CoreOrders` compares
  with the stored order, and one order of the run is given that way);
* a repeated creation of an invoice is called a different command once the
  invoice left version 1 (`core_invoices.py:134`);
* a confirmation that repeats one that ran, with its key and another permanent
  number, is answered "ok", with the number the document really has in the
  receipt (`core_invoices.py:394`). The `workflow` run has that request:
  `AcknowledgedOnce` promises what is compared, which the number is not, and that
  the document's number is one asked for by the confirmation on record;
* a restore or rollback whose audit row cannot be inserted after the rename
  (`recovery.py:213`, `:255`) is answered with the 400 of a rejection
  (`item_explorer.py:1513`, `:1537`) although the live file was switched, and the
  server stays up with its modules closed. `AnsweredAsRecorded` is what the answer
  does tell: no row records a switch of a refused request;
* a first import of items that fails after it quarantined a row and before it
  admitted one leaves an empty catalogue that `search` takes for "a completed
  failed import" (`item_explorer.py:571`): `Search` of `ItemCatalog` is not
  enabled there, and the next change staff ask for mends it.

## 6. Proofs

A proof module proves its component's specification for every value of the
constants that satisfies the assumptions named in the component's module: types
of the constants; `None` and `Blank` distinct from what a column may hold; event
identities distinct from those the store derives; in `CorePacking`, lines with a
natural quantity; in `ItemCatalog`, that only finitely many items have a legacy
override, which are the rows of a table. Any number of connections, commands,
rows, snapshots and versions is covered.

| module | theorems |
|---|---|
| `CorePackingProofs` | `TypeOK`, `VersionCountsRows`, `ReversalsAreExact`, `AcknowledgedOnce`, `SerialPlansConserve` |
| `CoreInvoicesProofs` | `TypeOK`, `HistoryTellsStatus` (`VersionIsHistory` and `StatusFollowsHistory`), `OneInvoicePerLine`, `ConflictsResolvedOnce`, `AcknowledgedOnce`, and the action property `FrozenOnceDocumented` |
| `DraftPreviewsProofs` | of the store `TypeOK`, `OneOpenConflict`, `LinesHeldOnce`, `OneDraftPerKey`, `AuditTellsStatus`; of the routes `RegistryTypeOK`, `ServedOnceAsShown`, `FullOfLivePreviews`, `BilledOnceWhenReady`, and that the routes implement `InvoiceDrafts`, so that its invariants hold of them |
| `InvoiceWorkflowProofs` | `TypeOK`, `HistoryTellsState` (`VersionIsHistory` and `StateFollowsHistory`), `OneCorrectionChain`, `ReferencesAreDense`, `RealIsPriced`, `AcknowledgedOnce`, and the refinement `ImplementsLedger` |
| `RecoveryProofs` | `TypeOK`, `SwitchesAreTraced`, `NoConnectionSurvives`, `AnsweredAsRecorded` |
| `CustomerPricesProofs` | `TypeOK`, `ReadyMeansImported`, `AuditIsAChain`, `PreviewsStayApplicable`, and the refinement `DecisionsStand` |
| `SnapshotProofs` | of acceptance `AcceptanceTypeOK`, `AcceptedIsWhole`, `ServedIsAccepted`, `MountedIsReconciled`; of items `TypeOK`, `ImportsAreWhole`, `QuarantineTells`, and the refinement `DecisionsStand` |
| `OrdersAndCustomersProofs` | of orders `OrdersAreTraced`, `AcknowledgedAsAsked`, and what `order_lines` returns (`StoredIsOrder`); of customers `TypeOK`, `ReadyMeansImported`, and the refinement `DecisionsStand` |

The arguments:

* *Packing.* The invariant adds that `rows` is finite (a version is a
  cardinality), that a connection in the middle of a command has not answered
  it, and what a reversal past its first SELECT remembers: it carries line and
  quantity of an event that is in `rows`, and rows are immutable and never
  removed. `RowsStep` describes the only way a step changes the tables (`Write`);
  each conjunct is then proved against that, not against eight actions.
* *Conservation of packing.* A second invariant says what a connection has
  checked (`Checking`): either the version it expects is gone by the time it writes, and
  the write leaves the version it moves without a row of its own (the plan is not
  serial any more, and two rows were accepted at one version), or nothing was
  written since and the quantity it compared still stands. Sums are folds over finite sets. That they exist, do not
  depend on the order of summation and grow with the set is proved by smallest
  counterexamples: among the subsets for which it fails there is one with none
  below it (`SmallestSubset`).
* *Orders.* `Established` is what a command has learned between two statements:
  its memberships are distinct, and their sources have a positive quantity and stay
  imported. What identities, keys and lines need is checked by the constraints
  again when it writes. The rest is about the comparison: `Stored` chooses the lines of an order
  in line order, so it has to be shown that there is such a sequence, of the same
  length and with the same memberships, which needs that lines are distinct.
* *Invoices.* Checked status and version may be stale when the write runs, so
  all the invariant keeps of them is that the version expected is not above the
  row's. What carries the proof is the trigger: `Justified` demands an event at
  the *current* version that allows the move from the *current* status, and
  `VersionIsHistory` says no older event has that version, so the event just
  inserted is the one. Facts that cannot become false (a conflict exists, a line
  belongs to an invoice) are remembered per `pc` in `Memory`. `Tables` is what
  the constraints make of the rows. `ConflictsResolvedOnce` rests on both: a
  resolution that saw no other carries an older version than the row has once the
  other is committed, and is aborted.
* *Workflow.* The same two-layer argument for documents, with `Creates` and
  `Records` as the two ways the tables change. A connection has to remember even
  less: triggers and unique indexes (`Creatable`, `Justified`, `Priced`,
  `NumberFree`) check again for the base, the original, the prices and the
  permanent number what was read before the transaction. For the refinement, each
  step maps to `Open`, `Confirm` or `Cancel` of one base or to a stutter; the
  mapping reads a base's billing off its one live document, which is where
  `OneCorrectionChain` is needed, and a permanent number never leaves its
  document, cancelled or not. That the number is one asked for by the confirmation
  on record needs that a document is confirmed at most once (`StateFollowsHistory`).
* *Drafts.* Each operation is atomic, and the invariant is the conjunction of the
  properties with the link between `allocations`, `submission` and `status`. The
  audit argument works on suffixes: appending a row changes only the draft it
  names.
* *Draft routes.* `StoreStep`: whatever a route does to the store is a step of
  `InvoiceDrafts`, so its invariant is taken over as a whole. The registry adds
  that what is pending was issued, not served and is what the running server showed
  under its reference (`PendingAsShown`), so that a restart has to forget it, and
  `SavedWhenReady`: a draft on record comes from a ready proposal of an active
  actor. A saved draft never changes what it bills, so what was shown when it was
  served stays what it bills (`SavesShown`). That no line is billed
  twice over snapshots and selections is then `LinesHeldOnce` of the store, because
  readiness and keys do not prevent it.
* *Prices.* `AuditedIsOverridden` is what makes imports harmless: they keep the
  price of an overridden row and mark it active or not. `PreviewsOfServer` says
  that there are no previews while an import can run, and it is why no preview
  ever names a retired row. `Given` is what an edit and an application have in
  common; the chain and the reconciliation are proved against it once. For the
  refinement each step leaves a key alone or decides it (`KeyStep`).
* *Items.* A process is somewhere in a sequence of transactions, and the
  invariant says where (`Progress`): it imports some snapshot, its next transaction
  is the k-th, and what the first k - 1 inserted and named is in the catalogue.
  That no step takes an item or a name away (`Grows`) lets each process keep this
  whatever the other commits, fails or abandons. For the quarantine it also says
  that the rows an import has rejected so far are active while its clearing is the
  last (`RejectedBefore`), and are all there is while nobody else was in the middle
  of an import (`Undisturbed`). `WorkFact` is what an import is made of: the
  sequences of its rows joined, each known by its `Reason`, so that an `Insert` is
  due exactly for an admitted row and its `Fill` comes right behind it. For the
  refinement, `NamesStand` is why a `Fill` never overwrites a name staff gave.
* *Customers.* `DecisionsMarked` says that whatever the activity log tells of a
  column, a child or the archive mark is marked in the rows, which is all that a
  reconciliation looks at. `ReadyMeansImported` survives changes by staff because
  each clause of it is about what staff have not touched, and because what a
  snapshot admits depends only on which customers staff created
  (`AdmittedStays`). A step then leaves a datum alone or decides it (`KeyStep`).
* *Acceptance.* The invariant says for each step of a certifier what it has
  established (validated, and linked and whole while it is at work), and for each
  step of a server what it holds. A certifier that links a name already taken has
  hashed that file, so two certifiers of one content do not disturb each other.
* *Recovery.* The invariant adds, per `step`, what the request in progress may
  rely on: nothing is switched before the rename, no connection is open from
  maintenance on (opening needs a server that runs no request), and what
  validation and backup found is still so at the rename, because the live file and
  the audit have no other writer and an accepted row never changes. `AuditIsTrue`
  links each row to its switch: the row of a restore names the generation that
  holds what the switch replaced. `TablesStep` lists the four steps that change
  those tables. A row is inserted after its switch, so it never comes between an
  earlier rollback and the restore that rollback undid. `OnRecord` says of the
  answers where a request is on record: all rows are older than it up to its own
  row, and there is a result to send only after that. The artifact, which may be
  damaged at any time, is not in the invariant: `Replace` verifies the staged copy
  again.

Induction over data is done without the library's induction theorems, whose
operator parameters the provers cannot instantiate: a statement about the subsets
of a finite set, or about naturals, fails for a smallest one or for none
(`SmallestSubset`, `LeastNatural`), and a recursion or a fold is the function that
the definition chooses, shown to exist and to be unique that way.

Only model-checked: `RestartFollows`, which is liveness under fairness and needs
`ENABLED`, both out of the prover's reach. Every other property of a passing run
is a theorem. The type invariants are proved rather than run (for `CoreOrders`,
as a part of `OrderIInv`), and no run spends its time on them; to have TLC
evaluate one, add it to the configuration.

## 7. Not modelled, and what could follow

* *The copy of source evidence* (`CoreProvenanceStore.import_snapshot`, its
  receipts and the migration drivers): one transaction after a file copy.
  `CoreOrders` has its committed effect; a module of its own would add the copy
  and the five migrations, each of which is one `BEGIN IMMEDIATE` transaction.
* *The recovery authorizer* (PIN, sessions, setup lock) and the *staff registry*'s
  seed and replace: small state machines about time and files. Whether an actor is
  active is an input of `DraftPreviews`.
* *Readers of orders, shipments and legacy invoices, read models, the workspace
  page*: functions of immutable rows with no state that a step changes.
* *Dates, fixture contracts, pages*: pure parsing and text.
* *`tools/apc_mini_release.py`*: a command line over Docker, Caddy and files, whose
  state is outside the program.

Proofs that could follow: that `ItemCatalog` with no failure and no importer leaves
what one import in a single step would leave, and of `Recovery` what a restart can
rely on, as far as it is safety.
