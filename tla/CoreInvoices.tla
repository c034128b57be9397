---------------------------- MODULE CoreInvoices ----------------------------
(***************************************************************************)
(* The no-money invoice lifecycle of CoreInvoiceStore                      *)
(* (apc_core/core_invoices.py) over the tables and triggers of migrations  *)
(* 3 and 4 (apc_core/core_provenance.py).                                  *)
(*                                                                         *)
(* As in CorePacking, a method's SELECTs are separate steps outside any    *)
(* transaction and its writes are one atomic step.  Here the triggers      *)
(* check the writes again: an UPDATE of status or version is aborted       *)
(* unless an event names the version it moves from.                        *)
(*                                                                         *)
(* A command is the event it wants to record, with the order lines of a    *)
(* creation and the snapshots of an evidence conflict.  The identities     *)
(* "<invoice>:creation" and "<conflict>:event" the store derives are       *)
(* represented by the invoice and the conflict they are derived from.      *)
(***************************************************************************)
EXTENDS Integers

CONSTANTS
  Conn,       \* database connections
  LegacyConn, \* those opened before migration 4: their _p4_workflow is false
  Invoice,    \* invoice identities
  Conflict,   \* conflict identities
  EventId,    \* event identities chosen by callers
  LineId,     \* order-line identities a caller may name
  OrderLine,  \* the order lines that exist
  Snapshot,   \* snapshot identities
  SourceOf,   \* SourceOf[l]: the snapshot order line l was created from
  Later,      \* Later[s]: known snapshots imported strictly later than s
  Key,        \* idempotency keys
  None,       \* absent column
  Requests    \* the commands callers may issue, any number of times

LifecycleKinds == {"review_submission", "approval", "cancellation"}
ConflictKinds == {"evidence_conflict", "conflict_resolution"}
Kinds == {"creation"} \cup LifecycleKinds \cup ConflictKinds

Event == [kind : Kinds, id : EventId \cup Invoice \cup Conflict, invoice : Invoice,
          conflict : Conflict \cup {None}, expected_version : Nat, key : Key]

ConflictRow == [id : Conflict, invoice : Invoice, source : Snapshot, imported : Snapshot]

(* invoice is None in a resolution until the conflict has been read. *)
Command == [kind : Kinds, id : EventId \cup Invoice \cup Conflict, invoice : Invoice \cup {None},
            conflict : Conflict \cup {None}, expected_version : Nat, key : Key,
            lines : SUBSET LineId, source : Snapshot \cup {None}, imported : Snapshot \cup {None}]

Membership == [invoice : Invoice, line : OrderLine]

(* What a caller passes: the store derives the identity of creation and    *)
(* conflict events, refuses an empty or duplicated line selection, a       *)
(* creation at a version other than 0 and equal snapshots before reading   *)
(* anything.                                                               *)
WellFormed(r) ==
  /\ r.kind = "creation" => /\ r.id = r.invoice /\ r.invoice # None /\ r.conflict = None
                            /\ r.expected_version = 0 /\ r.lines # {}
  /\ r.kind \in LifecycleKinds => r.id \in EventId /\ r.invoice # None /\ r.conflict = None
  /\ r.kind = "evidence_conflict" => /\ r.conflict # None /\ r.id = r.conflict /\ r.invoice # None
                                     /\ r.source # None /\ r.imported # None
                                     /\ r.source # r.imported
  /\ r.kind = "conflict_resolution" => r.id \in EventId /\ r.conflict # None /\ r.invoice = None

ASSUME ConnAssumption == LegacyConn \subseteq Conn
ASSUME LineAssumption == OrderLine \subseteq LineId /\ SourceOf \in [OrderLine -> Snapshot]
ASSUME LaterAssumption == Later \in [Snapshot -> SUBSET Snapshot]
ASSUME NoneAssumption == None \notin Invoice \cup Conflict \cup Snapshot
ASSUME IdentityAssumption ==
  /\ EventId \cap Invoice = {} /\ EventId \cap Conflict = {} /\ Invoice \cap Conflict = {}
ASSUME RequestAssumption == Requests \subseteq {r \in Command : WellFormed(r)}

VARIABLES
  status,     \* core_invoices.status, "absent" before creation
  version,    \* core_invoices.version
  members,    \* core_invoice_lines
  events,     \* core_invoice_events, append-only
  conflicts,  \* core_invoice_conflicts, append-only
  documented, \* invoices that are the base of a P4 document
  pc,         \* the statement each connection runs next
  cmd,        \* its command
  reply       \* the outcome of its last command

tables == <<status, version, members, events, conflicts, documented>>
vars == <<tables, pc, cmd, reply>>

Statuses == {"draft", "review", "approved", "cancelled"}
Steps == {"idle", "conflict", "lookup", "identity", "selected", "invoice",
          "owner", "evidence", "resolved", "write"}

TypeOK ==
  /\ status \in [Invoice -> Statuses \cup {"absent"}]
  /\ version \in [Invoice -> Nat]
  /\ members \in SUBSET Membership
  /\ events \in SUBSET Event
  /\ conflicts \in SUBSET ConflictRow
  /\ documented \in SUBSET Invoice
  /\ pc \in [Conn -> Steps]
  /\ cmd \in [Conn -> Command]
  /\ reply \in [Conn -> {"none", "ok", "refused", "conflict"}]

-----------------------------------------------------------------------------
Exists(i) == status[i] # "absent"
LinesOf(i) == {m.line : m \in {n \in members : n.invoice = i}}

EventOf(r) == [kind |-> r.kind, id |-> r.id, invoice |-> r.invoice, conflict |-> r.conflict,
               expected_version |-> r.expected_version, key |-> r.key]
ConflictOf(r) == [id |-> r.conflict, invoice |-> r.invoice, source |-> r.source,
                  imported |-> r.imported]

AllowedFrom(kind, s) == CASE kind = "review_submission" -> s = "draft"
                          [] kind = "approval"          -> s = "review"
                          [] kind = "cancellation"      -> s # "cancelled"
                          [] OTHER                      -> TRUE

StatusAfter(kind, s) == CASE kind = "review_submission" -> "review"
                          [] kind = "approval"          -> "approved"
                          [] kind = "cancellation"      -> "cancelled"
                          [] OTHER                      -> s

(* Mutant of Justified: an event of any version justifies the move. *)
JustifiedAnyVersion(log, i, s) ==
  \E e \in log : e.invoice = i /\ AllowedFrom(e.kind, status[i]) /\ StatusAfter(e.kind, status[i]) = s

(* core_invoices_lifecycle_guard: the event that justifies moving invoice  *)
(* i to status s is on record at the version the invoice has now.          *)
Justified(log, i, s) ==
  \E e \in log : /\ e.invoice = i /\ e.expected_version = version[i]
                 /\ e.kind \in LifecycleKinds \cup ConflictKinds
                 /\ AllowedFrom(e.kind, status[i])
                 /\ StatusAfter(e.kind, status[i]) = s

(* Mutant of OwnedByDocument: migration 4 without its two P3 guards. *)
NeverOwned(i) == i \notin Invoice

(* The migration 4 triggers that take an invoice's lifecycle events and     *)
(* status changes away from P3.                                             *)
OwnedByDocument(i) == i \in documented

(* UNIQUE and PRIMARY KEY of core_invoice_events, and its triggers.        *)
EventInsertable(e) ==
  /\ \A f \in events : f.id # e.id /\ f.key # e.key
  /\ e.kind = "creation" <=> ~Exists(e.invoice)
  /\ e.kind \in LifecycleKinds => ~OwnedByDocument(e.invoice)

ConflictInsertable(k) ==
  \A j \in conflicts : /\ j.id # k.id
                       /\ <<j.invoice, j.source, j.imported>> # <<k.invoice, k.source, k.imported>>

-----------------------------------------------------------------------------
Init ==
  /\ status = [i \in Invoice |-> "absent"]
  /\ version = [i \in Invoice |-> 0]
  /\ members = {} /\ events = {} /\ conflicts = {} /\ documented = {}
  /\ pc = [c \in Conn |-> "idle"]
  /\ \E r \in Requests : cmd = [c \in Conn |-> r]
  /\ reply = [c \in Conn |-> "none"]

Goto(c, step) ==
  /\ pc' = [pc EXCEPT ![c] = step]
  /\ UNCHANGED <<tables, cmd, reply>>

Answer(c, outcome) ==
  /\ pc' = [pc EXCEPT ![c] = "idle"]
  /\ reply' = [reply EXCEPT ![c] = outcome]
  /\ UNCHANGED <<tables, cmd>>

Begin(c) ==
  /\ pc[c] = "idle"
  /\ \E r \in Requests :
       /\ cmd' = [cmd EXCEPT ![c] = r]
       /\ pc' = [pc EXCEPT ![c] = IF r.kind = "conflict_resolution" THEN "conflict" ELSE "lookup"]
  /\ reply' = [reply EXCEPT ![c] = "none"]
  /\ UNCHANGED tables

(* resolve_conflict finds the invoice through the conflict. *)
ReadConflict(c) ==
  /\ pc[c] = "conflict"
  /\ LET found == {k \in conflicts : k.id = cmd[c].conflict}
     IN \/ found = {} /\ Answer(c, "refused")
        \/ \E k \in found :
             /\ cmd' = [cmd EXCEPT ![c] = [@ EXCEPT !.invoice = k.invoice]]
             /\ pc' = [pc EXCEPT ![c] = "lookup"]
             /\ UNCHANGED <<tables, reply>>

(* create_invoice replays only while the invoice is an untouched draft. *)
LookupCreation(c) ==
  /\ pc[c] = "lookup" /\ cmd[c].kind = "creation"
  /\ LET found == {e \in events : e.kind = "creation" /\ e.key = cmd[c].key}
     IN \/ found = {} /\ Goto(c, "identity")
        \/ \E e \in found :
             Answer(c, IF /\ e.invoice = cmd[c].invoice
                          /\ version[e.invoice] = 1 /\ status[e.invoice] = "draft"
                          /\ LinesOf(e.invoice) = cmd[c].lines
                       THEN "ok" ELSE "conflict")

(* Mutant of LookupEvent: the version the command expected is not compared. *)
LookupEventAnyVersion(c) ==
  /\ pc[c] = "lookup" /\ cmd[c].kind # "creation"
  /\ LET found == {e \in events : e.key = cmd[c].key}
     IN \/ found = {} /\ Goto(c, "invoice")
        \/ \E e \in found : Answer(c, IF e.id = cmd[c].id THEN "ok" ELSE "conflict")

(* _event_replay, with the conflict row of an evidence conflict. *)
LookupEvent(c) ==
  /\ pc[c] = "lookup" /\ cmd[c].kind # "creation"
  /\ LET found == {e \in events : e.key = cmd[c].key}
     IN \/ found = {} /\ Goto(c, "invoice")
        \/ \E e \in found :
             Answer(c, IF /\ e = EventOf(cmd[c])
                          /\ e.kind = "evidence_conflict" => ConflictOf(cmd[c]) \in conflicts
                       THEN "ok" ELSE "conflict")

ReadIdentity(c) ==
  /\ pc[c] = "identity"
  /\ IF Exists(cmd[c].invoice) \/ ~(cmd[c].lines \subseteq OrderLine)
     THEN Answer(c, "refused")
     ELSE Goto(c, "selected")

ReadSelected(c) ==
  /\ pc[c] = "selected"
  /\ IF \E m \in members : m.line \in cmd[c].lines
     THEN Answer(c, "refused")
     ELSE Goto(c, "write")

(* _invoice; the status later tested is the one of the row read here.      *)
ReadInvoice(c) ==
  /\ pc[c] = "invoice"
  /\ IF \/ ~Exists(cmd[c].invoice)
        \/ version[cmd[c].invoice] # cmd[c].expected_version
        \/ ~AllowedFrom(cmd[c].kind, status[cmd[c].invoice])
     THEN Answer(c, "refused")
     ELSE Goto(c, CASE cmd[c].kind \in LifecycleKinds     -> IF c \in LegacyConn THEN "write" ELSE "owner"
                    [] cmd[c].kind = "evidence_conflict"  -> "evidence"
                    [] OTHER                              -> "resolved")

(* _p3_lifecycle_available *)
ReadOwner(c) ==
  /\ pc[c] = "owner"
  /\ IF cmd[c].invoice \in documented THEN Answer(c, "refused") ELSE Goto(c, "write")

ReadEvidence(c) ==
  /\ pc[c] = "evidence"
  /\ IF /\ \E l \in LinesOf(cmd[c].invoice) : SourceOf[l] = cmd[c].source
        /\ cmd[c].imported \in Later[cmd[c].source]
     THEN Goto(c, "write")
     ELSE Answer(c, "refused")

(* Mutant of ReadResolved: a conflict may be resolved again. *)
ReadUnresolved(c) == pc[c] = "resolved" /\ Goto(c, "write")

ReadResolved(c) ==
  /\ pc[c] = "resolved"
  /\ IF \E e \in events : e.kind = "conflict_resolution" /\ e.conflict = cmd[c].conflict
     THEN Answer(c, "refused")
     ELSE Goto(c, "write")

(* Mutant of LinesInsertable: order_line_id is not UNIQUE. *)
LinesOfNewInvoice(r) == \A m \in members : m.invoice # r.invoice

(* PRIMARY KEY and UNIQUE of core_invoice_lines. *)
LinesInsertable(r) == \A m \in members : m.invoice # r.invoice /\ m.line \notin r.lines

(* INSERT the lines, the creation event and the invoice, or nothing. *)
WriteCreation(c) ==
  LET r == cmd[c]
      insertable == EventInsertable(EventOf(r)) /\ LinesInsertable(r)
  IN /\ pc[c] = "write" /\ r.kind = "creation"
     /\ \/ ~insertable /\ Answer(c, "refused")
        \/ /\ insertable
           /\ members' = members \cup [invoice : {r.invoice}, line : r.lines]
           /\ events' = events \cup {EventOf(r)}
           /\ status' = [status EXCEPT ![r.invoice] = "draft"]
           /\ version' = [version EXCEPT ![r.invoice] = 1]
           /\ pc' = [pc EXCEPT ![c] = "idle"]
           /\ reply' = [reply EXCEPT ![c] = "ok"]
           /\ UNCHANGED <<conflicts, documented, cmd>>

(* INSERT the conflict if there is one, INSERT the event and _advance the  *)
(* invoice; the triggers see what is committed by now.                     *)
WriteEvent(c) ==
  LET r == cmd[c]
      i == r.invoice
      next == StatusAfter(r.kind, status[i])
      insertable == /\ EventInsertable(EventOf(r))
                    /\ r.kind = "evidence_conflict" => ConflictInsertable(ConflictOf(r))
                    /\ Justified(events \cup {EventOf(r)}, i, next)
                    /\ next # status[i] => ~OwnedByDocument(i)
  IN /\ pc[c] = "write" /\ r.kind # "creation"
     /\ \/ ~insertable /\ Answer(c, "refused")
        \/ /\ insertable
           /\ events' = events \cup {EventOf(r)}
           /\ conflicts' = IF r.kind = "evidence_conflict"
                           THEN conflicts \cup {ConflictOf(r)} ELSE conflicts
           /\ status' = [status EXCEPT ![i] = next]
           /\ version' = [version EXCEPT ![i] = @ + 1]
           /\ pc' = [pc EXCEPT ![c] = "idle"]
           /\ reply' = [reply EXCEPT ![c] = "ok"]
           /\ UNCHANGED <<members, documented, cmd>>

(* A CoreInvoiceWorkflowStore creates a document on a base invoice, in any *)
(* status, while P3 connections are in the middle of their commands.       *)
CreateDocument(i) ==
  /\ Exists(i) /\ i \notin documented
  /\ documented' = documented \cup {i}
  /\ UNCHANGED <<status, version, members, events, conflicts, pc, cmd, reply>>

Next ==
  \/ \E c \in Conn :
       \/ Begin(c) \/ ReadConflict(c) \/ LookupCreation(c) \/ LookupEvent(c)
       \/ ReadIdentity(c) \/ ReadSelected(c) \/ ReadInvoice(c) \/ ReadOwner(c)
       \/ ReadEvidence(c) \/ ReadResolved(c) \/ WriteCreation(c) \/ WriteEvent(c)
  \/ \E i \in Invoice : CreateDocument(i)

Spec == Init /\ [][Next]_vars
-----------------------------------------------------------------------------
EventsOf(i) == {e \in events : e.invoice = i}
VersionsOf(i, kind) == {e.expected_version : e \in {f \in EventsOf(i) : f.kind = kind}}

(* The audit log and the version agree: an invoice at version v has exactly *)
(* one event for each version it moved from, 0 .. v-1.  A retry, a refused  *)
(* command or the losing one of two commands that read the same version     *)
(* leaves neither an event nor a gap.                                       *)
VersionIsHistory ==
  \A i \in Invoice :
    /\ {e.expected_version : e \in EventsOf(i)} = 0 .. version[i] - 1
    /\ \A e, f \in EventsOf(i) : e.expected_version = f.expected_version => e = f

(* The status is what the lifecycle events on record say it is: replaying   *)
(* the log in version order gives the row's status, every event was allowed *)
(* where it stands, and nothing follows a cancellation but conflict events. *)
StatusFollowsHistory ==
  \A i \in Invoice :
    LET created   == VersionsOf(i, "creation")
        reviewed  == VersionsOf(i, "review_submission")
        approved  == VersionsOf(i, "approval")
        cancelled == VersionsOf(i, "cancellation")
    IN /\ Exists(i) <=> created # {}
       /\ \A v, w \in reviewed : v = w
       /\ \A v, w \in approved : v = w
       /\ \A v, w \in cancelled : v = w
       /\ \A w \in approved : \E v \in reviewed : v < w
       /\ \A w \in cancelled : \A v \in reviewed \cup approved : v < w
       /\ status[i] = "cancelled" <=> cancelled # {}
       /\ status[i] = "approved" <=> approved # {} /\ cancelled = {}
       /\ status[i] = "review" <=> reviewed # {} /\ approved = {} /\ cancelled = {}

(* Together: the audit log alone tells the version and the status, whatever *)
(* was refused, retried or lost a race.                                     *)
HistoryTellsStatus == VersionIsHistory /\ StatusFollowsHistory

(* An order line is billed by at most one invoice, also when two creations  *)
(* that want it pass the membership SELECT together; an invoice has lines   *)
(* and lines have an invoice.                                               *)
OneInvoicePerLine ==
  /\ \A m, n \in members : m.line = n.line => m = n
  /\ \A i \in Invoice : Exists(i) <=> LinesOf(i) # {}

EventsAbout(k, kind) == {e \in events : e.kind = kind /\ e.conflict = k.id}

(* Every recorded conflict was raised by one event of its own invoice about *)
(* a line of it, and is resolved at most once, after it was raised, on the  *)
(* same invoice.                                                            *)
ConflictsResolvedOnce ==
  \A k \in conflicts :
    /\ \E e \in EventsAbout(k, "evidence_conflict") :
         /\ e.invoice = k.invoice
         /\ \A r \in EventsAbout(k, "conflict_resolution") :
              r.invoice = k.invoice /\ r.expected_version > e.expected_version
    /\ \A q, r \in EventsAbout(k, "conflict_resolution") : q = r
    /\ \E l \in LinesOf(k.invoice) : SourceOf[l] = k.source

(* "ok" is said only of a command that is on record, whether it was run or  *)
(* replayed, and two commands never share an idempotency key or an event    *)
(* identity.                                                                *)
AcknowledgedOnce ==
  /\ \A c \in Conn : reply[c] = "ok" =>
       /\ EventOf(cmd[c]) \in events
       /\ cmd[c].kind = "creation" => LinesOf(cmd[c].invoice) = cmd[c].lines
       /\ cmd[c].kind = "evidence_conflict" => ConflictOf(cmd[c]) \in conflicts
  /\ \A e, f \in events : e.key = f.key \/ e.id = f.id => e = f

(* Once a document is based on an invoice no step moves its P3 status, not  *)
(* even by a connection that checked before the document appeared or that   *)
(* was opened before migration 4.                                           *)
FrozenOnceDocumented ==
  [][\A i \in documented : status'[i] = status[i]]_vars
=============================================================================
