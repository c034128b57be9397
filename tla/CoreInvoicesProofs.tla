------------------------- MODULE CoreInvoicesProofs -------------------------
(***************************************************************************)
(* What the tables and triggers guarantee the invoice lifecycle for any    *)
(* number of connections, old and new, invoices, lines and requests.       *)
(*                                                                         *)
(* The properties do not follow from each other step by step: what makes   *)
(* them inductive is what a connection still knows when it writes, after   *)
(* others may have written since its SELECTs.  Memory says what of that    *)
(* cannot have changed; the rest is checked again by Justified, which      *)
(* refuses every event but one of the invoice's version at that moment.    *)
(***************************************************************************)
EXTENDS CoreInvoices, TLAPS

(* What the store derives or checks of a command before it reads anything. *)
Commands ==
  \A c \in Conn :
    /\ cmd[c].kind = "creation" => /\ cmd[c].id = cmd[c].invoice /\ cmd[c].conflict = None
                                   /\ cmd[c].expected_version = 0 /\ cmd[c].lines # {}
    /\ cmd[c].kind = "evidence_conflict" => /\ cmd[c].conflict # None /\ cmd[c].source # None
                                            /\ cmd[c].imported # None
    /\ cmd[c].kind = "conflict_resolution" => cmd[c].conflict # None

Raised(r) == \E k \in conflicts : k.id = r.conflict /\ k.invoice = r.invoice
Resolved(k) == \E e \in events : e.kind = "conflict_resolution" /\ e.conflict = k

(* What the statements a connection has run tell of its command.           *)
Knows(c) ==
  LET r == cmd[c] IN
  /\ pc[c] = "conflict" => r.kind = "conflict_resolution"
  /\ pc[c] \notin {"idle", "conflict"} => r.invoice \in Invoice
  /\ pc[c] \in {"identity", "selected"} => r.kind = "creation"
  /\ pc[c] \in {"invoice", "owner", "evidence", "resolved"} => r.kind # "creation"
  /\ pc[c] = "owner" => r.kind \in LifecycleKinds
  /\ pc[c] = "evidence" => r.kind = "evidence_conflict"
  /\ pc[c] = "resolved" => r.kind = "conflict_resolution"
  /\ pc[c] # "idle" => reply[c] = "none"
  /\ pc[c] \in {"selected", "write"} /\ r.kind = "creation" => r.lines \subseteq OrderLine
  /\ pc[c] \in {"owner", "evidence", "resolved", "write"} /\ r.kind # "creation" =>
       r.expected_version <= version[r.invoice]
  /\ pc[c] = "write" /\ r.kind = "evidence_conflict" =>
       \E l \in LinesOf(r.invoice) : SourceOf[l] = r.source
  /\ pc[c] \notin {"idle", "conflict"} /\ r.kind = "conflict_resolution" => Raised(r)
  /\ pc[c] = "write" /\ r.kind = "conflict_resolution" /\ Resolved(r.conflict) =>
       r.expected_version < version[r.invoice]

Memory == \A c \in Conn : Knows(c)

(* What the constraints make of the tables. *)
Tables ==
  /\ \A i \in Invoice : Exists(i) <=> version[i] # 0
  /\ \A i \in documented : Exists(i)
  /\ \A e \in events : e.kind = "creation" =>
       e.id = e.invoice /\ e.conflict = None /\ e.expected_version = 0
  /\ \A e \in events : e.kind = "conflict_resolution" => \E k \in conflicts : k.id = e.conflict
  /\ \A j, k \in conflicts : j.id = k.id => j = k

IInv == /\ TypeOK /\ Commands /\ Memory /\ Tables
        /\ VersionIsHistory
        /\ StatusFollowsHistory
        /\ OneInvoicePerLine
        /\ ConflictsResolvedOnce
        /\ AcknowledgedOnce

(* The four ways a step can change the tables. *)
Creates(c) ==
  LET r == cmd[c] IN
  /\ pc[c] = "write" /\ r.kind = "creation"
  /\ EventInsertable(EventOf(r)) /\ LinesInsertable(r)
  /\ members' = members \cup [invoice : {r.invoice}, line : r.lines]
  /\ events' = events \cup {EventOf(r)}
  /\ status' = [status EXCEPT ![r.invoice] = "draft"]
  /\ version' = [version EXCEPT ![r.invoice] = 1]
  /\ UNCHANGED <<conflicts, documented>>

Records(c) ==
  LET r == cmd[c]
      next == StatusAfter(r.kind, status[r.invoice])
  IN /\ pc[c] = "write" /\ r.kind # "creation"
     /\ EventInsertable(EventOf(r))
     /\ r.kind = "evidence_conflict" => ConflictInsertable(ConflictOf(r))
     /\ Justified(events \cup {EventOf(r)}, r.invoice, next)
     /\ next # status[r.invoice] => ~OwnedByDocument(r.invoice)
     /\ events' = events \cup {EventOf(r)}
     /\ conflicts' = IF r.kind = "evidence_conflict" THEN conflicts \cup {ConflictOf(r)} ELSE conflicts
     /\ status' = [status EXCEPT ![r.invoice] = next]
     /\ version' = [version EXCEPT ![r.invoice] = @ + 1]
     /\ UNCHANGED <<members, documented>>

Reads(c) == \/ Begin(c) \/ ReadConflict(c) \/ LookupCreation(c) \/ LookupEvent(c)
            \/ ReadIdentity(c) \/ ReadSelected(c) \/ ReadInvoice(c) \/ ReadOwner(c)
            \/ ReadEvidence(c) \/ ReadResolved(c)

-----------------------------------------------------------------------------
(* The empty database satisfies the invariant. *)
LEMMA InitInvariant == Init => IInv
<1> SUFFICES ASSUME Init PROVE IInv
  OBVIOUS
<1>1. cmd \in [Conn -> Requests]
  BY DEF Init
<1>2. TypeOK
  BY <1>1, RequestAssumption DEF Init, TypeOK, Steps, Statuses
<1>3. Commands
  BY <1>1, RequestAssumption DEF Commands, WellFormed
<1>4. Memory /\ Tables
  BY DEF Init, Memory, Knows, Tables, Exists
<1>5. \A i \in Invoice : EventsOf(i) = {} /\ LinesOf(i) = {}
  BY DEF Init, EventsOf, LinesOf
<1>6. VersionIsHistory
  <2>1. 0 .. 0 - 1 = {}
    OBVIOUS
  <2> QED
    BY <1>5, <2>1 DEF Init, VersionIsHistory
<1>7. StatusFollowsHistory
  <2>1. \A i \in Invoice, k \in Kinds : VersionsOf(i, k) = {}
    BY <1>5 DEF VersionsOf
  <2> QED
    BY <2>1 DEF Init, StatusFollowsHistory, Exists, Kinds, LifecycleKinds
<1>8. OneInvoicePerLine /\ ConflictsResolvedOnce /\ AcknowledgedOnce
  BY <1>5 DEF Init, OneInvoicePerLine, ConflictsResolvedOnce, AcknowledgedOnce, Exists
<1> QED
  BY <1>2, <1>3, <1>4, <1>6, <1>7, <1>8 DEF IInv

(* Only a write, and the creation of a document, changes a table.          *)
LEMMA TablesStep ==
  ASSUME TypeOK, [Next]_vars
  PROVE  \/ UNCHANGED tables
         \/ \E c \in Conn : WriteCreation(c) /\ Creates(c)
         \/ \E c \in Conn : WriteEvent(c) /\ Records(c)
         \/ \E i \in Invoice : CreateDocument(i)
<1>1. ASSUME NEW c \in Conn, Begin(c) \/ ReadConflict(c) PROVE UNCHANGED tables
  BY <1>1 DEF Begin, ReadConflict, Answer, tables
<1>2. ASSUME NEW c \in Conn, LookupCreation(c) \/ LookupEvent(c) PROVE UNCHANGED tables
  BY <1>2 DEF LookupCreation, LookupEvent, Answer, Goto, tables
<1>3. ASSUME NEW c \in Conn, ReadIdentity(c) \/ ReadSelected(c) \/ ReadInvoice(c) PROVE UNCHANGED tables
  BY <1>3 DEF ReadIdentity, ReadSelected, ReadInvoice, Answer, Goto, tables
<1>4. ASSUME NEW c \in Conn, ReadOwner(c) \/ ReadEvidence(c) \/ ReadResolved(c) PROVE UNCHANGED tables
  BY <1>4 DEF ReadOwner, ReadEvidence, ReadResolved, Answer, Goto, tables
<1>5. ASSUME NEW c \in Conn, WriteCreation(c) PROVE UNCHANGED tables \/ Creates(c)
  BY <1>5 DEF WriteCreation, Creates, Answer, tables
<1>6. ASSUME NEW c \in Conn, WriteEvent(c) PROVE UNCHANGED tables \/ Records(c)
  BY <1>6 DEF WriteEvent, Records, Answer, tables
<1>7. CASE UNCHANGED vars
  BY <1>7 DEF vars, tables
<1> QED
  BY <1>1, <1>2, <1>3, <1>4, <1>5, <1>6, <1>7 DEF Next

(* A resolution that learned its invoice is a command again.               *)
LEMMA AddressedTyped ==
  ASSUME NEW r \in Command, NEW i \in Invoice
  PROVE  [r EXCEPT !.invoice = i] \in Command
BY DEF Command

(* Every step keeps the types. *)
LEMMA TypeStep ==
  ASSUME TypeOK, Commands, Memory, [Next]_vars
  PROVE  TypeOK'
<1> USE DEF TypeOK, Steps
<1>1. ASSUME NEW c \in Conn, Begin(c) PROVE TypeOK'
  BY <1>1, RequestAssumption DEF Begin, tables
<1>2. ASSUME NEW c \in Conn, ReadConflict(c) PROVE TypeOK'
  <2>1. CASE Answer(c, "refused")
    BY <2>1 DEF Answer, tables
  <2>2. CASE \E k \in conflicts :
               /\ cmd' = [cmd EXCEPT ![c] = [@ EXCEPT !.invoice = k.invoice]]
               /\ pc' = [pc EXCEPT ![c] = "lookup"]
               /\ UNCHANGED <<tables, reply>>
    <3> PICK k \in conflicts :
               /\ cmd' = [cmd EXCEPT ![c] = [@ EXCEPT !.invoice = k.invoice]]
               /\ pc' = [pc EXCEPT ![c] = "lookup"]
               /\ UNCHANGED <<tables, reply>>
      BY <2>2
    <3>1. [cmd[c] EXCEPT !.invoice = k.invoice] \in Command
      <4>1. cmd[c] \in Command /\ k.invoice \in Invoice
        BY DEF ConflictRow
      <4> QED
        BY <4>1, AddressedTyped
    <3>2. cmd' \in [Conn -> Command]
      BY <3>1
    <3> QED
      BY <3>2 DEF tables
  <2> QED
    BY <1>2, <2>1, <2>2 DEF ReadConflict
<1>3. ASSUME NEW c \in Conn, LookupCreation(c) PROVE TypeOK'
  BY <1>3 DEF LookupCreation, Answer, Goto, tables
<1>4. ASSUME NEW c \in Conn, LookupEvent(c) PROVE TypeOK'
  BY <1>4 DEF LookupEvent, Answer, Goto, tables
<1>5. ASSUME NEW c \in Conn, ReadIdentity(c) \/ ReadSelected(c) PROVE TypeOK'
  BY <1>5 DEF ReadIdentity, ReadSelected, Answer, Goto, tables
<1>6. ASSUME NEW c \in Conn, ReadInvoice(c) PROVE TypeOK'
  BY <1>6 DEF ReadInvoice, Answer, Goto, tables
<1>7. ASSUME NEW c \in Conn, ReadOwner(c) \/ ReadEvidence(c) \/ ReadResolved(c) PROVE TypeOK'
  BY <1>7 DEF ReadOwner, ReadEvidence, ReadResolved, Answer, Goto, tables
<1>8. ASSUME NEW c \in Conn, WriteCreation(c) PROVE TypeOK'
  <2>1. CASE Answer(c, "refused")
    BY <2>1 DEF Answer, tables
  <2>2. CASE Creates(c) /\ pc' = [pc EXCEPT ![c] = "idle"] /\ reply' = [reply EXCEPT ![c] = "ok"]
             /\ UNCHANGED cmd
    <3>1. cmd[c] \in Command /\ cmd[c].invoice \in Invoice /\ cmd[c].lines \subseteq OrderLine
      BY <2>2 DEF Creates, Memory, Knows
    <3>2. EventOf(cmd[c]) \in Event
      BY <3>1 DEF Command, EventOf, Event
    <3>3. [invoice : {cmd[c].invoice}, line : cmd[c].lines] \subseteq Membership
      BY <3>1 DEF Membership
    <3> QED
      BY <2>2, <3>1, <3>2, <3>3 DEF Creates, Statuses
  <2> QED
    BY <1>8, <2>1, <2>2 DEF WriteCreation, Creates
<1>9. ASSUME NEW c \in Conn, WriteEvent(c) PROVE TypeOK'
  <2>1. CASE Answer(c, "refused")
    BY <2>1 DEF Answer, tables
  <2>2. CASE Records(c) /\ pc' = [pc EXCEPT ![c] = "idle"] /\ reply' = [reply EXCEPT ![c] = "ok"]
             /\ UNCHANGED cmd
    <3>1. cmd[c] \in Command /\ cmd[c].invoice \in Invoice
      BY <2>2 DEF Records, Memory, Knows
    <3>2. EventOf(cmd[c]) \in Event
      BY <3>1 DEF Command, EventOf, Event
    <3>3. cmd[c].kind = "evidence_conflict" => ConflictOf(cmd[c]) \in ConflictRow
      BY <3>1 DEF Command, ConflictOf, ConflictRow, Commands
    <3>4. StatusAfter(cmd[c].kind, status[cmd[c].invoice]) \in Statuses \cup {"absent"}
      BY <3>1 DEF StatusAfter, Statuses
    <3>5. version[cmd[c].invoice] + 1 \in Nat
      BY <3>1
    <3> QED
      BY <2>2, <3>1, <3>2, <3>3, <3>4, <3>5 DEF Records
  <2> QED
    BY <1>9, <2>1, <2>2 DEF WriteEvent, Records
<1>10. ASSUME NEW i \in Invoice, CreateDocument(i) PROVE TypeOK'
  BY <1>10 DEF CreateDocument
<1>11. CASE UNCHANGED vars
  BY <1>11 DEF vars, tables
<1> QED
  BY <1>1, <1>2, <1>3, <1>4, <1>5, <1>6, <1>7, <1>8, <1>9, <1>10, <1>11 DEF Next

(* What one more event adds to the history of an invoice. *)
LEMMA EventAdded ==
  ASSUME NEW e, events' = events \cup {e}, NEW i \in Invoice, NEW k \in Kinds
  PROVE  /\ EventsOf(i)' = IF e.invoice = i THEN EventsOf(i) \cup {e} ELSE EventsOf(i)
         /\ VersionsOf(i, k)' = IF e.invoice = i /\ e.kind = k
                                THEN VersionsOf(i, k) \cup {e.expected_version}
                                ELSE VersionsOf(i, k)
<1>1. EventsOf(i)' = IF e.invoice = i THEN EventsOf(i) \cup {e} ELSE EventsOf(i)
  BY DEF EventsOf
<1>2. CASE e.invoice = i /\ e.kind = k
  <2>1. {f \in EventsOf(i)' : f.kind = k} = {f \in EventsOf(i) : f.kind = k} \cup {e}
    BY <1>1, <1>2
  <2> QED
    BY <1>1, <1>2, <2>1 DEF VersionsOf
<1>3. CASE ~(e.invoice = i /\ e.kind = k)
  <2>1. {f \in EventsOf(i)' : f.kind = k} = {f \in EventsOf(i) : f.kind = k}
    BY <1>1, <1>3
  <2> QED
    BY <1>1, <1>3, <2>1 DEF VersionsOf
<1> QED
  BY <1>2, <1>3

(* Every event of an invoice names a version it had before. *)
LEMMA PastVersions ==
  ASSUME TypeOK, VersionIsHistory, NEW i \in Invoice, NEW k
  PROVE  /\ \A e \in EventsOf(i) : e.expected_version \in Nat /\ e.expected_version < version[i]
         /\ \A v \in VersionsOf(i, k) : v \in Nat /\ v < version[i]
<1>1. ASSUME NEW e \in EventsOf(i) PROVE e.expected_version \in 0 .. version[i] - 1
  BY DEF VersionIsHistory
<1>2. \A e \in EventsOf(i) : e.expected_version \in Nat /\ e.expected_version < version[i]
  BY <1>1 DEF TypeOK
<1> QED
  BY <1>2 DEF VersionsOf

(* The trigger lets an event pass only at the version its invoice has at    *)
(* that moment, so the event is the one that moves it.                      *)
LEMMA RecordFact ==
  ASSUME TypeOK, Memory, Tables, VersionIsHistory, NEW c \in Conn, Records(c)
  PROVE  LET r == cmd[c] IN
         /\ r.invoice \in Invoice /\ r.kind \in LifecycleKinds \cup ConflictKinds
         /\ r.expected_version = version[r.invoice] /\ version[r.invoice] \in Nat
         /\ version[r.invoice] # 0 /\ Exists(r.invoice)
         /\ AllowedFrom(r.kind, status[r.invoice])
         /\ version'[r.invoice] = version[r.invoice] + 1
         /\ status'[r.invoice] = StatusAfter(r.kind, status[r.invoice])
         /\ \A j \in Invoice : j # r.invoice => version'[j] = version[j] /\ status'[j] = status[j]
<1> DEFINE r == cmd[c]
           i == r.invoice
           next == StatusAfter(r.kind, status[i])
<1>1. r \in Command /\ i \in Invoice
  BY DEF Records, Memory, Knows, TypeOK
<1>2. r.kind \in LifecycleKinds \cup ConflictKinds
  BY <1>1 DEF Records, Command, Kinds
<1>3. PICK e \in events \cup {EventOf(r)} :
         /\ e.invoice = i /\ e.expected_version = version[i]
         /\ AllowedFrom(e.kind, status[i])
  BY DEF Records, Justified
<1>4. e \notin events
  <2> SUFFICES ASSUME e \in events PROVE FALSE
    OBVIOUS
  <2>1. e \in EventsOf(i)
    BY <1>3 DEF EventsOf
  <2> QED
    BY <1>1, <1>3, <2>1, PastVersions DEF TypeOK
<1>5. r.expected_version = version[i] /\ AllowedFrom(r.kind, status[i])
  BY <1>3, <1>4 DEF EventOf
<1>6. Exists(i)
  BY <1>2 DEF Records, EventInsertable, EventOf, LifecycleKinds, ConflictKinds
<1>7. version[i] \in Nat /\ version[i] # 0
  BY <1>1, <1>6 DEF TypeOK, Tables
<1>8. /\ version'[i] = version[i] + 1 /\ status'[i] = next
      /\ \A j \in Invoice : j # i => version'[j] = version[j] /\ status'[j] = status[j]
  BY <1>1 DEF Records, TypeOK
<1> QED
  BY <1>1, <1>2, <1>5, <1>6, <1>7, <1>8

(* What a creation finds and leaves. *)
LEMMA CreateFact ==
  ASSUME TypeOK, Commands, Memory, Tables, VersionIsHistory, OneInvoicePerLine,
         NEW c \in Conn, Creates(c)
  PROVE  LET r == cmd[c] IN
         /\ r.invoice \in Invoice /\ ~Exists(r.invoice) /\ version[r.invoice] = 0
         /\ EventsOf(r.invoice) = {} /\ LinesOf(r.invoice) = {}
         /\ r.expected_version = 0 /\ r.lines # {} /\ r.lines \subseteq OrderLine
         /\ version'[r.invoice] = 1 /\ status'[r.invoice] = "draft"
         /\ \A j \in Invoice : j # r.invoice => version'[j] = version[j] /\ status'[j] = status[j]
<1> DEFINE r == cmd[c]
<1>1. r.invoice \in Invoice /\ r.expected_version = 0 /\ r.lines # {} /\ r.lines \subseteq OrderLine
  BY DEF Creates, Memory, Knows, Commands
<1>2. ~Exists(r.invoice)
  BY DEF Creates, EventInsertable, EventOf
<1>3. version[r.invoice] = 0
  BY <1>1, <1>2 DEF Tables
<1>4. EventsOf(r.invoice) = {}
  BY <1>1, <1>3, PastVersions
<1>5. LinesOf(r.invoice) = {}
  BY <1>1, <1>2 DEF OneInvoicePerLine
<1>6. /\ version'[r.invoice] = 1 /\ status'[r.invoice] = "draft"
      /\ \A j \in Invoice : j # r.invoice => version'[j] = version[j] /\ status'[j] = status[j]
  BY <1>1 DEF Creates, TypeOK
<1> QED
  BY <1>1, <1>2, <1>3, <1>4, <1>5, <1>6

(* A creation is the first event of its invoice, and any other event has    *)
(* the invoice's present version, which its own write increments.           *)
LEMMA HistoryStep ==
  ASSUME TypeOK, Commands, Memory, Tables, VersionIsHistory, OneInvoicePerLine, [Next]_vars
  PROVE  VersionIsHistory'
<1>1. ASSUME UNCHANGED <<version, events>> PROVE VersionIsHistory'
  BY <1>1 DEF VersionIsHistory, EventsOf
<1>2. ASSUME NEW c \in Conn, NEW n \in Nat, events' = events \cup {EventOf(cmd[c])},
             cmd[c].invoice \in Invoice, cmd[c].expected_version = n, version[cmd[c].invoice] = n,
             version'[cmd[c].invoice] = n + 1,
             \A j \in Invoice : j # cmd[c].invoice => version'[j] = version[j]
      PROVE  VersionIsHistory'
  <2> SUFFICES ASSUME NEW i \in Invoice
               PROVE  /\ {e.expected_version : e \in EventsOf(i)'} = 0 .. version'[i] - 1
                      /\ \A e, f \in EventsOf(i)' :
                           e.expected_version = f.expected_version => e = f
    BY DEF VersionIsHistory
  <2> DEFINE new == EventOf(cmd[c])
  <2>1. new.invoice = cmd[c].invoice /\ new.expected_version = n
    BY <1>2 DEF EventOf
  <2>2. events' = events \cup {new}
    BY <1>2
  <2> HIDE DEF new
  <2>3. EventsOf(i)' = IF new.invoice = i THEN EventsOf(i) \cup {new} ELSE EventsOf(i)
    BY <2>2, EventAdded DEF Kinds
  <2>4. CASE i # cmd[c].invoice
    BY <1>2, <2>1, <2>3, <2>4 DEF VersionIsHistory
  <2>5. CASE i = cmd[c].invoice
    <3>1. EventsOf(i)' = EventsOf(i) \cup {new} /\ version[i] = n /\ version'[i] = n + 1
      BY <1>2, <2>1, <2>3, <2>5
    <3>2. {e.expected_version : e \in EventsOf(i)} = 0 .. n - 1
      BY <3>1 DEF VersionIsHistory
    <3>3. {e.expected_version : e \in EventsOf(i)'} = (0 .. n - 1) \cup {n}
      BY <2>1, <3>1, <3>2
    <3>4. (0 .. n - 1) \cup {n} = 0 .. n
      OBVIOUS
    <3>5. ASSUME NEW e \in EventsOf(i)', NEW f \in EventsOf(i)',
                 e.expected_version = f.expected_version
          PROVE  e = f
      <4>1. \A g \in EventsOf(i) : g.expected_version # n
        BY <3>1, PastVersions
      <4> QED
        BY <2>1, <3>1, <3>5, <4>1 DEF VersionIsHistory
    <3> QED
      BY <3>1, <3>3, <3>4, <3>5
  <2> QED
    BY <2>4, <2>5
<1>3. ASSUME NEW c \in Conn, Creates(c) PROVE VersionIsHistory'
  <2>1. events' = events \cup {EventOf(cmd[c])}
    BY <1>3 DEF Creates
  <2>2. /\ cmd[c].invoice \in Invoice /\ cmd[c].expected_version = 0
        /\ version[cmd[c].invoice] = 0 /\ version'[cmd[c].invoice] = 0 + 1
        /\ \A j \in Invoice : j # cmd[c].invoice => version'[j] = version[j]
    BY <1>3, CreateFact
  <2> QED
    BY <1>2, <2>1, <2>2
<1>4. ASSUME NEW c \in Conn, Records(c) PROVE VersionIsHistory'
  <2>1. events' = events \cup {EventOf(cmd[c])}
    BY <1>4 DEF Records
  <2>2. /\ cmd[c].invoice \in Invoice /\ cmd[c].expected_version = version[cmd[c].invoice]
        /\ version[cmd[c].invoice] \in Nat
        /\ version'[cmd[c].invoice] = version[cmd[c].invoice] + 1
        /\ \A j \in Invoice : j # cmd[c].invoice => version'[j] = version[j]
    BY <1>4, RecordFact
  <2> QED
    BY <1>2, <2>1, <2>2
<1> QED
  BY <1>1, <1>3, <1>4, TablesStep DEF tables, CreateDocument

(* The history of every other invoice is untouched, and the new event goes  *)
(* where its kind is allowed.                                               *)
LEMMA StatusStep ==
  ASSUME TypeOK, Commands, Memory, Tables, VersionIsHistory, OneInvoicePerLine,
         StatusFollowsHistory, [Next]_vars
  PROVE  StatusFollowsHistory'
<1> DEFINE Told(i) ==
      /\ Exists(i) <=> VersionsOf(i, "creation") # {}
      /\ \A v, w \in VersionsOf(i, "review_submission") : v = w
      /\ \A v, w \in VersionsOf(i, "approval") : v = w
      /\ \A v, w \in VersionsOf(i, "cancellation") : v = w
      /\ \A w \in VersionsOf(i, "approval") : \E v \in VersionsOf(i, "review_submission") : v < w
      /\ \A w \in VersionsOf(i, "cancellation") :
           \A v \in VersionsOf(i, "review_submission") \cup VersionsOf(i, "approval") : v < w
      /\ status[i] = "cancelled" <=> VersionsOf(i, "cancellation") # {}
      /\ status[i] = "approved" <=> VersionsOf(i, "approval") # {} /\ VersionsOf(i, "cancellation") = {}
      /\ status[i] = "review" <=> /\ VersionsOf(i, "review_submission") # {}
                                  /\ VersionsOf(i, "approval") = {} /\ VersionsOf(i, "cancellation") = {}
<1>1. \A i \in Invoice : Told(i)
  BY DEF StatusFollowsHistory
<1>2. SUFFICES \A i \in Invoice : Told(i)'
  BY DEF StatusFollowsHistory
<1>3. ASSUME NEW i \in Invoice, status'[i] = status[i], \A k \in Kinds : VersionsOf(i, k)' = VersionsOf(i, k)
      PROVE  Told(i)'
  <2>1. /\ VersionsOf(i, "creation")' = VersionsOf(i, "creation")
        /\ VersionsOf(i, "review_submission")' = VersionsOf(i, "review_submission")
        /\ VersionsOf(i, "approval")' = VersionsOf(i, "approval")
        /\ VersionsOf(i, "cancellation")' = VersionsOf(i, "cancellation")
    BY <1>3 DEF Kinds, LifecycleKinds
  <2> QED
    BY <1>1, <1>3, <2>1 DEF Exists
<1>4. ASSUME UNCHANGED <<status, events>> PROVE \A i \in Invoice : Told(i)'
  <2>1. \A i \in Invoice, k \in Kinds : VersionsOf(i, k)' = VersionsOf(i, k)
    BY <1>4 DEF VersionsOf, EventsOf
  <2> QED
    BY <1>3, <1>4, <2>1
<1>5. ASSUME NEW c \in Conn, Creates(c), NEW i \in Invoice PROVE Told(i)'
  <2> DEFINE new == EventOf(cmd[c])
  <2>1. /\ new.invoice = cmd[c].invoice /\ new.expected_version = cmd[c].expected_version
        /\ new.kind = "creation"
    BY <1>5 DEF EventOf, Creates
  <2>2. events' = events \cup {new}
    BY <1>5 DEF Creates
  <2> HIDE DEF new
  <2>3. CASE i # cmd[c].invoice
    <3>1. \A k \in Kinds : VersionsOf(i, k)' = VersionsOf(i, k)
      BY <2>1, <2>2, <2>3, EventAdded
    <3> QED
      BY <1>3, <1>5, <2>3, <3>1, CreateFact
  <2>4. CASE i = cmd[c].invoice
    <3>1. \A k \in Kinds : VersionsOf(i, k) = {}
      BY <1>5, <2>4, CreateFact DEF VersionsOf
    <3>2. \A k \in Kinds : VersionsOf(i, k)' = IF k = "creation" THEN {cmd[c].expected_version} ELSE {}
      BY <2>1, <2>2, <2>4, <3>1, EventAdded
    <3>3. /\ VersionsOf(i, "creation")' = {cmd[c].expected_version}
          /\ VersionsOf(i, "review_submission")' = {} /\ VersionsOf(i, "approval")' = {}
          /\ VersionsOf(i, "cancellation")' = {}
      BY <3>2 DEF Kinds, LifecycleKinds
    <3>4. status'[i] = "draft"
      BY <1>5, <2>4, CreateFact
    <3> QED
      BY <3>3, <3>4 DEF Exists
  <2> QED
    BY <2>3, <2>4
<1>6. ASSUME NEW c \in Conn, Records(c), NEW i \in Invoice PROVE Told(i)'
  <2> DEFINE new == EventOf(cmd[c])
  <2>1. /\ new.invoice = cmd[c].invoice /\ new.expected_version = cmd[c].expected_version
        /\ new.kind = cmd[c].kind
    BY DEF EventOf
  <2>2. events' = events \cup {new}
    BY <1>6 DEF Records
  <2> HIDE DEF new
  <2>3. CASE i # cmd[c].invoice
    <3>1. \A k \in Kinds : VersionsOf(i, k)' = VersionsOf(i, k)
      BY <2>1, <2>2, <2>3, EventAdded
    <3> QED
      BY <1>3, <1>6, <2>3, <3>1, RecordFact
  <2>4. CASE i = cmd[c].invoice
    <3> DEFINE n == version[i]
               kind == cmd[c].kind
    <3>1. /\ new.expected_version = n /\ AllowedFrom(kind, status[i])
          /\ status'[i] = StatusAfter(kind, status[i])
          /\ kind \in LifecycleKinds \cup ConflictKinds /\ Exists(i) /\ n \in Nat
      <4>1. /\ cmd[c].expected_version = version[cmd[c].invoice] /\ version[cmd[c].invoice] \in Nat
            /\ cmd[c].kind \in LifecycleKinds \cup ConflictKinds /\ Exists(cmd[c].invoice)
            /\ AllowedFrom(cmd[c].kind, status[cmd[c].invoice])
            /\ status'[cmd[c].invoice] = StatusAfter(cmd[c].kind, status[cmd[c].invoice])
        BY <1>6, RecordFact
      <4> QED
        BY <2>1, <2>4, <4>1
    <3>2. \A k \in Kinds : VersionsOf(i, k)' = IF k = kind THEN VersionsOf(i, k) \cup {n}
                                                ELSE VersionsOf(i, k)
      <4> TAKE k \in Kinds
      <4>1. VersionsOf(i, k)' = IF new.invoice = i /\ new.kind = k
                               THEN VersionsOf(i, k) \cup {new.expected_version} ELSE VersionsOf(i, k)
        BY <2>2, EventAdded
      <4> QED
        BY <2>1, <2>4, <3>1, <4>1
    <3>3. /\ VersionsOf(i, "creation")' = VersionsOf(i, "creation")
          /\ VersionsOf(i, "review_submission")' = IF kind = "review_submission"
               THEN VersionsOf(i, "review_submission") \cup {n} ELSE VersionsOf(i, "review_submission")
          /\ VersionsOf(i, "approval")' = IF kind = "approval"
               THEN VersionsOf(i, "approval") \cup {n} ELSE VersionsOf(i, "approval")
          /\ VersionsOf(i, "cancellation")' = IF kind = "cancellation"
               THEN VersionsOf(i, "cancellation") \cup {n} ELSE VersionsOf(i, "cancellation")
      BY <3>1, <3>2 DEF Kinds, LifecycleKinds, ConflictKinds
    <3>4. \A k \in Kinds : \A v \in VersionsOf(i, k) : v \in Nat /\ v < n
      BY PastVersions
    <3>5. /\ \A v \in VersionsOf(i, "review_submission") : v < n
          /\ \A v \in VersionsOf(i, "approval") : v < n
      BY <3>4 DEF Kinds, LifecycleKinds
    <3>6. Told(i)
      BY <1>1
    <3> HIDE DEF n
    <3>7. CASE kind = "review_submission"
      BY <3>1, <3>3, <3>5, <3>6, <3>7 DEF AllowedFrom, StatusAfter, Exists
    <3>8. CASE kind = "approval"
      BY <3>1, <3>3, <3>5, <3>6, <3>8 DEF AllowedFrom, StatusAfter, Exists
    <3>9. CASE kind = "cancellation"
      BY <3>1, <3>3, <3>5, <3>6, <3>9 DEF AllowedFrom, StatusAfter, Exists
    <3>10. CASE kind \in ConflictKinds
      BY <3>1, <3>3, <3>6, <3>10 DEF AllowedFrom, StatusAfter, Exists, ConflictKinds
    <3> QED
      BY <3>1, <3>7, <3>8, <3>9, <3>10 DEF LifecycleKinds
  <2> QED
    BY <2>3, <2>4
<1> QED
  BY <1>4, <1>5, <1>6, TablesStep DEF tables, CreateDocument

(* Only a creation takes lines, and only lines nobody has.                 *)
LEMMA LinesStep ==
  ASSUME TypeOK, Commands, Memory, Tables, VersionIsHistory, OneInvoicePerLine, [Next]_vars
  PROVE  OneInvoicePerLine'
<1>1. ASSUME UNCHANGED members, \A i \in Invoice : Exists(i)' <=> Exists(i)
      PROVE  OneInvoicePerLine'
  BY <1>1 DEF OneInvoicePerLine, LinesOf
<1>2. ASSUME NEW c \in Conn, Creates(c) PROVE OneInvoicePerLine'
  <2> DEFINE r == cmd[c]
             New == [invoice : {r.invoice}, line : r.lines]
  <2>1. \A m \in New : m.invoice = r.invoice /\ m.line \in r.lines
    OBVIOUS
  <2>2. \A m, n \in New : m.line = n.line => m = n
    OBVIOUS
  <2>3. members' = members \cup New /\ \A m \in members : m.invoice # r.invoice /\ m.line \notin r.lines
    BY <1>2 DEF Creates, LinesInsertable
  <2>4. \E m \in New : TRUE
    <3> PICK l \in r.lines : TRUE
      BY <1>2, CreateFact
    <3> WITNESS [invoice |-> r.invoice, line |-> l] \in New
    <3> QED
      OBVIOUS
  <2> HIDE DEF New
  <2>5. ASSUME NEW m \in members', NEW n \in members', m.line = n.line PROVE m = n
    BY <2>1, <2>2, <2>3, <2>5 DEF OneInvoicePerLine
  <2>6. ASSUME NEW i \in Invoice PROVE Exists(i)' <=> LinesOf(i)' # {}
    <3>1. CASE i = r.invoice
      BY <1>2, <2>1, <2>3, <2>4, <3>1, CreateFact DEF LinesOf, Exists
    <3>2. CASE i # r.invoice
      <4>1. {n \in members' : n.invoice = i} = {n \in members : n.invoice = i}
        BY <2>1, <2>3, <3>2
      <4>2. LinesOf(i)' = LinesOf(i)
        BY <4>1 DEF LinesOf
      <4> QED
        BY <1>2, <3>2, <4>2, CreateFact DEF OneInvoicePerLine, Exists
    <3> QED
      BY <3>1, <3>2
  <2> QED
    BY <2>5, <2>6 DEF OneInvoicePerLine
<1>3. ASSUME NEW c \in Conn, Records(c) PROVE OneInvoicePerLine'
  <2>1. UNCHANGED members
    BY <1>3 DEF Records
  <2>2. \A i \in Invoice : Exists(i)' <=> Exists(i)
    BY <1>3, RecordFact DEF Exists, StatusAfter, LifecycleKinds, ConflictKinds
  <2> QED
    BY <1>1, <2>1, <2>2
<1> QED
  BY <1>1, <1>2, <1>3, TablesStep DEF tables, CreateDocument, Exists

(* The constraints keep identities unique and references alive.            *)
LEMMA ConstraintStep ==
  ASSUME TypeOK, Commands, Memory, Tables, VersionIsHistory, OneInvoicePerLine, [Next]_vars
  PROVE  Tables'
<1>1. CASE UNCHANGED tables
  BY <1>1 DEF tables, Tables, Exists
<1>2. ASSUME NEW c \in Conn, Creates(c) PROVE Tables'
  <2> DEFINE new == EventOf(cmd[c])
  <2>1. new.kind = "creation" /\ new.id = new.invoice /\ new.conflict = None /\ new.expected_version = 0
    BY <1>2 DEF EventOf, Creates, Commands
  <2>2. events' = events \cup {new} /\ conflicts' = conflicts /\ documented' = documented
    BY <1>2 DEF Creates
  <2> HIDE DEF new
  <2>3. \A i \in Invoice : Exists(i)' <=> version'[i] # 0
    BY <1>2, CreateFact DEF Tables, Exists
  <2>4. \A i \in documented' : Exists(i)'
    BY <1>2, <2>2, CreateFact DEF Tables, Exists, TypeOK
  <2> QED
    BY <2>1, <2>2, <2>3, <2>4 DEF Tables
<1>3. ASSUME NEW c \in Conn, Records(c) PROVE Tables'
  <2> DEFINE new == EventOf(cmd[c])
             k == ConflictOf(cmd[c])
  <2>1. new.kind = cmd[c].kind /\ new.conflict = cmd[c].conflict /\ new.kind # "creation"
    BY <1>3 DEF EventOf, Records
  <2>2. events' = events \cup {new} /\ documented' = documented
    BY <1>3 DEF Records
  <2>3. \/ conflicts' = conflicts
        \/ conflicts' = conflicts \cup {k} /\ \A j \in conflicts : j.id # k.id
    BY <1>3 DEF Records, ConflictInsertable
  <2>4. new.kind = "conflict_resolution" => \E j \in conflicts : j.id = new.conflict
    BY <1>3, <2>1 DEF Memory, Knows, Raised, Records
  <2> HIDE DEF new, k
  <2>5. \A i \in Invoice : Exists(i)' <=> version'[i] # 0
    BY <1>3, RecordFact DEF Tables, Exists, StatusAfter, LifecycleKinds, ConflictKinds
  <2>6. \A i \in documented' : Exists(i)'
    BY <1>3, <2>2, RecordFact DEF Tables, Exists, StatusAfter, LifecycleKinds, ConflictKinds, TypeOK
  <2> QED
    BY <2>1, <2>2, <2>3, <2>4, <2>5, <2>6 DEF Tables
<1>4. ASSUME NEW i \in Invoice, CreateDocument(i) PROVE Tables'
  BY <1>4 DEF CreateDocument, Tables, Exists
<1> QED
  BY <1>1, <1>2, <1>3, <1>4, TablesStep

(* A connection changes no command but its own, and only to add the invoice *)
(* of a resolution.                                                         *)
LEMMA CommandStep ==
  ASSUME TypeOK, Commands, Memory, [Next]_vars
  PROVE  Commands'
<1>1. CASE UNCHANGED cmd
  BY <1>1 DEF Commands
<1>2. ASSUME NEW c \in Conn, Begin(c) PROVE Commands'
  <2> PICK r \in Requests : cmd' = [cmd EXCEPT ![c] = r]
    BY <1>2 DEF Begin
  <2>1. cmd'[c] = r /\ \A d \in Conn : d # c => cmd'[d] = cmd[d]
    BY DEF TypeOK
  <2> QED
    BY <2>1, RequestAssumption DEF Commands, WellFormed
<1>3. ASSUME NEW c \in Conn, ReadConflict(c) PROVE Commands'
  <2>1. CASE Answer(c, "refused")
    BY <1>1, <2>1 DEF Answer
  <2>2. CASE \E k \in conflicts : cmd' = [cmd EXCEPT ![c] = [@ EXCEPT !.invoice = k.invoice]]
    <3> PICK k \in conflicts : cmd' = [cmd EXCEPT ![c] = [@ EXCEPT !.invoice = k.invoice]]
      BY <2>2
    <3>1. cmd'[c] = [cmd[c] EXCEPT !.invoice = k.invoice] /\ \A d \in Conn : d # c => cmd'[d] = cmd[d]
      BY DEF TypeOK
    <3>2. cmd[c] \in Command /\ cmd[c].kind = "conflict_resolution"
      BY <1>3 DEF TypeOK, ReadConflict, Memory, Knows
    <3>3. cmd'[c].kind = "conflict_resolution" /\ cmd'[c].conflict = cmd[c].conflict
      BY <3>1, <3>2 DEF Command
    <3> QED
      BY <3>1, <3>2, <3>3 DEF Commands
  <2> QED
    BY <1>3, <2>1, <2>2 DEF ReadConflict
<1>4. ASSUME NEW c \in Conn, \/ LookupCreation(c) \/ LookupEvent(c) \/ ReadIdentity(c)
                             \/ ReadSelected(c) \/ ReadInvoice(c)
      PROVE  UNCHANGED cmd
  BY <1>4 DEF LookupCreation, LookupEvent, ReadIdentity, ReadSelected, ReadInvoice, Answer, Goto
<1>5. ASSUME NEW c \in Conn, \/ ReadOwner(c) \/ ReadEvidence(c) \/ ReadResolved(c)
                             \/ WriteCreation(c) \/ WriteEvent(c)
      PROVE  UNCHANGED cmd
  BY <1>5 DEF ReadOwner, ReadEvidence, ReadResolved, WriteCreation, WriteEvent, Answer, Goto
<1> QED
  BY <1>1, <1>2, <1>3, <1>4, <1>5 DEF Next, CreateDocument, vars

(* Every conflict was raised about a line of its invoice, a resolution is   *)
(* written after it, and a second one finds the invoice's version moved.    *)
LEMMA ConflictStep ==
  ASSUME TypeOK, Commands, Memory, Tables, VersionIsHistory, OneInvoicePerLine,
         ConflictsResolvedOnce, [Next]_vars
  PROVE  ConflictsResolvedOnce'
<1> DEFINE Settled(k) ==
      /\ \E e \in events :
           /\ e.kind = "evidence_conflict" /\ e.conflict = k.id /\ e.invoice = k.invoice
           /\ \A r \in events : r.kind = "conflict_resolution" /\ r.conflict = k.id =>
                r.invoice = k.invoice /\ r.expected_version > e.expected_version
      /\ \A q, r \in events :
           (q.kind = "conflict_resolution" /\ q.conflict = k.id
              /\ r.kind = "conflict_resolution" /\ r.conflict = k.id) => q = r
      /\ \E l \in LinesOf(k.invoice) : SourceOf[l] = k.source
<1>1. \A k \in conflicts : Settled(k)
  BY DEF ConflictsResolvedOnce, EventsAbout
<1>2. SUFFICES \A k \in conflicts' : Settled(k)'
  BY DEF ConflictsResolvedOnce, EventsAbout
<1>3. ASSUME UNCHANGED <<members, events, conflicts>> PROVE \A k \in conflicts' : Settled(k)'
  BY <1>1, <1>3 DEF LinesOf
<1>4. ASSUME NEW c \in Conn, Creates(c), NEW k \in conflicts' PROVE Settled(k)'
  <2> DEFINE new == EventOf(cmd[c])
  <2>1. new.kind = "creation" /\ events' = events \cup {new} /\ members \subseteq members'
        /\ conflicts' = conflicts
    BY <1>4 DEF EventOf, Creates
  <2> HIDE DEF new
  <2>2. LinesOf(k.invoice) \subseteq LinesOf(k.invoice)'
    BY <2>1 DEF LinesOf
  <2> QED
    BY <1>1, <2>1, <2>2
<1>5. ASSUME NEW c \in Conn, Records(c), NEW k \in conflicts' PROVE Settled(k)'
  <2> DEFINE r == cmd[c]
             new == EventOf(r)
             row == ConflictOf(r)
  <2>1. /\ new.kind = r.kind /\ new.conflict = r.conflict /\ new.invoice = r.invoice
        /\ new.expected_version = r.expected_version
        /\ row.id = r.conflict /\ row.invoice = r.invoice /\ row.source = r.source
    BY DEF EventOf, ConflictOf
  <2>2. events' = events \cup {new} /\ members' = members
    BY <1>5 DEF Records
  <2>3. IF r.kind = "evidence_conflict"
        THEN conflicts' = conflicts \cup {row} /\ \A j \in conflicts : j.id # row.id
        ELSE conflicts' = conflicts
    BY <1>5 DEF Records, ConflictInsertable
  <2>4. LinesOf(k.invoice)' = LinesOf(k.invoice)
    BY <2>2 DEF LinesOf
  <2>5. /\ r.invoice \in Invoice /\ r.expected_version = version[r.invoice]
        /\ version[r.invoice] \in Nat
    BY <1>5, RecordFact
  <2>6. r.kind = "conflict_resolution" => Raised(r) /\ ~Resolved(r.conflict)
    BY <1>5, <2>5 DEF Memory, Knows, Records
  <2>7. r.kind = "evidence_conflict" => \E l \in LinesOf(r.invoice) : SourceOf[l] = r.source
    BY <1>5 DEF Memory, Knows, Records
  <2>8. \A e \in events : e.invoice = r.invoice =>
          e.expected_version \in Nat /\ e.expected_version < r.expected_version
    BY <2>5, PastVersions DEF EventsOf
  <2> HIDE DEF new, row
  <2>9. CASE k \in conflicts
    <3> PICK e \in events :
           /\ e.kind = "evidence_conflict" /\ e.conflict = k.id /\ e.invoice = k.invoice
           /\ \A q \in events : q.kind = "conflict_resolution" /\ q.conflict = k.id =>
                q.invoice = k.invoice /\ q.expected_version > e.expected_version
      BY <1>1, <2>9
    <3>1. CASE r.kind = "conflict_resolution" /\ r.conflict = k.id
      <4>1. r.invoice = k.invoice
        BY <2>6, <2>9, <3>1 DEF Raised, Tables
      <4>2. r.expected_version > e.expected_version
        BY <2>5, <2>8, <4>1
      <4>3. \A q \in events : ~(q.kind = "conflict_resolution" /\ q.conflict = k.id)
        BY <2>6, <3>1 DEF Resolved
      <4> QED
        BY <1>1, <2>1, <2>2, <2>4, <2>9, <3>1, <4>1, <4>2, <4>3
    <3>2. CASE ~(r.kind = "conflict_resolution" /\ r.conflict = k.id)
      <4>1. ~(new.kind = "conflict_resolution" /\ new.conflict = k.id)
        BY <2>1, <3>2
      <4> QED
        BY <1>1, <2>2, <2>4, <2>9, <4>1
    <3> QED
      BY <3>1, <3>2
  <2>10. CASE k \notin conflicts
    <3>1. r.kind = "evidence_conflict" /\ k = row /\ \A j \in conflicts : j.id # k.id
      BY <2>3, <2>10
    <3>2. \A q \in events' : ~(q.kind = "conflict_resolution" /\ q.conflict = k.id)
      BY <2>1, <2>2, <3>1 DEF Tables
    <3>3. /\ new \in events' /\ new.kind = "evidence_conflict" /\ new.conflict = k.id
          /\ new.invoice = k.invoice
      BY <2>1, <2>2, <3>1
    <3>4. \E l \in LinesOf(k.invoice)' : SourceOf[l] = k.source
      BY <2>1, <2>4, <2>7, <3>1
    <3> QED
      BY <3>2, <3>3, <3>4
  <2> QED
    BY <2>9, <2>10
<1> QED
  BY <1>3, <1>4, <1>5, TablesStep DEF tables, CreateDocument

(* Versions, members, events and conflicts only grow. *)
LEMMA GrowStep ==
  ASSUME TypeOK, Commands, Memory, Tables, VersionIsHistory, OneInvoicePerLine, [Next]_vars
  PROVE  /\ \A i \in Invoice : version[i] <= version'[i]
         /\ \A i \in Invoice : LinesOf(i) \subseteq LinesOf(i)'
         /\ \A i \in Invoice : LinesOf(i) # {} => LinesOf(i)' = LinesOf(i)
         /\ events \subseteq events' /\ conflicts \subseteq conflicts'
<1>1. ASSUME UNCHANGED <<version, members, events, conflicts>>
      PROVE  /\ \A i \in Invoice : version[i] <= version'[i]
             /\ \A i \in Invoice : LinesOf(i)' = LinesOf(i)
             /\ events \subseteq events' /\ conflicts \subseteq conflicts'
  BY <1>1 DEF LinesOf, TypeOK
<1>2. ASSUME NEW c \in Conn, Creates(c)
      PROVE  /\ \A i \in Invoice : version[i] <= version'[i]
             /\ \A i \in Invoice : LinesOf(i) \subseteq LinesOf(i)'
             /\ \A i \in Invoice : LinesOf(i) # {} => LinesOf(i)' = LinesOf(i)
             /\ events \subseteq events' /\ conflicts \subseteq conflicts'
  <2> DEFINE r == cmd[c]
  <2>1. members' = members \cup [invoice : {r.invoice}, line : r.lines]
    BY <1>2 DEF Creates
  <2>2. \A i \in Invoice : LinesOf(i) \subseteq LinesOf(i)'
    BY <2>1 DEF LinesOf
  <2>3. ASSUME NEW i \in Invoice, LinesOf(i) # {} PROVE LinesOf(i)' = LinesOf(i)
    <3>1. i # r.invoice
      BY <1>2, <2>3, CreateFact
    <3>2. {n \in members' : n.invoice = i} = {n \in members : n.invoice = i}
      BY <2>1, <3>1
    <3> QED
      BY <3>2 DEF LinesOf
  <2>4. \A i \in Invoice : version[i] <= version'[i]
    BY <1>2, CreateFact DEF TypeOK
  <2> QED
    BY <1>2, <2>2, <2>3, <2>4 DEF Creates
<1>3. ASSUME NEW c \in Conn, Records(c)
      PROVE  /\ \A i \in Invoice : version[i] <= version'[i]
             /\ \A i \in Invoice : LinesOf(i)' = LinesOf(i)
             /\ events \subseteq events' /\ conflicts \subseteq conflicts'
  <2>1. \A i \in Invoice : version[i] <= version'[i]
    BY <1>3, RecordFact DEF TypeOK
  <2> QED
    BY <1>3, <2>1 DEF Records, LinesOf
<1> QED
  BY <1>1, <1>2, <1>3, TablesStep DEF tables, CreateDocument

(* A conflict that gets resolved moves the version of its invoice. *)
LEMMA ResolutionMoves ==
  ASSUME TypeOK, Commands, Memory, Tables, VersionIsHistory, OneInvoicePerLine, [Next]_vars,
         NEW r, r.invoice \in Invoice, Raised(r), r.expected_version \in Nat,
         r.expected_version <= version[r.invoice],
         ~Resolved(r.conflict), Resolved(r.conflict)'
  PROVE  r.expected_version < version'[r.invoice]
<1>1. PICK e \in events' : e \notin events /\ e.kind = "conflict_resolution" /\ e.conflict = r.conflict
  BY DEF Resolved
<1>2. PICK c \in Conn : Records(c)
  <2>1. ASSUME NEW c \in Conn, Creates(c) PROVE FALSE
    <3>1. e = EventOf(cmd[c]) /\ EventOf(cmd[c]).kind = "creation"
      BY <1>1, <2>1 DEF Creates, EventOf
    <3> QED
      BY <1>1, <3>1
  <2>2. events' # events
    BY <1>1
  <2> QED
    BY <2>1, <2>2, TablesStep DEF tables, CreateDocument
<1>3. e = EventOf(cmd[c])
  BY <1>1, <1>2 DEF Records
<1>4. cmd[c].kind = "conflict_resolution" /\ cmd[c].conflict = r.conflict
  BY <1>1, <1>3 DEF EventOf
<1>5. Raised(cmd[c])
  BY <1>2, <1>4 DEF Memory, Knows, Records
<1>6. cmd[c].invoice = r.invoice
  BY <1>4, <1>5 DEF Raised, Tables
<1> QED
  BY <1>2, <1>6, RecordFact DEF TypeOK

(* A step of one connection leaves what the others remember alone.         *)
LEMMA OthersStep ==
  ASSUME TypeOK, NEW c \in Conn, Reads(c) \/ WriteCreation(c) \/ WriteEvent(c),
         NEW d \in Conn, d # c
  PROVE  pc'[d] = pc[d] /\ cmd'[d] = cmd[d] /\ reply'[d] = reply[d]
<1> USE DEF TypeOK, Answer, Goto
<1>1. CASE Begin(c) \/ ReadConflict(c)
  BY <1>1 DEF Begin, ReadConflict
<1>2. CASE LookupCreation(c) \/ LookupEvent(c)
  BY <1>2 DEF LookupCreation, LookupEvent
<1>3. CASE ReadIdentity(c) \/ ReadSelected(c) \/ ReadOwner(c) \/ ReadEvidence(c) \/ ReadResolved(c)
  BY <1>3 DEF ReadIdentity, ReadSelected, ReadOwner, ReadEvidence, ReadResolved
<1>4. CASE ReadInvoice(c)
  BY <1>4 DEF ReadInvoice
<1>5. CASE WriteCreation(c)
  BY <1>5 DEF WriteCreation
<1>6. CASE WriteEvent(c)
  BY <1>6 DEF WriteEvent
<1> QED
  BY <1>1, <1>2, <1>3, <1>4, <1>5, <1>6 DEF Reads

(* "ok" is answered by the write that records the command or by the lookup  *)
(* that finds it; what was recorded stays as it is.                         *)
LEMMA AcknowledgedStep ==
  ASSUME TypeOK, Commands, Memory, Tables, VersionIsHistory, OneInvoicePerLine,
         AcknowledgedOnce, [Next]_vars
  PROVE  AcknowledgedOnce'
<1> DEFINE Acknowledged(d) ==
      /\ EventOf(cmd[d]) \in events
      /\ cmd[d].kind = "creation" => LinesOf(cmd[d].invoice) = cmd[d].lines
      /\ cmd[d].kind = "evidence_conflict" => ConflictOf(cmd[d]) \in conflicts
<1>1. ASSUME NEW e \in events', NEW f \in events', e.key = f.key \/ e.id = f.id PROVE e = f
  <2>1. CASE events' = events
    BY <1>1, <2>1 DEF AcknowledgedOnce
  <2>2. ASSUME NEW c \in Conn, EventInsertable(EventOf(cmd[c])), events' = events \cup {EventOf(cmd[c])}
        PROVE  e = f
    BY <1>1, <2>2 DEF AcknowledgedOnce, EventInsertable
  <2> QED
    BY <2>1, <2>2, TablesStep DEF tables, CreateDocument, Creates, Records
<1>2. ASSUME NEW d \in Conn, reply[d] = "ok", cmd'[d] = cmd[d] PROVE Acknowledged(d)'
  <2>1. Acknowledged(d)
    BY <1>2 DEF AcknowledgedOnce
  <2>2. EventOf(cmd[d])' = EventOf(cmd[d]) /\ ConflictOf(cmd[d])' = ConflictOf(cmd[d])
    BY <1>2 DEF EventOf, ConflictOf
  <2>3. cmd[d].kind = "creation" => LinesOf(cmd[d].invoice)' = cmd[d].lines
    <3> SUFFICES ASSUME cmd[d].kind = "creation" PROVE LinesOf(cmd[d].invoice)' = cmd[d].lines
      OBVIOUS
    <3>1. EventOf(cmd[d]) \in Event /\ EventOf(cmd[d]).invoice = cmd[d].invoice
      BY <2>1 DEF TypeOK, EventOf
    <3>2. cmd[d].invoice \in Invoice /\ cmd[d].lines # {}
      BY <3>1 DEF Event, Commands
    <3> HIDE DEF Acknowledged
    <3>3. LinesOf(cmd[d].invoice) = cmd[d].lines
      BY <2>1 DEF Acknowledged
    <3>4. PICK i \in Invoice : i = cmd[d].invoice /\ i = cmd'[d].invoice
      BY <1>2, <3>2
    <3>5. LinesOf(i)' = LinesOf(i)
      <4>1. LinesOf(i) # {}
        BY <3>2, <3>3, <3>4
      <4> QED
        BY <4>1, GrowStep
    <3>6. LinesOf(cmd[d].invoice)' = LinesOf(i)'
      BY <3>4 DEF LinesOf
    <3> QED
      BY <3>3, <3>4, <3>5, <3>6
  <2>4. events \subseteq events' /\ conflicts \subseteq conflicts'
    BY GrowStep
  <2> QED
    BY <1>2, <2>1, <2>2, <2>3, <2>4
<1>3. ASSUME NEW d \in Conn, UNCHANGED reply \/ reply'[d] = reply[d], UNCHANGED cmd \/ cmd'[d] = cmd[d],
             reply'[d] = "ok"
      PROVE  Acknowledged(d)'
  BY <1>2, <1>3
<1>4. ASSUME NEW d \in Conn, LookupCreation(d), reply'[d] = "ok" PROVE Acknowledged(d)'
  <2>1. reply[d] = "none"
    BY <1>4 DEF LookupCreation, Memory, Knows
  <2> PICK e \in events :
         /\ e.kind = "creation" /\ e.key = cmd[d].key /\ e.invoice = cmd[d].invoice
         /\ LinesOf(e.invoice) = cmd[d].lines
    BY <1>4, <2>1 DEF LookupCreation, Answer, Goto, TypeOK
  <2>2. cmd[d].kind = "creation" /\ UNCHANGED <<tables, cmd>>
    BY <1>4 DEF LookupCreation, Answer, Goto
  <2>3. e = EventOf(cmd[d])
    <3>1. e \in Event
      BY DEF TypeOK
    <3>2. e.id = e.invoice /\ e.conflict = None /\ e.expected_version = 0
      BY DEF Tables
    <3>3. /\ cmd[d].id = cmd[d].invoice /\ cmd[d].conflict = None /\ cmd[d].expected_version = 0
      BY <2>2 DEF Commands
    <3> QED
      BY <2>2, <3>1, <3>2, <3>3 DEF Event, EventOf
  <2> QED
    BY <2>2, <2>3 DEF tables, EventOf, LinesOf
<1>5. ASSUME NEW d \in Conn, LookupEvent(d), reply'[d] = "ok" PROVE Acknowledged(d)'
  <2>1. reply[d] = "none"
    BY <1>5 DEF LookupEvent, Memory, Knows
  <2> PICK e \in events : /\ e = EventOf(cmd[d])
                          /\ e.kind = "evidence_conflict" => ConflictOf(cmd[d]) \in conflicts
    BY <1>5, <2>1 DEF LookupEvent, Answer, Goto, TypeOK
  <2>2. cmd[d].kind # "creation" /\ UNCHANGED <<tables, cmd>>
    BY <1>5 DEF LookupEvent, Answer, Goto
  <2>3. e.kind = cmd[d].kind
    BY DEF EventOf
  <2> QED
    BY <2>2, <2>3 DEF tables, EventOf, ConflictOf
<1>6. ASSUME NEW d \in Conn, \/ Begin(d) \/ ReadConflict(d) \/ ReadIdentity(d) \/ ReadSelected(d)
             \/ ReadInvoice(d) \/ ReadOwner(d) \/ ReadEvidence(d) \/ ReadResolved(d)
      PROVE  reply'[d] # "ok"
  <2>1. CASE Begin(d)
    BY <2>1 DEF Begin, TypeOK
  <2>2. CASE ReadConflict(d)
    <3>1. reply[d] = "none"
      BY <2>2 DEF ReadConflict, Memory, Knows
    <3> QED
      BY <2>2, <3>1 DEF ReadConflict, Answer, TypeOK
  <2>3. CASE ReadIdentity(d) \/ ReadSelected(d) \/ ReadInvoice(d)
    <3>1. reply[d] = "none"
      BY <2>3 DEF ReadIdentity, ReadSelected, ReadInvoice, Memory, Knows
    <3> QED
      BY <2>3, <3>1 DEF ReadIdentity, ReadSelected, ReadInvoice, Answer, Goto, TypeOK
  <2>4. CASE ReadOwner(d) \/ ReadEvidence(d) \/ ReadResolved(d)
    <3>1. reply[d] = "none"
      BY <2>4 DEF ReadOwner, ReadEvidence, ReadResolved, Memory, Knows
    <3> QED
      BY <2>4, <3>1 DEF ReadOwner, ReadEvidence, ReadResolved, Answer, Goto, TypeOK
  <2> QED
    BY <1>6, <2>1, <2>2, <2>3, <2>4
<1>7. ASSUME NEW d \in Conn, WriteCreation(d), reply'[d] = "ok" PROVE Acknowledged(d)'
  <2>1. Creates(d) /\ UNCHANGED cmd
    BY <1>7 DEF WriteCreation, Creates, Answer, TypeOK
  <2>2. EventOf(cmd[d])' = EventOf(cmd[d]) /\ cmd[d].kind = "creation" /\ LinesOf(cmd[d].invoice) = {}
    BY <2>1, CreateFact DEF EventOf, Creates
  <2>3. members' = members \cup [invoice : {cmd[d].invoice}, line : cmd[d].lines]
    BY <2>1 DEF Creates
  <2>4. {m.line : m \in [invoice : {cmd[d].invoice}, line : cmd[d].lines]} = cmd[d].lines
    <3> DEFINE New == [invoice : {cmd[d].invoice}, line : cmd[d].lines]
    <3>1. \A m \in New : m.line \in cmd[d].lines
      OBVIOUS
    <3>2. ASSUME NEW l \in cmd[d].lines PROVE l \in {m.line : m \in New}
      <4>1. [invoice |-> cmd[d].invoice, line |-> l] \in New
            /\ [invoice |-> cmd[d].invoice, line |-> l].line = l
        OBVIOUS
      <4> HIDE DEF New
      <4> QED
        BY <4>1
    <3> HIDE DEF New
    <3>3. {m.line : m \in New} = cmd[d].lines
      BY <3>1, <3>2
    <3> QED
      BY <3>3 DEF New
  <2>5. {n \in members' : n.invoice = cmd[d].invoice} = [invoice : {cmd[d].invoice}, line : cmd[d].lines]
    <3>1. \A n \in members : n.invoice # cmd[d].invoice
      BY <2>1 DEF Creates, LinesInsertable
    <3> QED
      BY <2>3, <3>1
  <2>6. LinesOf(cmd[d].invoice)' = cmd[d].lines
    BY <2>1, <2>4, <2>5 DEF LinesOf
  <2> QED
    BY <2>1, <2>2, <2>6 DEF Creates
<1>8. ASSUME NEW d \in Conn, WriteEvent(d), reply'[d] = "ok" PROVE Acknowledged(d)'
  <2>1. Records(d) /\ UNCHANGED cmd
    BY <1>8 DEF WriteEvent, Records, Answer, TypeOK
  <2> QED
    BY <2>1 DEF Records, EventOf, ConflictOf
<1>9. ASSUME NEW d \in Conn, reply'[d] = "ok" PROVE Acknowledged(d)'
  <2>1. CASE UNCHANGED <<cmd, reply>>
    BY <1>3, <1>9, <2>1
  <2>2. ASSUME NEW c \in Conn, Reads(c) \/ WriteCreation(c) \/ WriteEvent(c) PROVE Acknowledged(d)'
    <3>1. CASE c # d
      BY <1>3, <1>9, <2>2, <3>1, OthersStep
    <3>2. CASE c = d
      BY <1>4, <1>5, <1>6, <1>7, <1>8, <1>9, <2>2, <3>2 DEF Reads
    <3> QED
      BY <3>1, <3>2
  <2> QED
    BY <2>1, <2>2 DEF Next, Reads, CreateDocument, vars
<1> QED
  BY <1>1, <1>9 DEF AcknowledgedOnce

(* What a connection knows survives the steps of the others: versions,      *)
(* members and conflicts only grow, and a rival resolution moves the        *)
(* version.                                                                 *)
LEMMA MemoryKept ==
  ASSUME TypeOK, Commands, Memory, Tables, VersionIsHistory, OneInvoicePerLine, [Next]_vars,
         NEW d \in Conn, pc'[d] = pc[d], cmd'[d] = cmd[d], reply'[d] = reply[d]
  PROVE  Knows(d)'
<1> DEFINE r == cmd[d]
<1>1. Knows(d) /\ r.expected_version \in Nat
  BY DEF Memory, TypeOK, Command
<1>2. CASE pc[d] \in {"idle", "conflict"}
  BY <1>1, <1>2 DEF Knows
<1>3. CASE pc[d] \notin {"idle", "conflict"}
  <2>1. r.invoice \in Invoice
    BY <1>1, <1>3 DEF Knows
  <2>2. version[r.invoice] <= version'[r.invoice] /\ version[r.invoice] \in Nat
    BY <2>1, GrowStep DEF TypeOK
  <2>3. version'[r.invoice] \in Nat
    BY <2>1, TypeStep DEF TypeOK
  <2>4. LinesOf(r.invoice) \subseteq LinesOf(r.invoice)' /\ r' = r
    <3>1. \A i \in Invoice : LinesOf(i) \subseteq LinesOf(i)'
      BY GrowStep
    <3> QED
      BY <2>1, <3>1 DEF LinesOf
  <2>5. Raised(r) => Raised(r)'
    BY GrowStep DEF Raised
  <2>6. pc[d] \in {"owner", "evidence", "resolved", "write"} /\ r.kind # "creation" =>
          r.expected_version <= version'[r.invoice]
    BY <1>1, <2>2, <2>3 DEF Knows
  <2>7. pc[d] = "write" /\ r.kind = "conflict_resolution" /\ Resolved(r.conflict)' =>
          r.expected_version < version'[r.invoice]
    <3> SUFFICES ASSUME pc[d] = "write", r.kind = "conflict_resolution", Resolved(r.conflict)'
                 PROVE  r.expected_version < version'[r.invoice]
      OBVIOUS
    <3>1. Raised(r) /\ r.expected_version <= version[r.invoice]
      BY <1>1 DEF Knows
    <3>2. CASE Resolved(r.conflict)
      BY <1>1, <2>2, <2>3, <3>2 DEF Knows
    <3>3. CASE ~Resolved(r.conflict)
      BY <1>1, <2>1, <3>1, <3>3, ResolutionMoves
    <3> QED
      BY <3>2, <3>3
  <2> QED
    BY <1>1, <2>1, <2>2, <2>3, <2>4, <2>5, <2>6, <2>7 DEF Knows
<1> QED
  BY <1>2, <1>3

(* What a step tells the connection that takes it. *)
LEMMA MemoryGained ==
  ASSUME TypeOK, Commands, Memory, Tables, NEW c \in Conn,
         Reads(c) \/ WriteCreation(c) \/ WriteEvent(c)
  PROVE  Knows(c)'
<1> DEFINE r == cmd[c]
<1>1. ASSUME pc'[c] = "idle" PROVE Knows(c)'
  BY <1>1 DEF Knows
<1>2. ASSUME NEW o, Answer(c, o) PROVE Knows(c)'
  BY <1>1, <1>2 DEF Answer, TypeOK
<1>3. ASSUME NEW step \in Steps, Goto(c, step)
      PROVE  /\ pc'[c] = step /\ cmd' = cmd /\ reply' = reply /\ UNCHANGED tables
  BY <1>3 DEF Goto, TypeOK
<1>4. CASE Begin(c)
  <2> PICK q \in Requests :
         /\ cmd' = [cmd EXCEPT ![c] = q]
         /\ pc' = [pc EXCEPT ![c] = IF q.kind = "conflict_resolution" THEN "conflict" ELSE "lookup"]
    BY <1>4 DEF Begin
  <2>1. /\ cmd'[c] = q /\ reply'[c] = "none"
        /\ pc'[c] = IF q.kind = "conflict_resolution" THEN "conflict" ELSE "lookup"
    BY <1>4 DEF Begin, TypeOK
  <2>2. q \in Command /\ WellFormed(q)
    BY RequestAssumption
  <2>3. q.kind # "conflict_resolution" => q.invoice \in Invoice
    BY <2>2 DEF Command, WellFormed, Kinds, ConflictKinds
  <2> QED
    BY <2>1, <2>3 DEF Knows
<1>5. CASE ReadConflict(c)
  <2>1. CASE Answer(c, "refused")
    BY <1>2, <2>1
  <2>2. CASE \E k \in {j \in conflicts : j.id = r.conflict} :
               /\ cmd' = [cmd EXCEPT ![c] = [@ EXCEPT !.invoice = k.invoice]]
               /\ pc' = [pc EXCEPT ![c] = "lookup"]
               /\ UNCHANGED <<tables, reply>>
    <3> PICK k \in {j \in conflicts : j.id = r.conflict} :
               /\ cmd' = [cmd EXCEPT ![c] = [@ EXCEPT !.invoice = k.invoice]]
               /\ pc' = [pc EXCEPT ![c] = "lookup"]
               /\ UNCHANGED <<tables, reply>>
      BY <2>2
    <3>1. r \in Command /\ r.kind = "conflict_resolution" /\ reply[c] = "none" /\ k.invoice \in Invoice
      BY <1>5 DEF TypeOK, ReadConflict, Memory, Knows, ConflictRow
    <3>2. cmd'[c] = [r EXCEPT !.invoice = k.invoice] /\ pc'[c] = "lookup"
      BY DEF TypeOK
    <3>3. /\ cmd'[c].kind = "conflict_resolution" /\ cmd'[c].conflict = r.conflict
          /\ cmd'[c].invoice = k.invoice
      BY <3>1, <3>2 DEF Command
    <3>4. Raised(cmd[c])'
      BY <3>3 DEF Raised, tables
    <3> QED
      BY <3>1, <3>2, <3>3, <3>4 DEF Knows
  <2> QED
    BY <1>5, <2>1, <2>2 DEF ReadConflict
<1>6. ASSUME NEW step \in Steps \ {"conflict"}, Goto(c, step), pc[c] \notin {"idle", "conflict"},
             step \in {"identity", "selected"} => r.kind = "creation",
             step \in {"invoice", "owner", "evidence", "resolved"} => r.kind # "creation",
             step = "owner" => r.kind \in LifecycleKinds,
             step = "evidence" => r.kind = "evidence_conflict",
             step = "resolved" => r.kind = "conflict_resolution",
             step \in {"selected", "write"} /\ r.kind = "creation" => r.lines \subseteq OrderLine,
             step \in {"owner", "evidence", "resolved", "write"} /\ r.kind # "creation" =>
               r.expected_version <= version[r.invoice],
             step = "write" /\ r.kind = "evidence_conflict" =>
               \E l \in LinesOf(r.invoice) : SourceOf[l] = r.source,
             step = "write" /\ r.kind = "conflict_resolution" => ~Resolved(r.conflict)
      PROVE  Knows(c)'
  <2>1. pc'[c] = step /\ cmd' = cmd /\ reply' = reply /\ UNCHANGED tables
    BY <1>3, <1>6
  <2>2. Knows(c)
    BY DEF Memory
  <2>3. cmd'[c] = r /\ pc'[c] = step /\ reply'[c] = reply[c]
    BY <2>1
  <2>4. UNCHANGED <<version, members, events, conflicts>>
    BY <2>1 DEF tables
  <2>5. /\ r.kind = "conflict_resolution" => Raised(r)
        /\ reply[c] = "none" /\ r.invoice \in Invoice
    BY <1>6, <2>2 DEF Knows
  <2>6. r.kind = "conflict_resolution" => Raised(cmd[c])'
    BY <2>3, <2>4, <2>5 DEF Raised
  <2>7. LinesOf(cmd[c].invoice)' = LinesOf(r.invoice)
    BY <2>3, <2>4 DEF LinesOf
  <2>8. Resolved(cmd[c].conflict)' <=> Resolved(r.conflict)
    BY <2>3, <2>4 DEF Resolved
  <2> QED
    BY <1>6, <2>3, <2>4, <2>5, <2>6, <2>7, <2>8 DEF Knows
<1>7. CASE LookupCreation(c)
  <2>1. pc[c] = "lookup" /\ r.kind = "creation"
    BY <1>7 DEF LookupCreation
  <2>2. CASE Goto(c, "identity")
    BY <1>6, <2>1, <2>2 DEF Steps
  <2> QED
    BY <1>2, <1>7, <2>2 DEF LookupCreation
<1>8. CASE LookupEvent(c)
  <2>1. pc[c] = "lookup" /\ r.kind # "creation"
    BY <1>8 DEF LookupEvent
  <2>2. CASE Goto(c, "invoice")
    BY <1>6, <2>1, <2>2 DEF Steps
  <2> QED
    BY <1>2, <1>8, <2>2 DEF LookupEvent
<1>9. CASE ReadIdentity(c)
  <2>1. pc[c] = "identity" /\ r.kind = "creation"
    BY <1>9 DEF ReadIdentity, Memory, Knows
  <2>2. CASE Goto(c, "selected") /\ r.lines \subseteq OrderLine
    BY <1>6, <2>1, <2>2 DEF Steps
  <2> QED
    BY <1>2, <1>9, <2>2 DEF ReadIdentity
<1>10. CASE ReadSelected(c)
  <2>1. pc[c] = "selected" /\ r.kind = "creation" /\ r.lines \subseteq OrderLine
    BY <1>10 DEF ReadSelected, Memory, Knows
  <2>2. CASE Goto(c, "write")
    BY <1>6, <2>1, <2>2 DEF Steps
  <2> QED
    BY <1>2, <1>10, <2>2 DEF ReadSelected
<1>11. CASE ReadInvoice(c)
  <2>1. /\ pc[c] = "invoice" /\ r.kind # "creation" /\ r.invoice \in Invoice
        /\ r.kind \in LifecycleKinds \cup ConflictKinds
    BY <1>11 DEF ReadInvoice, Memory, Knows, TypeOK, Command, Kinds
  <2>2. CASE Answer(c, "refused")
    BY <1>2, <2>2
  <2>3. CASE version[r.invoice] = r.expected_version
    <3>1. r.expected_version <= version[r.invoice]
      BY <2>1, <2>3 DEF TypeOK
    <3>2. CASE r.kind \in LifecycleKinds /\ (Goto(c, "write") \/ Goto(c, "owner"))
      BY <1>6, <2>1, <3>1, <3>2 DEF Steps, LifecycleKinds
    <3>3. CASE r.kind = "evidence_conflict" /\ Goto(c, "evidence")
      BY <1>6, <2>1, <3>1, <3>3 DEF Steps
    <3>4. CASE r.kind = "conflict_resolution" /\ Goto(c, "resolved")
      BY <1>6, <2>1, <3>1, <3>4 DEF Steps
    <3> QED
      BY <1>11, <2>1, <2>2, <3>2, <3>3, <3>4 DEF ReadInvoice, LifecycleKinds, ConflictKinds
  <2> QED
    BY <1>11, <2>2, <2>3 DEF ReadInvoice
<1>12. CASE ReadOwner(c)
  <2>1. /\ pc[c] = "owner" /\ r.kind \in LifecycleKinds /\ r.kind # "creation"
        /\ r.expected_version <= version[r.invoice]
    BY <1>12 DEF ReadOwner, Memory, Knows
  <2>2. CASE Goto(c, "write")
    BY <1>6, <2>1, <2>2 DEF Steps, LifecycleKinds
  <2> QED
    BY <1>2, <1>12, <2>2 DEF ReadOwner
<1>13. CASE ReadEvidence(c)
  <2>1. /\ pc[c] = "evidence" /\ r.kind = "evidence_conflict"
        /\ r.expected_version <= version[r.invoice]
    BY <1>13 DEF ReadEvidence, Memory, Knows
  <2>2. CASE Goto(c, "write") /\ \E l \in LinesOf(r.invoice) : SourceOf[l] = r.source
    BY <1>6, <2>1, <2>2 DEF Steps
  <2> QED
    BY <1>2, <1>13, <2>2 DEF ReadEvidence
<1>14. CASE ReadResolved(c)
  <2>1. /\ pc[c] = "resolved" /\ r.kind = "conflict_resolution"
        /\ r.expected_version <= version[r.invoice]
    BY <1>14 DEF ReadResolved, Memory, Knows
  <2>2. CASE Goto(c, "write") /\ ~Resolved(r.conflict)
    BY <1>6, <2>1, <2>2 DEF Steps
  <2> QED
    BY <1>2, <1>14, <2>2 DEF ReadResolved, Resolved
<1>15. CASE WriteCreation(c)
  BY <1>1, <1>15 DEF WriteCreation, Answer, TypeOK
<1>16. CASE WriteEvent(c)
  BY <1>1, <1>16 DEF WriteEvent, Answer, TypeOK
<1> QED
  BY <1>4, <1>5, <1>7, <1>8, <1>9, <1>10, <1>11, <1>12, <1>13, <1>14, <1>15, <1>16 DEF Reads

LEMMA MemoryStep ==
  ASSUME TypeOK, Commands, Memory, Tables, VersionIsHistory, OneInvoicePerLine, [Next]_vars
  PROVE  Memory'
<1> SUFFICES ASSUME NEW d \in Conn PROVE Knows(d)'
  BY DEF Memory
<1>1. CASE UNCHANGED <<pc, cmd, reply>>
  BY <1>1, MemoryKept
<1>2. ASSUME NEW c \in Conn, Reads(c) \/ WriteCreation(c) \/ WriteEvent(c) PROVE Knows(d)'
  <2>1. CASE c # d
    BY <1>2, <2>1, MemoryKept, OthersStep
  <2>2. CASE c = d
    BY <1>2, <2>2, MemoryGained
  <2> QED
    BY <2>1, <2>2
<1> QED
  BY <1>1, <1>2 DEF Next, Reads, CreateDocument, vars

-----------------------------------------------------------------------------
(* The conjunction is inductive and holds throughout every behaviour. *)
THEOREM InvoiceInvariant == Spec => []IInv
<1>1. IInv /\ [Next]_vars => IInv'
  BY TypeStep, CommandStep, MemoryStep, ConstraintStep, HistoryStep, StatusStep, LinesStep,
     ConflictStep, AcknowledgedStep DEF IInv
<1> QED
  BY <1>1, InitInvariant, PTL DEF Spec

(* The store keeps its columns typed for every number of connections. *)
THEOREM TypeCorrect == Spec => []TypeOK
<1>1. IInv => TypeOK
  BY DEF IInv
<1> QED
  BY <1>1, InvoiceInvariant, PTL

(* submit_for_review, approve, cancel, record_evidence_conflict and         *)
(* resolve_conflict leave one event for each version, whoever else writes   *)
(* meanwhile, and those events alone tell where on its lifecycle the        *)
(* invoice is.                                                              *)
THEOREM HistoryIsComplete == Spec => []HistoryTellsStatus
<1>1. IInv => HistoryTellsStatus
  BY DEF IInv, HistoryTellsStatus
<1> QED
  BY <1>1, InvoiceInvariant, PTL

(* create_invoice bills an order line once. *)
THEOREM LinesAreBilledOnce == Spec => []OneInvoicePerLine
<1>1. IInv => OneInvoicePerLine
  BY DEF IInv
<1> QED
  BY <1>1, InvoiceInvariant, PTL

(* resolve_conflict never records two resolutions of one conflict. *)
THEOREM ConflictsAreResolvedOnce == Spec => []ConflictsResolvedOnce
<1>1. IInv => ConflictsResolvedOnce
  BY DEF IInv
<1> QED
  BY <1>1, InvoiceInvariant, PTL

(* A command acknowledged to any number of callers is recorded once. *)
THEOREM AcknowledgementsHold == Spec => []AcknowledgedOnce
<1>1. IInv => AcknowledgedOnce
  BY DEF IInv
<1> QED
  BY <1>1, InvoiceInvariant, PTL

(* Migration 4 takes an invoice that has a document away from P3: no        *)
(* connection moves its status again, not even one that asked before.       *)
THEOREM DocumentedIsFrozen == Spec => FrozenOnceDocumented
<1>1. ASSUME IInv, [Next]_vars PROVE \A i \in documented : status'[i] = status[i]
  <2> USE <1>1 DEF IInv
  <2>1. ASSUME NEW c \in Conn, Creates(c), NEW i \in documented PROVE status'[i] = status[i]
    <3>1. i \in Invoice /\ Exists(i)
      BY DEF TypeOK, Tables
    <3> QED
      BY <2>1, <3>1, CreateFact
  <2>2. ASSUME NEW c \in Conn, Records(c), NEW i \in documented PROVE status'[i] = status[i]
    <3>1. i \in Invoice
      BY DEF TypeOK
    <3>2. StatusAfter(cmd[c].kind, status[cmd[c].invoice]) # status[cmd[c].invoice]
            => cmd[c].invoice \notin documented
      BY <2>2 DEF Records, OwnedByDocument
    <3> QED
      BY <2>2, <3>1, <3>2, RecordFact
  <2> QED
    BY <2>1, <2>2, TablesStep DEF tables, CreateDocument
<1>2. IInv /\ [Next]_vars => [\A i \in documented : status'[i] = status[i]]_vars
  BY <1>1
<1> QED
  BY <1>2, InvoiceInvariant, PTL DEF Spec, FrozenOnceDocumented
=============================================================================
