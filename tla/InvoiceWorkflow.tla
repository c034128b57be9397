-------------------------- MODULE InvoiceWorkflow --------------------------
(***************************************************************************)
(* The document workflow of CoreInvoiceWorkflowStore                       *)
(* (apc_core/core_invoices.py) over the tables and triggers of migrations  *)
(* 4 and 5 (apc_core/core_provenance.py): temporary documents with prices  *)
(* and a reference number, confirmed under a permanent number, cancelled,  *)
(* and corrected by a successor.                                           *)
(*                                                                         *)
(* As in CorePacking, SELECTs before the first INSERT are steps outside    *)
(* any transaction; the INSERTs and the UPDATE, with the triggers that     *)
(* check them again, are one.  The lines of a base invoice never change,   *)
(* so they are a constant and reading them takes no step of its own.       *)
(***************************************************************************)
EXTENDS Integers, FiniteSetsExt

CONSTANTS
  Conn,       \* database connections
  Doc,        \* document identities
  Base,       \* base (P3) invoice identities
  Line,       \* invoice lines
  BaseLines,  \* BaseLines[b]: the lines of base invoice b, {} if it is unknown
  Customer, Year, Number, Price, EventId, Key,
  MaxSeq,     \* highest reference sequence per customer and year (999)
  None,       \* absent column
  Requests    \* the commands callers may issue, any number of times

DocumentKinds == {"creation", "real_confirmation", "cancellation"}
Kinds == DocumentKinds \cup {"temporary_override"}

Event == [kind : Kinds, id : EventId \cup Doc, doc : Doc, line : Line \cup {None},
          price : Price \cup {None}, expected_version : Nat, key : Key]

(* The initial prices of a creation: one for each line it names, or none.  *)
Quote == UNION {[S -> Price \cup {None}] : S \in SUBSET Line}

(* The columns of a document that never change.  original is the document  *)
(* it corrects.                                                            *)
Header == [base : Base, customer : Customer, year : Year, prices : Quote,
           original : Doc \cup {None}, key : Key]

(* A creation or an event to record.  base is None in a correction until   *)
(* the original document has been read.                                    *)
Command == [kind : Kinds, id : EventId \cup Doc, doc : Doc, line : Line \cup {None},
            price : Price \cup {None}, expected_version : Nat, key : Key,
            number : Number \cup {None}, base : Base \cup {None}, customer : Customer,
            year : Year, prices : Quote, original : Doc \cup {None}]

WellFormed(r) ==
  /\ r.kind = "creation" => r.id = r.doc /\ r.expected_version = 0 /\ r.line = None
                            /\ r.price = None /\ (r.base = None <=> r.original # None)
  /\ r.kind = "temporary_override" => r.id \in EventId /\ r.line # None /\ r.price # None
  /\ r.kind = "real_confirmation" => r.id \in EventId /\ r.number # None
                                     /\ r.line = None /\ r.price = None
  /\ r.kind = "cancellation" => r.id \in EventId /\ r.line = None /\ r.price = None
  /\ r.kind # "creation" => r.original = None

ASSUME BaseAssumption == BaseLines \in [Base -> SUBSET Line]
ASSUME SeqAssumption == MaxSeq \in Nat
ASSUME NoneAssumption == None \notin Doc \cup Base \cup Line \cup Number \cup Price
ASSUME IdentityAssumption == EventId \cap Doc = {}
ASSUME RequestAssumption == Requests \subseteq {r \in Command : WellFormed(r)}

VARIABLES
  state,     \* core_invoice_documents.state, "absent" before creation
  version,   \* core_invoice_documents.version
  number,    \* core_invoice_documents.permanent_number
  header,    \* the other columns, lines, initial prices, context and correction link
  sequence,  \* core_invoice_reference_allocations.reference_sequence
  events,    \* core_invoice_document_events and the overrides of core_invoice_price_events
  pc,        \* the statement each connection runs next
  cmd,       \* its command
  reply      \* the outcome of its last command

tables == <<state, version, number, header, sequence, events>>
vars == <<tables, pc, cmd, reply>>

States == {"temporary", "real", "cancelled"}
Steps == {"idle", "original", "lookup", "replay", "base", "document", "prices", "write"}

TypeOK ==
  /\ state \in [Doc -> States \cup {"absent"}]
  /\ version \in [Doc -> Nat]
  /\ number \in [Doc -> Number \cup {None}]
  /\ header \in [Doc -> Header \cup {None}]
  /\ sequence \in [Doc -> 0 .. MaxSeq]
  /\ events \in SUBSET Event
  /\ pc \in [Conn -> Steps]
  /\ cmd \in [Conn -> Command]
  /\ reply \in [Conn -> {"none", "ok", "refused", "conflict"}]

-----------------------------------------------------------------------------
Exists(d) == state[d] # "absent"
Live(d) == state[d] \in {"temporary", "real"}
OfBase(b) == {d \in Doc : Exists(d) /\ header[d].base = b}
LinesOf(d) == BaseLines[header[d].base]
Ledger(c, y) == {d \in Doc : Exists(d) /\ header[d].customer = c /\ header[d].year = y}

IsOverride(e) == e.kind = "temporary_override"
SameTable(e, f) == IsOverride(e) <=> IsOverride(f)

(* What is recorded of a command, and a replay is compared with: not the    *)
(* permanent number of a confirmation, a column of the document.            *)
EventOf(r) == [kind |-> r.kind, id |-> r.id, doc |-> r.doc, line |-> r.line, price |-> r.price,
               expected_version |-> r.expected_version, key |-> r.key]
HeaderOf(r) == [base |-> r.base, customer |-> r.customer, year |-> r.year, prices |-> r.prices,
                original |-> r.original, key |-> r.key]

(* What a replayed creation is compared with: every column but the link.   *)
SameCreation(h, r) == /\ h.base = r.base /\ h.customer = r.customer
                      /\ h.year = r.year /\ h.prices = r.prices

(* Mutant of Priced: one price is enough. *)
PricedSomewhere(d) == \E l \in LinesOf(d) :
  header[d].prices[l] # None \/ \E e \in events : IsOverride(e) /\ e.doc = d /\ e.line = l

(* No line's latest price is null; an override never is.                   *)
Priced(d) == \A l \in LinesOf(d) :
  header[d].prices[l] # None \/ \E e \in events : IsOverride(e) /\ e.doc = d /\ e.line = l

AllowedFrom(kind, s) == CASE kind = "cancellation" -> s \in {"temporary", "real"}
                          [] OTHER                 -> s = "temporary"

StateAfter(kind) == CASE kind = "real_confirmation" -> "real"
                      [] kind = "cancellation"      -> "cancelled"
                      [] OTHER                      -> "temporary"

(* Mutant of NextSequence: cancelled documents give their number back. *)
NextLiveSequence(c, y) == Max({0} \cup {sequence[d] : d \in {e \in Ledger(c, y) : Live(e)}}) + 1

(* COALESCE(MAX(reference_sequence),0)+1 of the customer and year.         *)
NextSequence(c, y) == Max({0} \cup {sequence[d] : d \in Ledger(c, y)}) + 1

(* "Temporary reference sequence is full for this customer and year" *)
ReferenceAvailable(c, y) == NextSequence(c, y) <= MaxSeq

(* Mutant of NumberFree: a cancelled document's number is given out again. *)
NumberFreeOfLive(n) == \A d \in Doc : Live(d) => number[d] # n

(* permanent_number TEXT UNIQUE *)
NumberFree(n) == \A d \in Doc : number[d] # n

(* PRIMARY KEY and UNIQUE of the event tables. *)
EventInsertable(e) == \A f \in events : SameTable(e, f) => f.id # e.id /\ f.key # e.key

(* Mutant of Creatable: a base with a cancelled document needs no link. *)
CreatableUnlinked(r) ==
  /\ ~Exists(r.doc)
  /\ \A d \in OfBase(r.base) : ~Live(d)
  /\ r.original # None => \A d \in Doc : Exists(d) => header[d].original # r.original

(* core_invoice_documents_one_active_base, core_invoice_corrections_one_child *)
(* and the guards of corrections and of document creation.                    *)
Creatable(r) ==
  /\ ~Exists(r.doc)
  /\ \A d \in OfBase(r.base) : ~Live(d)
  /\ r.original # None => /\ state[r.original] = "cancelled"
                          /\ \A d \in Doc : Exists(d) => header[d].original # r.original
  /\ OfBase(r.base) # {} => r.original # None /\ header[r.original].base = r.base

(* Mutant of Justified: an event of any version justifies the move. *)
JustifiedAnyVersion(log, d, s) ==
  \E e \in log : /\ e.doc = d /\ e.kind # "creation"
                 /\ AllowedFrom(e.kind, state[d]) /\ StateAfter(e.kind) = s

(* core_invoice_documents_lifecycle_guard: what is on record at the version *)
(* the document has now justifies moving it to state s.                     *)
Justified(log, d, s) ==
  \E e \in log : /\ e.doc = d /\ e.expected_version = version[d] /\ e.kind # "creation"
                 /\ AllowedFrom(e.kind, state[d]) /\ StateAfter(e.kind) = s

-----------------------------------------------------------------------------
Init ==
  /\ state = [d \in Doc |-> "absent"]
  /\ version = [d \in Doc |-> 0]
  /\ number = [d \in Doc |-> None]
  /\ header = [d \in Doc |-> None]
  /\ sequence = [d \in Doc |-> 0]
  /\ events = {}
  /\ pc = [c \in Conn |-> "idle"]
  /\ \E r \in Requests : cmd = [c \in Conn |-> r]
  /\ reply = [c \in Conn |-> "none"]

Goto(c, step) ==
  /\ pc' = [pc EXCEPT ![c] = step]
  /\ UNCHANGED <<tables, cmd, reply>>

Answer(c, outcome) ==
  /\ pc' = [pc EXCEPT ![c] = "idle"]
  /\ reply' = [reply EXCEPT ![c] = outcome]
  /\ UNCHANGED <<tables, cmd>>

Begin(c) ==
  /\ pc[c] = "idle"
  /\ \E r \in Requests :
       /\ cmd' = [cmd EXCEPT ![c] = r]
       /\ pc' = [pc EXCEPT ![c] = IF r.original # None THEN "original" ELSE "lookup"]
  /\ reply' = [reply EXCEPT ![c] = "none"]
  /\ UNCHANGED tables

(* create_correction_temporary takes the base from the cancelled original. *)
ReadOriginal(c) ==
  /\ pc[c] = "original"
  /\ \/ state[cmd[c].original] # "cancelled" /\ Answer(c, "refused")
     \/ /\ state[cmd[c].original] = "cancelled"
        /\ cmd' = [cmd EXCEPT ![c] = [@ EXCEPT !.base = header[cmd[c].original].base]]
        /\ pc' = [pc EXCEPT ![c] = "lookup"]
        /\ UNCHANGED <<tables, reply>>

(* A creation replays only while its document is temporary.                *)
LookupCreation(c) ==
  /\ pc[c] = "lookup" /\ cmd[c].kind = "creation"
  /\ LET found == {d \in Doc : Exists(d) /\ header[d].key = cmd[c].key}
     IN \/ found = {} /\ Goto(c, "base")
        \/ \E d \in found :
             Answer(c, IF /\ d = cmd[c].doc /\ state[d] = "temporary"
                          /\ SameCreation(header[d], cmd[c])
                       THEN "ok" ELSE "conflict")

(* Mutant of LookupEvent: only the identity of the event is compared. *)
LookupEventIdentity(c) ==
  /\ pc[c] = "lookup" /\ cmd[c].kind # "creation"
  /\ LET found == {e \in events : SameTable(e, cmd[c]) /\ e.key = cmd[c].key}
     IN \/ found = {} /\ Goto(c, "document")
        \/ \E e \in found : IF e.id = cmd[c].id THEN Goto(c, "replay") ELSE Answer(c, "conflict")

LookupEvent(c) ==
  /\ pc[c] = "lookup" /\ cmd[c].kind # "creation"
  /\ LET found == {e \in events : SameTable(e, cmd[c]) /\ e.key = cmd[c].key}
     IN \/ found = {} /\ Goto(c, "document")
        \/ \E e \in found : IF e = EventOf(cmd[c]) THEN Goto(c, "replay") ELSE Answer(c, "conflict")

(* A recorded command is answered by _doc at the version it produced.      *)
ReadReplay(c) ==
  /\ pc[c] = "replay"
  /\ Answer(c, IF version[cmd[c].doc] = cmd[c].expected_version + 1 THEN "ok" ELSE "refused")

(* The cancelled-base SELECT of a plain creation, and the membership.      *)
ReadBase(c) ==
  /\ pc[c] = "base"
  /\ IF \/ cmd[c].original = None /\ \E d \in OfBase(cmd[c].base) : state[d] = "cancelled"
        \/ BaseLines[cmd[c].base] = {}
        \/ BaseLines[cmd[c].base] # DOMAIN cmd[c].prices
     THEN Answer(c, "refused")
     ELSE Goto(c, "write")

(* _doc, whose row also answers the state check.                           *)
ReadDocument(c) ==
  /\ pc[c] = "document"
  /\ IF /\ Exists(cmd[c].doc) /\ version[cmd[c].doc] = cmd[c].expected_version
        /\ AllowedFrom(cmd[c].kind, state[cmd[c].doc])
     THEN Goto(c, IF cmd[c].kind = "real_confirmation" THEN "prices" ELSE "write")
     ELSE Answer(c, "refused")

ReadPrices(c) ==
  /\ pc[c] = "prices"
  /\ IF Priced(cmd[c].doc) THEN Goto(c, "write") ELSE Answer(c, "refused")

(* Event, link, lines, prices, reference and document, or nothing. *)
WriteCreation(c) ==
  LET r == cmd[c]
      next == NextSequence(r.customer, r.year)
      insertable == /\ EventInsertable(EventOf(r)) /\ Creatable(r)
                    /\ ReferenceAvailable(r.customer, r.year)
  IN /\ pc[c] = "write" /\ r.kind = "creation"
     /\ \/ ~insertable /\ Answer(c, "refused")
        \/ /\ insertable
           /\ state' = [state EXCEPT ![r.doc] = "temporary"]
           /\ version' = [version EXCEPT ![r.doc] = 1]
           /\ header' = [header EXCEPT ![r.doc] = HeaderOf(r)]
           /\ sequence' = [sequence EXCEPT ![r.doc] = next]
           /\ events' = events \cup {EventOf(r)}
           /\ pc' = [pc EXCEPT ![c] = "idle"]
           /\ reply' = [reply EXCEPT ![c] = "ok"]
           /\ UNCHANGED <<number, cmd>>

(* INSERT of a price, then version=version+1; core_invoice_price_events_guard. *)
WriteOverride(c) ==
  LET r == cmd[c]
      insertable == /\ EventInsertable(EventOf(r)) /\ r.line \in LinesOf(r.doc)
                    /\ state[r.doc] = "temporary" /\ version[r.doc] = r.expected_version
  IN /\ pc[c] = "write" /\ r.kind = "temporary_override"
     /\ \/ ~insertable /\ Answer(c, "refused")
        \/ /\ insertable
           /\ version' = [version EXCEPT ![r.doc] = @ + 1]
           /\ events' = events \cup {EventOf(r)}
           /\ pc' = [pc EXCEPT ![c] = "idle"]
           /\ reply' = [reply EXCEPT ![c] = "ok"]
           /\ UNCHANGED <<state, number, header, sequence, cmd>>

(* INSERT of the event, then state, version and, to be real, the number.   *)
WriteTransition(c) ==
  LET r == cmd[c]
      real == r.kind = "real_confirmation"
      insertable == /\ EventInsertable(EventOf(r))
                    /\ Justified(events \cup {EventOf(r)}, r.doc, StateAfter(r.kind))
                    /\ real => Priced(r.doc) /\ NumberFree(r.number)
  IN /\ pc[c] = "write" /\ r.kind \in {"real_confirmation", "cancellation"}
     /\ \/ ~insertable /\ Answer(c, "refused")
        \/ /\ insertable
           /\ state' = [state EXCEPT ![r.doc] = StateAfter(r.kind)]
           /\ version' = [version EXCEPT ![r.doc] = @ + 1]
           /\ number' = IF real THEN [number EXCEPT ![r.doc] = r.number] ELSE number
           /\ events' = events \cup {EventOf(r)}
           /\ pc' = [pc EXCEPT ![c] = "idle"]
           /\ reply' = [reply EXCEPT ![c] = "ok"]
           /\ UNCHANGED <<header, sequence, cmd>>

Next == \E c \in Conn :
  \/ Begin(c) \/ ReadOriginal(c) \/ LookupCreation(c) \/ LookupEvent(c) \/ ReadReplay(c)
  \/ ReadBase(c) \/ ReadDocument(c) \/ ReadPrices(c)
  \/ WriteCreation(c) \/ WriteOverride(c) \/ WriteTransition(c)

Spec == Init /\ [][Next]_vars

-----------------------------------------------------------------------------
EventsOf(d) == {e \in events : e.doc = d}
VersionsOf(d, kind) == {e.expected_version : e \in {f \in EventsOf(d) : f.kind = kind}}

(* A document at version v has one event or override for each version       *)
(* 0 .. v-1: concurrent commands at one version, retries and aborted        *)
(* transactions leave neither a second one nor a gap.                       *)
VersionIsHistory ==
  \A d \in Doc :
    /\ {e.expected_version : e \in EventsOf(d)} = 0 .. version[d] - 1
    /\ \A e, f \in EventsOf(d) : e.expected_version = f.expected_version => e = f

(* State and permanent number are what the events on record say: one        *)
(* creation, at most one confirmation and one cancellation, no price change *)
(* after either, and a number exactly if the document was confirmed.        *)
StateFollowsHistory ==
  \A d \in Doc :
    LET confirmed  == VersionsOf(d, "real_confirmation")
        cancelled  == VersionsOf(d, "cancellation")
        overridden == VersionsOf(d, "temporary_override")
    IN /\ Exists(d) <=> VersionsOf(d, "creation") # {}
       /\ \A v, w \in confirmed : v = w
       /\ \A v \in overridden : \A w \in confirmed \cup cancelled : v < w
       /\ \A v \in confirmed : \A w \in cancelled : v < w
       /\ \A v, w \in cancelled : v = w
       /\ state[d] = "cancelled" <=> cancelled # {}
       /\ state[d] = "real" <=> confirmed # {} /\ cancelled = {}
       /\ number[d] # None <=> confirmed # {}

(* Together: the events alone tell where a document is and at which version, *)
(* whatever was refused, retried or lost a race.                             *)
HistoryTellsState == VersionIsHistory /\ StateFollowsHistory

(* The documents of a base invoice are one chain of corrections: one        *)
(* document corrects nothing, every other corrects a cancelled document of  *)
(* its own base that nothing else corrects, and at most one is not          *)
(* cancelled, whoever creates, cancels and corrects at the same time.       *)
OneCorrectionChain ==
  \A b \in Base :
    /\ \A d, e \in OfBase(b) :
         /\ Live(d) /\ Live(e) => d = e
         /\ header[d].original = header[e].original => d = e
    /\ \A d \in OfBase(b) : header[d].original # None =>
         header[d].original \in OfBase(b) /\ state[header[d].original] = "cancelled"

(* The temporary references of a customer and year are numbered 1, 2, 3 ... *)
(* without gaps or repetitions; a cancelled document keeps its number and a *)
(* refused creation takes none.                                             *)
ReferencesAreDense ==
  \A c \in Customer, y \in Year :
    {sequence[d] : d \in Ledger(c, y)} = 1 .. Cardinality(Ledger(c, y))

(* A real document has a price for every line of its base invoice: the      *)
(* initial one or an override made while it was temporary.                  *)
RealIsPriced ==
  \A d \in Doc : state[d] = "real" =>
    \A l \in BaseLines[header[d].base] :
      header[d].prices[l] \in Price \/ \E e \in EventsOf(d) : e.line = l /\ e.price \in Price

(* "ok" is said only when an event is on record that agrees with the        *)
(* command in all that is compared, and then no other event has its key or  *)
(* identity.  What is not compared are the number of a confirmation and the *)
(* original of a correction, so that "ok" does not promise either.  Of the  *)
(* number: it is one that somebody asked for by the very event on record,   *)
(* and no replay with another number, race or later event changes it.       *)
AcknowledgedOnce ==
  /\ \A c \in Conn : reply[c] = "ok" =>
       /\ EventOf(cmd[c]) \in events
       /\ cmd[c].kind = "creation" => SameCreation(header[cmd[c].doc], cmd[c])
  /\ \A e, f \in events : SameTable(e, f) /\ (e.key = f.key \/ e.id = f.id) => e = f
  /\ \A e \in events : e.kind = "real_confirmation" =>
       \E r \in Requests : EventOf(r) = e /\ r.number = number[e.doc]

(* Seen as billings of base invoices, the documents implement the ledger:   *)
(* a base's billing is the state of the one document that is not cancelled. *)
Billing(b) == IF \E d \in OfBase(b) : state[d] = "temporary" THEN "temporary"
              ELSE IF \E d \in OfBase(b) : state[d] = "real" THEN "real"
              ELSE IF OfBase(b) # {} THEN "cancelled" ELSE "none"

Numbered == {d \in Doc : number[d] # None}

L == INSTANCE DocumentLedger WITH
       live <- [b \in Base |-> Billing(b)],
       issued <- {<<number[d], header[d].base>> : d \in Numbered}

(* Every step of any connection opens, confirms or cancels the billing of   *)
(* one base invoice or leaves the ledger alone.                             *)
ImplementsLedger == L!Spec

=============================================================================
