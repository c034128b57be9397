------------------------ MODULE InvoiceWorkflowProofs ------------------------
(***************************************************************************)
(* What the tables and triggers of migrations 4 and 5 guarantee the        *)
(* document workflow for any number of connections, documents, bases and   *)
(* requests, up to the refinement of DocumentLedger.                       *)
(*                                                                         *)
(* Every write is checked again by the constraints of its tables, so a     *)
(* connection has to remember little of what it read: what the columns     *)
(* that never change told it, and that a command it found on record was.   *)
(***************************************************************************)
EXTENDS InvoiceWorkflow, FiniteSetTheorems, TLAPS

(* What the store derives or checks of a command before it reads anything. *)
Commands ==
  \A c \in Conn :
    /\ cmd[c].kind = "creation" => /\ cmd[c].id = cmd[c].doc /\ cmd[c].expected_version = 0
                                   /\ cmd[c].line = None /\ cmd[c].price = None
    /\ cmd[c].kind = "temporary_override" => cmd[c].price # None
    /\ cmd[c].kind = "real_confirmation" => cmd[c].number # None
    /\ cmd[c].kind # "creation" => cmd[c] \in Requests

(* What the statements a connection has run tell of its command.           *)
Knows(c) ==
  LET r == cmd[c] IN
  /\ pc[c] # "idle" => reply[c] = "none"
  /\ pc[c] = "original" => r.kind = "creation" /\ r.original # None
  /\ pc[c] = "base" => r.kind = "creation"
  /\ pc[c] \in {"replay", "document", "prices"} => r.kind # "creation"
  /\ pc[c] = "replay" => EventOf(r) \in events
  /\ pc[c] \in {"lookup", "base", "write"} /\ r.kind = "creation" =>
       /\ r.base \in Base
       /\ r.original # None => /\ r.original \in Doc /\ Exists(r.original)
                               /\ header[r.original].base = r.base
  /\ pc[c] = "write" /\ r.kind = "creation" => DOMAIN r.prices = BaseLines[r.base]

Memory == \A c \in Conn : Knows(c)

CreationOf(d) == [kind |-> "creation", id |-> d, doc |-> d, line |-> None, price |-> None,
                  expected_version |-> 0, key |-> header[d].key]

(* What the constraints make of the tables. *)
Tables ==
  /\ \A d \in Doc : Exists(d) <=> version[d] # 0
  /\ \A d \in Doc : Exists(d) =>
       header[d] \in Header /\ DOMAIN header[d].prices = LinesOf(d) /\ CreationOf(d) \in events
  /\ \A e \in events : IsOverride(e) => e.price # None
  /\ \A c \in Customer, y \in Year : IsFiniteSet(Ledger(c, y))

IInv == /\ TypeOK /\ Commands /\ Memory /\ Tables
        /\ VersionIsHistory
        /\ StateFollowsHistory
        /\ OneCorrectionChain
        /\ ReferencesAreDense
        /\ RealIsPriced
        /\ AcknowledgedOnce

(* The two ways a step can change the tables. *)
Creates(c) ==
  LET r == cmd[c] IN
  /\ pc[c] = "write" /\ r.kind = "creation"
  /\ EventInsertable(EventOf(r)) /\ Creatable(r) /\ ReferenceAvailable(r.customer, r.year)
  /\ state' = [state EXCEPT ![r.doc] = "temporary"]
  /\ version' = [version EXCEPT ![r.doc] = 1]
  /\ header' = [header EXCEPT ![r.doc] = HeaderOf(r)]
  /\ sequence' = [sequence EXCEPT ![r.doc] = NextSequence(r.customer, r.year)]
  /\ events' = events \cup {EventOf(r)}
  /\ UNCHANGED number

Records(c) ==
  LET r == cmd[c]
      real == r.kind = "real_confirmation"
  IN /\ pc[c] = "write" /\ r.kind # "creation"
     /\ EventInsertable(EventOf(r))
     /\ Justified(events \cup {EventOf(r)}, r.doc, StateAfter(r.kind))
     /\ real => Priced(r.doc) /\ NumberFree(r.number)
     /\ state' = [state EXCEPT ![r.doc] = StateAfter(r.kind)]
     /\ version' = [version EXCEPT ![r.doc] = @ + 1]
     /\ number' = IF real THEN [number EXCEPT ![r.doc] = r.number] ELSE number
     /\ events' = events \cup {EventOf(r)}
     /\ UNCHANGED <<header, sequence>>

Reads(c) == \/ Begin(c) \/ ReadOriginal(c) \/ LookupCreation(c) \/ LookupEvent(c) \/ ReadReplay(c)
            \/ ReadBase(c) \/ ReadDocument(c) \/ ReadPrices(c)
Writes(c) == WriteCreation(c) \/ WriteOverride(c) \/ WriteTransition(c)

-----------------------------------------------------------------------------
(* The empty database satisfies the invariant. *)
LEMMA InitInvariant == Init => IInv
<1> SUFFICES ASSUME Init PROVE IInv
  OBVIOUS
<1>1. cmd \in [Conn -> Requests]
  BY DEF Init
<1>2. TypeOK
  BY <1>1, RequestAssumption, SeqAssumption DEF Init, TypeOK, Steps, States
<1>3. Commands
  BY <1>1, RequestAssumption DEF Commands, WellFormed
<1>4. \A c \in Customer, y \in Year : Ledger(c, y) = {}
  BY DEF Init, Ledger, Exists
<1>5. Memory /\ Tables
  BY <1>4, FS_EmptySet DEF Init, Memory, Knows, Tables, Exists
<1>6. \A d \in Doc : EventsOf(d) = {}
  BY DEF Init, EventsOf
<1>7. VersionIsHistory
  <2>1. 0 .. 0 - 1 = {}
    OBVIOUS
  <2> QED
    BY <1>6, <2>1 DEF Init, VersionIsHistory
<1>8. StateFollowsHistory
  <2>1. \A d \in Doc, k \in Kinds : VersionsOf(d, k) = {}
    BY <1>6 DEF VersionsOf
  <2> QED
    BY <2>1 DEF Init, StateFollowsHistory, Exists, Kinds, DocumentKinds
<1>9. OneCorrectionChain /\ RealIsPriced /\ AcknowledgedOnce
  BY DEF Init, OneCorrectionChain, OfBase, Exists, RealIsPriced, AcknowledgedOnce
<1>10. ReferencesAreDense
  <2>1. 1 .. 0 = {} /\ Cardinality({}) = 0
    BY FS_EmptySet
  <2> QED
    BY <1>4, <2>1 DEF ReferencesAreDense
<1> QED
  BY <1>2, <1>3, <1>5, <1>7, <1>8, <1>9, <1>10 DEF IInv

(* A price override is, for the triggers, an event like the others.        *)
LEMMA WrittenRecord ==
  ASSUME TypeOK, NEW c \in Conn, WriteOverride(c) \/ WriteTransition(c)
  PROVE  UNCHANGED tables \/ Records(c)
<1>1. ASSUME WriteOverride(c) PROVE UNCHANGED tables \/ Records(c)
  <2>1. CASE Answer(c, "refused")
    BY <2>1 DEF Answer
  <2>2. CASE ~Answer(c, "refused")
    <3>1. /\ pc[c] = "write" /\ cmd[c].kind = "temporary_override"
          /\ EventInsertable(EventOf(cmd[c])) /\ state[cmd[c].doc] = "temporary"
          /\ version[cmd[c].doc] = cmd[c].expected_version
          /\ version' = [version EXCEPT ![cmd[c].doc] = @ + 1]
          /\ events' = events \cup {EventOf(cmd[c])}
          /\ UNCHANGED <<state, number, header, sequence>>
      BY <1>1, <2>2 DEF WriteOverride
    <3>2. StateAfter("temporary_override") = "temporary" /\ AllowedFrom("temporary_override", "temporary")
      BY DEF StateAfter, AllowedFrom
    <3>3. /\ EventOf(cmd[c]).doc = cmd[c].doc /\ EventOf(cmd[c]).kind = cmd[c].kind
          /\ EventOf(cmd[c]).expected_version = cmd[c].expected_version
      BY DEF EventOf
    <3>4. Justified(events \cup {EventOf(cmd[c])}, cmd[c].doc, "temporary")
      BY <3>1, <3>2, <3>3 DEF Justified
    <3>5. state' = [state EXCEPT ![cmd[c].doc] = "temporary"]
      BY <3>1 DEF TypeOK
    <3> QED
      BY <3>1, <3>2, <3>4, <3>5 DEF Records
  <2> QED
    BY <2>1, <2>2
<1>2. ASSUME WriteTransition(c) PROVE UNCHANGED tables \/ Records(c)
  BY <1>2 DEF WriteTransition, Records, Answer
<1> QED
  BY <1>1, <1>2

(* Only a write changes a table. *)
LEMMA TablesStep ==
  ASSUME TypeOK, [Next]_vars
  PROVE  \/ UNCHANGED tables
         \/ \E c \in Conn : WriteCreation(c) /\ Creates(c)
         \/ \E c \in Conn : (WriteOverride(c) \/ WriteTransition(c)) /\ Records(c)
<1>1. ASSUME NEW c \in Conn, Begin(c) \/ ReadOriginal(c) PROVE UNCHANGED tables
  BY <1>1 DEF Begin, ReadOriginal, Answer
<1>2. ASSUME NEW c \in Conn, LookupCreation(c) \/ LookupEvent(c) PROVE UNCHANGED tables
  BY <1>2 DEF LookupCreation, LookupEvent, Answer, Goto
<1>3. ASSUME NEW c \in Conn, ReadReplay(c) \/ ReadBase(c) \/ ReadDocument(c) \/ ReadPrices(c)
      PROVE  UNCHANGED tables
  BY <1>3 DEF ReadReplay, ReadBase, ReadDocument, ReadPrices, Answer, Goto
<1>4. ASSUME NEW c \in Conn, WriteCreation(c) PROVE UNCHANGED tables \/ Creates(c)
  BY <1>4 DEF WriteCreation, Creates, Answer
<1>5. ASSUME NEW c \in Conn, WriteOverride(c) \/ WriteTransition(c)
      PROVE  UNCHANGED tables \/ Records(c)
  BY <1>5, WrittenRecord
<1>6. CASE UNCHANGED vars
  BY <1>6 DEF vars
<1> QED
  BY <1>1, <1>2, <1>3, <1>4, <1>5, <1>6 DEF Next

-----------------------------------------------------------------------------
(* What one more event adds to the history of a document. *)
LEMMA EventAdded ==
  ASSUME NEW e, events' = events \cup {e}, NEW d \in Doc, NEW k \in Kinds
  PROVE  /\ EventsOf(d)' = IF e.doc = d THEN EventsOf(d) \cup {e} ELSE EventsOf(d)
         /\ VersionsOf(d, k)' = IF e.doc = d /\ e.kind = k
                                THEN VersionsOf(d, k) \cup {e.expected_version}
                                ELSE VersionsOf(d, k)
<1>1. EventsOf(d)' = IF e.doc = d THEN EventsOf(d) \cup {e} ELSE EventsOf(d)
  BY DEF EventsOf
<1>2. CASE e.doc = d /\ e.kind = k
  <2>1. {f \in EventsOf(d)' : f.kind = k} = {f \in EventsOf(d) : f.kind = k} \cup {e}
    BY <1>1, <1>2
  <2> QED
    BY <1>1, <1>2, <2>1 DEF VersionsOf
<1>3. CASE ~(e.doc = d /\ e.kind = k)
  <2>1. {f \in EventsOf(d)' : f.kind = k} = {f \in EventsOf(d) : f.kind = k}
    BY <1>1, <1>3
  <2> QED
    BY <1>1, <1>3, <2>1 DEF VersionsOf
<1> QED
  BY <1>2, <1>3

(* Every event of a document names a version it had before. *)
LEMMA PastVersions ==
  ASSUME TypeOK, VersionIsHistory, NEW d \in Doc, NEW k
  PROVE  /\ \A e \in EventsOf(d) : e.expected_version \in Nat /\ e.expected_version < version[d]
         /\ \A v \in VersionsOf(d, k) : v \in Nat /\ v < version[d]
<1>1. ASSUME NEW e \in EventsOf(d) PROVE e.expected_version \in 0 .. version[d] - 1
  BY DEF VersionIsHistory
<1>2. \A e \in EventsOf(d) : e.expected_version \in Nat /\ e.expected_version < version[d]
  BY <1>1 DEF TypeOK
<1> QED
  BY <1>2 DEF VersionsOf

(* The triggers let an event pass only at the version its document has at   *)
(* that moment, so the event is the one that moves it.                      *)
LEMMA RecordFact ==
  ASSUME TypeOK, Tables, VersionIsHistory, NEW c \in Conn, Records(c)
  PROVE  LET r == cmd[c] IN
         /\ r \in Command /\ r.doc \in Doc /\ r.kind \in Kinds /\ r.kind # "creation"
         /\ r.expected_version = version[r.doc] /\ version[r.doc] \in Nat
         /\ version[r.doc] # 0 /\ Exists(r.doc)
         /\ AllowedFrom(r.kind, state[r.doc])
         /\ version'[r.doc] = version[r.doc] + 1
         /\ state'[r.doc] = StateAfter(r.kind)
         /\ \A d \in Doc : d # r.doc => version'[d] = version[d] /\ state'[d] = state[d]
<1> DEFINE r == cmd[c]
           d == r.doc
<1>1. r \in Command /\ d \in Doc /\ r.kind \in Kinds /\ r.kind # "creation"
  BY DEF Records, TypeOK, Command
<1>2. PICK e \in events \cup {EventOf(r)} :
         /\ e.doc = d /\ e.expected_version = version[d] /\ AllowedFrom(e.kind, state[d])
  BY DEF Records, Justified
<1>3. e \notin events
  <2> SUFFICES ASSUME e \in events PROVE FALSE
    OBVIOUS
  <2>1. e \in EventsOf(d)
    BY <1>2 DEF EventsOf
  <2> QED
    BY <1>1, <1>2, <2>1, PastVersions DEF TypeOK
<1>4. r.expected_version = version[d] /\ AllowedFrom(r.kind, state[d])
  BY <1>2, <1>3 DEF EventOf
<1>5. Exists(d)
  BY <1>4 DEF AllowedFrom, Exists
<1>6. version[d] \in Nat /\ version[d] # 0
  BY <1>1, <1>5 DEF TypeOK, Tables
<1>7. /\ version'[d] = version[d] + 1 /\ state'[d] = StateAfter(r.kind)
      /\ \A f \in Doc : f # d => version'[f] = version[f] /\ state'[f] = state[f]
  BY <1>1 DEF Records, TypeOK
<1> QED
  BY <1>1, <1>4, <1>5, <1>6, <1>7

(* What a creation finds and leaves. *)
LEMMA CreateFact ==
  ASSUME TypeOK, Commands, Memory, Tables, VersionIsHistory, NEW c \in Conn, Creates(c)
  PROVE  LET r == cmd[c] IN
         /\ r \in Command /\ r.doc \in Doc /\ r.base \in Base /\ DOMAIN r.prices = BaseLines[r.base]
         /\ r.original # None => /\ r.original \in Doc /\ Exists(r.original)
                                 /\ header[r.original].base = r.base
         /\ ~Exists(r.doc) /\ version[r.doc] = 0 /\ EventsOf(r.doc) = {}
         /\ r.expected_version = 0
         /\ version'[r.doc] = 1 /\ state'[r.doc] = "temporary" /\ header'[r.doc] = HeaderOf(r)
         /\ sequence'[r.doc] = NextSequence(r.customer, r.year)
         /\ \A d \in Doc : d # r.doc => /\ version'[d] = version[d] /\ state'[d] = state[d]
                                        /\ header'[d] = header[d] /\ sequence'[d] = sequence[d]
<1> DEFINE r == cmd[c]
<1>1. r \in Command /\ r.doc \in Doc /\ r.expected_version = 0
  BY DEF Creates, Commands, TypeOK, Command
<1>2. /\ r.base \in Base /\ DOMAIN r.prices = BaseLines[r.base]
      /\ r.original # None => /\ r.original \in Doc /\ Exists(r.original)
                              /\ header[r.original].base = r.base
  BY DEF Creates, Memory, Knows
<1>3. ~Exists(r.doc)
  BY DEF Creates, Creatable
<1>4. version[r.doc] = 0
  BY <1>1, <1>3 DEF Tables
<1>5. EventsOf(r.doc) = {}
  BY <1>1, <1>4, PastVersions
<1>6. /\ version'[r.doc] = 1 /\ state'[r.doc] = "temporary"
      /\ \A d \in Doc : d # r.doc => version'[d] = version[d] /\ state'[d] = state[d]
  BY <1>1 DEF Creates, TypeOK
<1>7. /\ header'[r.doc] = HeaderOf(r) /\ sequence'[r.doc] = NextSequence(r.customer, r.year)
      /\ \A d \in Doc : d # r.doc => header'[d] = header[d] /\ sequence'[d] = sequence[d]
  BY <1>1 DEF Creates, TypeOK
<1> QED
  BY <1>1, <1>2, <1>3, <1>4, <1>5, <1>6, <1>7

(* Events only grow, a document keeps its columns once it exists, and a     *)
(* cancelled one stays cancelled.                                           *)
LEMMA GrowStep ==
  ASSUME TypeOK, Commands, Memory, Tables, VersionIsHistory, [Next]_vars
  PROVE  /\ events \subseteq events'
         /\ \A d \in Doc : Exists(d) => /\ Exists(d)' /\ header'[d] = header[d]
                                        /\ sequence'[d] = sequence[d]
         /\ \A d \in Doc : state[d] = "cancelled" => state'[d] = "cancelled"
<1>1. CASE UNCHANGED tables
  BY <1>1 DEF tables, Exists
<1>2. ASSUME NEW c \in Conn, Creates(c)
      PROVE  /\ events \subseteq events'
             /\ \A d \in Doc : Exists(d) => /\ Exists(d)' /\ header'[d] = header[d]
                                            /\ sequence'[d] = sequence[d] /\ state'[d] = state[d]
  <2>1. events \subseteq events'
    BY <1>2 DEF Creates
  <2>2. ASSUME NEW d \in Doc, Exists(d)
        PROVE  /\ state'[d] = state[d] /\ header'[d] = header[d] /\ sequence'[d] = sequence[d]
    BY <1>2, <2>2, CreateFact
  <2> QED
    BY <2>1, <2>2 DEF Exists
<1>3. ASSUME NEW c \in Conn, Records(c)
      PROVE  /\ events \subseteq events' /\ header' = header /\ sequence' = sequence
             /\ \A d \in Doc : Exists(d) => Exists(d)'
             /\ \A d \in Doc : state[d] = "cancelled" => state'[d] = "cancelled"
  <2>1. events \subseteq events' /\ header' = header /\ sequence' = sequence
    BY <1>3 DEF Records
  <2>2. ASSUME NEW d \in Doc
        PROVE  /\ Exists(d) => Exists(d)'
               /\ state[d] = "cancelled" => state'[d] = "cancelled"
    <3>1. CASE d = cmd[c].doc
      BY <1>3, <3>1, RecordFact DEF AllowedFrom, StateAfter, Exists
    <3>2. CASE d # cmd[c].doc
      BY <1>3, <3>2, RecordFact DEF Exists
    <3> QED
      BY <3>1, <3>2
  <2> QED
    BY <2>1, <2>2
<1> QED
  BY <1>1, <1>2, <1>3, TablesStep DEF Exists

(* A creation is the first event of its document, and any other event has   *)
(* the document's present version, which its own write increments.          *)
LEMMA HistoryStep ==
  ASSUME TypeOK, Commands, Memory, Tables, VersionIsHistory, [Next]_vars
  PROVE  VersionIsHistory'
<1>1. ASSUME UNCHANGED <<version, events>> PROVE VersionIsHistory'
  BY <1>1 DEF VersionIsHistory, EventsOf
<1>2. ASSUME NEW c \in Conn, NEW n \in Nat, events' = events \cup {EventOf(cmd[c])},
             cmd[c].doc \in Doc, cmd[c].expected_version = n, version[cmd[c].doc] = n,
             version'[cmd[c].doc] = n + 1,
             \A d \in Doc : d # cmd[c].doc => version'[d] = version[d]
      PROVE  VersionIsHistory'
  <2> SUFFICES ASSUME NEW d \in Doc
               PROVE  /\ {e.expected_version : e \in EventsOf(d)'} = 0 .. version'[d] - 1
                      /\ \A e, f \in EventsOf(d)' : e.expected_version = f.expected_version => e = f
    BY DEF VersionIsHistory
  <2> DEFINE new == EventOf(cmd[c])
  <2>1. new.doc = cmd[c].doc /\ new.expected_version = n
    BY <1>2 DEF EventOf
  <2>2. events' = events \cup {new}
    BY <1>2
  <2> HIDE DEF new
  <2>3. EventsOf(d)' = IF new.doc = d THEN EventsOf(d) \cup {new} ELSE EventsOf(d)
    BY <2>2, EventAdded DEF Kinds, DocumentKinds
  <2>4. CASE d # cmd[c].doc
    BY <1>2, <2>1, <2>3, <2>4 DEF VersionIsHistory
  <2>5. CASE d = cmd[c].doc
    <3>1. EventsOf(d)' = EventsOf(d) \cup {new} /\ version[d] = n /\ version'[d] = n + 1
      BY <1>2, <2>1, <2>3, <2>5
    <3>2. {e.expected_version : e \in EventsOf(d)} = 0 .. n - 1
      BY <3>1 DEF VersionIsHistory
    <3>3. {e.expected_version : e \in EventsOf(d)'} = (0 .. n - 1) \cup {n}
      BY <2>1, <3>1, <3>2
    <3>4. (0 .. n - 1) \cup {n} = 0 .. n
      OBVIOUS
    <3>5. ASSUME NEW e \in EventsOf(d)', NEW f \in EventsOf(d)',
                 e.expected_version = f.expected_version
          PROVE  e = f
      <4>1. \A g \in EventsOf(d) : g.expected_version # n
        BY <3>1, PastVersions
      <4> QED
        BY <2>1, <3>1, <3>5, <4>1 DEF VersionIsHistory
    <3> QED
      BY <3>1, <3>3, <3>4, <3>5
  <2> QED
    BY <2>4, <2>5
<1>3. ASSUME NEW c \in Conn, Creates(c) PROVE VersionIsHistory'
  <2>1. events' = events \cup {EventOf(cmd[c])}
    BY <1>3 DEF Creates
  <2>2. /\ cmd[c].doc \in Doc /\ cmd[c].expected_version = 0
        /\ version[cmd[c].doc] = 0 /\ version'[cmd[c].doc] = 0 + 1
        /\ \A d \in Doc : d # cmd[c].doc => version'[d] = version[d]
    BY <1>3, CreateFact
  <2> QED
    BY <1>2, <2>1, <2>2
<1>4. ASSUME NEW c \in Conn, Records(c) PROVE VersionIsHistory'
  <2>1. events' = events \cup {EventOf(cmd[c])}
    BY <1>4 DEF Records
  <2>2. /\ cmd[c].doc \in Doc /\ cmd[c].expected_version = version[cmd[c].doc]
        /\ version[cmd[c].doc] \in Nat
        /\ version'[cmd[c].doc] = version[cmd[c].doc] + 1
        /\ \A d \in Doc : d # cmd[c].doc => version'[d] = version[d]
    BY <1>4, RecordFact
  <2> QED
    BY <1>2, <2>1, <2>2
<1> QED
  BY <1>1, <1>3, <1>4, TablesStep DEF tables

(* The history of every other document is untouched, and the new event goes *)
(* where its kind is allowed.                                               *)
LEMMA StateStep ==
  ASSUME TypeOK, Commands, Memory, Tables, VersionIsHistory, StateFollowsHistory, [Next]_vars
  PROVE  StateFollowsHistory'
<1> DEFINE Told(d) ==
      /\ Exists(d) <=> VersionsOf(d, "creation") # {}
      /\ \A v, w \in VersionsOf(d, "real_confirmation") : v = w
      /\ \A v \in VersionsOf(d, "temporary_override") :
           \A w \in VersionsOf(d, "real_confirmation") \cup VersionsOf(d, "cancellation") : v < w
      /\ \A v \in VersionsOf(d, "real_confirmation") : \A w \in VersionsOf(d, "cancellation") : v < w
      /\ \A v, w \in VersionsOf(d, "cancellation") : v = w
      /\ state[d] = "cancelled" <=> VersionsOf(d, "cancellation") # {}
      /\ state[d] = "real" <=> /\ VersionsOf(d, "real_confirmation") # {}
                               /\ VersionsOf(d, "cancellation") = {}
      /\ number[d] # None <=> VersionsOf(d, "real_confirmation") # {}
<1>1. \A d \in Doc : Told(d)
  BY DEF StateFollowsHistory
<1>2. SUFFICES \A d \in Doc : Told(d)'
  BY DEF StateFollowsHistory
<1>3. ASSUME NEW d \in Doc, state'[d] = state[d], number'[d] = number[d],
             \A k \in Kinds : VersionsOf(d, k)' = VersionsOf(d, k)
      PROVE  Told(d)'
  <2>1. /\ VersionsOf(d, "creation")' = VersionsOf(d, "creation")
        /\ VersionsOf(d, "temporary_override")' = VersionsOf(d, "temporary_override")
        /\ VersionsOf(d, "real_confirmation")' = VersionsOf(d, "real_confirmation")
        /\ VersionsOf(d, "cancellation")' = VersionsOf(d, "cancellation")
    BY <1>3 DEF Kinds, DocumentKinds
  <2> QED
    BY <1>1, <1>3, <2>1 DEF Exists
<1>4. ASSUME UNCHANGED <<state, number, events>> PROVE \A d \in Doc : Told(d)'
  <2>1. \A d \in Doc, k \in Kinds : VersionsOf(d, k)' = VersionsOf(d, k)
    BY <1>4 DEF VersionsOf, EventsOf
  <2> QED
    BY <1>3, <1>4, <2>1
<1>5. ASSUME NEW c \in Conn, Creates(c), NEW d \in Doc PROVE Told(d)'
  <2> DEFINE new == EventOf(cmd[c])
  <2>1. new.doc = cmd[c].doc /\ new.kind = "creation"
    BY <1>5 DEF EventOf, Creates
  <2>2. events' = events \cup {new} /\ number' = number
    BY <1>5 DEF Creates
  <2> HIDE DEF new
  <2>3. CASE d # cmd[c].doc
    <3>1. \A k \in Kinds : VersionsOf(d, k)' = VersionsOf(d, k)
      BY <2>1, <2>2, <2>3, EventAdded
    <3> QED
      BY <1>3, <1>5, <2>2, <2>3, <3>1, CreateFact
  <2>4. CASE d = cmd[c].doc
    <3>1. EventsOf(d) = {} /\ ~Exists(d) /\ state'[d] = "temporary"
      BY <1>5, <2>4, CreateFact
    <3>2. \A k \in Kinds : VersionsOf(d, k) = {}
      BY <3>1 DEF VersionsOf
    <3>3. \A k \in Kinds : VersionsOf(d, k)' = IF k = "creation" THEN {new.expected_version} ELSE {}
      <4> TAKE k \in Kinds
      <4>1. VersionsOf(d, k)' = IF new.doc = d /\ new.kind = k
                               THEN VersionsOf(d, k) \cup {new.expected_version} ELSE VersionsOf(d, k)
        BY <2>2, EventAdded
      <4> QED
        BY <2>1, <2>4, <3>2, <4>1
    <3>4. /\ VersionsOf(d, "creation")' # {}
          /\ VersionsOf(d, "temporary_override")' = {}
          /\ VersionsOf(d, "real_confirmation")' = {}
          /\ VersionsOf(d, "cancellation")' = {}
      BY <3>3 DEF Kinds, DocumentKinds
    <3>5. number[d] = None
      BY <1>1, <3>2 DEF Kinds, DocumentKinds
    <3> QED
      BY <2>2, <3>1, <3>4, <3>5 DEF Exists
  <2> QED
    BY <2>3, <2>4
<1>6. ASSUME NEW c \in Conn, Records(c), NEW d \in Doc PROVE Told(d)'
  <2> DEFINE new == EventOf(cmd[c])
  <2>1. /\ new.doc = cmd[c].doc /\ new.expected_version = cmd[c].expected_version
        /\ new.kind = cmd[c].kind
    BY DEF EventOf
  <2>2. /\ events' = events \cup {new}
        /\ number' = IF cmd[c].kind = "real_confirmation"
                     THEN [number EXCEPT ![cmd[c].doc] = cmd[c].number] ELSE number
    BY <1>6 DEF Records
  <2> HIDE DEF new
  <2>3. CASE d # cmd[c].doc
    <3>1. \A k \in Kinds : VersionsOf(d, k)' = VersionsOf(d, k)
      BY <2>1, <2>2, <2>3, EventAdded
    <3>2. number'[d] = number[d]
      BY <2>2, <2>3 DEF TypeOK
    <3> QED
      BY <1>3, <1>6, <2>3, <3>1, <3>2, RecordFact
  <2>4. CASE d = cmd[c].doc
    <3> DEFINE n == version[d]
               kind == cmd[c].kind
    <3>1. /\ new.expected_version = n /\ AllowedFrom(kind, state[d])
          /\ state'[d] = StateAfter(kind)
          /\ kind \in Kinds /\ kind # "creation" /\ Exists(d) /\ n \in Nat
      <4>1. /\ cmd[c].expected_version = version[cmd[c].doc] /\ version[cmd[c].doc] \in Nat
            /\ cmd[c].kind \in Kinds /\ cmd[c].kind # "creation" /\ Exists(cmd[c].doc)
            /\ AllowedFrom(cmd[c].kind, state[cmd[c].doc])
            /\ state'[cmd[c].doc] = StateAfter(cmd[c].kind)
        BY <1>6, RecordFact
      <4> QED
        BY <2>1, <2>4, <4>1
    <3>2. \A k \in Kinds : VersionsOf(d, k)' = IF k = kind THEN VersionsOf(d, k) \cup {n}
                                                ELSE VersionsOf(d, k)
      <4> TAKE k \in Kinds
      <4>1. VersionsOf(d, k)' = IF new.doc = d /\ new.kind = k
                               THEN VersionsOf(d, k) \cup {new.expected_version} ELSE VersionsOf(d, k)
        BY <2>2, EventAdded
      <4> QED
        BY <2>1, <2>4, <3>1, <4>1
    <3>3. /\ VersionsOf(d, "creation")' = VersionsOf(d, "creation")
          /\ VersionsOf(d, "temporary_override")' = IF kind = "temporary_override"
               THEN VersionsOf(d, "temporary_override") \cup {n} ELSE VersionsOf(d, "temporary_override")
          /\ VersionsOf(d, "real_confirmation")' = IF kind = "real_confirmation"
               THEN VersionsOf(d, "real_confirmation") \cup {n} ELSE VersionsOf(d, "real_confirmation")
          /\ VersionsOf(d, "cancellation")' = IF kind = "cancellation"
               THEN VersionsOf(d, "cancellation") \cup {n} ELSE VersionsOf(d, "cancellation")
      BY <3>1, <3>2 DEF Kinds, DocumentKinds
    <3>4. \A k \in Kinds : \A v \in VersionsOf(d, k) : v \in Nat /\ v < n
      BY PastVersions
    <3>5. /\ \A v \in VersionsOf(d, "temporary_override") : v \in Nat /\ v < n
          /\ \A v \in VersionsOf(d, "real_confirmation") : v \in Nat /\ v < n
      BY <3>4 DEF Kinds, DocumentKinds
    <3>6. number'[d] = IF kind = "real_confirmation" THEN cmd[c].number ELSE number[d]
      BY <2>2, <2>4 DEF TypeOK
    <3>7. Told(d)
      BY <1>1
    <3>8. kind \in {"temporary_override", "real_confirmation", "cancellation"}
      BY <3>1 DEF Kinds, DocumentKinds
    <3> HIDE DEF n, kind
    <3>9. CASE kind = "temporary_override"
      <4>1. state[d] = "temporary" /\ state'[d] = "temporary"
        BY <3>1, <3>9 DEF AllowedFrom, StateAfter
      <4>2. VersionsOf(d, "real_confirmation") = {} /\ VersionsOf(d, "cancellation") = {}
        BY <3>7, <4>1
      <4> QED
        BY <3>3, <3>6, <3>7, <3>9, <4>1, <4>2 DEF Exists
    <3>10. CASE kind = "real_confirmation"
      <4>1. state[d] = "temporary" /\ state'[d] = "real"
        BY <3>1, <3>10 DEF AllowedFrom, StateAfter
      <4>2. VersionsOf(d, "real_confirmation") = {} /\ VersionsOf(d, "cancellation") = {}
        BY <3>7, <4>1
      <4>3. cmd[c].number # None
        BY <3>10 DEF Commands, kind
      <4> QED
        BY <3>3, <3>5, <3>6, <3>7, <3>10, <4>1, <4>2, <4>3 DEF Exists
    <3>11. CASE kind = "cancellation"
      <4>1. state[d] \in {"temporary", "real"} /\ state'[d] = "cancelled"
        BY <3>1, <3>11 DEF AllowedFrom, StateAfter
      <4>2. VersionsOf(d, "cancellation") = {}
        BY <3>7, <4>1
      <4> QED
        BY <3>3, <3>5, <3>6, <3>7, <3>11, <4>1, <4>2 DEF Exists
    <3> QED
      BY <3>8, <3>9, <3>10, <3>11
  <2> QED
    BY <2>3, <2>4
<1> QED
  BY <1>4, <1>5, <1>6, TablesStep DEF tables

-----------------------------------------------------------------------------
LEMMA MaxOfInterval == ASSUME NEW n \in Nat PROVE Max({0} \cup 1 .. n) = n
<1> DEFINE S == {0} \cup 1 .. n
<1>1. n \in S /\ \A y \in S : n >= y
  OBVIOUS
<1>2. Max(S) \in S /\ \A y \in S : Max(S) >= y
  BY <1>1 DEF Max
<1>3. Max(S) >= n /\ n >= Max(S) /\ Max(S) \in Nat
  BY <1>1, <1>2
<1> HIDE DEF S
<1>4. Max(S) = n
  BY <1>3
<1> QED
  BY <1>4 DEF S

(* COALESCE(MAX(reference_sequence),0)+1 counts the documents. *)
LEMMA NextIsCount ==
  ASSUME Tables, ReferencesAreDense, NEW c \in Customer, NEW y \in Year
  PROVE  /\ NextSequence(c, y) = Cardinality(Ledger(c, y)) + 1
         /\ Cardinality(Ledger(c, y)) \in Nat
<1>1. Cardinality(Ledger(c, y)) \in Nat
  BY FS_CardinalityType DEF Tables
<1>2. {sequence[d] : d \in Ledger(c, y)} = 1 .. Cardinality(Ledger(c, y))
  BY DEF ReferencesAreDense
<1> QED
  BY <1>1, <1>2, MaxOfInterval DEF NextSequence

(* A document enters one ledger when it is created and never leaves it. *)
LEMMA LedgerStep ==
  ASSUME TypeOK, Commands, Memory, Tables, VersionIsHistory, ReferencesAreDense, [Next]_vars
  PROVE  /\ \A c \in Customer, y \in Year : IsFiniteSet(Ledger(c, y))'
         /\ ReferencesAreDense'
<1> DEFINE Dense(c, y) == /\ IsFiniteSet(Ledger(c, y))
                          /\ {sequence[d] : d \in Ledger(c, y)} = 1 .. Cardinality(Ledger(c, y))
<1>1. \A c \in Customer, y \in Year : Dense(c, y)
  BY DEF Tables, ReferencesAreDense
<1>2. SUFFICES ASSUME NEW k \in Customer, NEW y \in Year PROVE Dense(k, y)'
  BY DEF ReferencesAreDense
<1>3. ASSUME UNCHANGED header, UNCHANGED sequence, \A d \in Doc : Exists(d)' <=> Exists(d)
      PROVE  Dense(k, y)'
  <2>1. Ledger(k, y)' = Ledger(k, y)
    BY <1>3 DEF Ledger
  <2> QED
    BY <1>1, <1>3, <2>1
<1>4. CASE UNCHANGED tables
  BY <1>3, <1>4 DEF tables, Exists
<1>5. ASSUME NEW c \in Conn, Records(c) PROVE Dense(k, y)'
  <2>1. UNCHANGED header /\ UNCHANGED sequence
    BY <1>5 DEF Records
  <2>2. ASSUME NEW d \in Doc PROVE Exists(d)' <=> Exists(d)
    <3>1. CASE d = cmd[c].doc
      BY <1>5, <3>1, RecordFact DEF StateAfter, Exists
    <3>2. CASE d # cmd[c].doc
      BY <1>5, <3>2, RecordFact DEF Exists
    <3> QED
      BY <3>1, <3>2
  <2> QED
    BY <1>3, <2>1, <2>2
<1>6. ASSUME NEW c \in Conn, Creates(c) PROVE Dense(k, y)'
  <2> DEFINE r == cmd[c]
             e == r.doc
  <2>1. /\ r \in Command /\ e \in Doc /\ ~Exists(e) /\ state'[e] = "temporary"
        /\ header'[e] = HeaderOf(r) /\ sequence'[e] = NextSequence(r.customer, r.year)
        /\ \A d \in Doc : d # e => /\ state'[d] = state[d] /\ header'[d] = header[d]
                                   /\ sequence'[d] = sequence[d]
    BY <1>6, CreateFact
  <2>2. e \notin Ledger(k, y)
    BY <2>1 DEF Ledger
  <2>3. header'[e].customer = r.customer /\ header'[e].year = r.year
    BY <2>1 DEF HeaderOf
  <2>4. \A d \in Ledger(k, y) : sequence'[d] = sequence[d]
    BY <2>1, <2>2 DEF Ledger
  <2>5. CASE ~(r.customer = k /\ r.year = y)
    <3>1. Ledger(k, y)' = Ledger(k, y)
      BY <2>1, <2>2, <2>3, <2>5 DEF Ledger, Exists
    <3> QED
      BY <1>1, <2>4, <3>1
  <2>6. CASE r.customer = k /\ r.year = y
    <3> DEFINE n == Cardinality(Ledger(k, y))
    <3>1. Ledger(k, y)' = Ledger(k, y) \cup {e}
      BY <2>1, <2>2, <2>3, <2>6 DEF Ledger, Exists
    <3>2. n \in Nat /\ sequence'[e] = n + 1
      BY <2>1, <2>6, NextIsCount
    <3>3. IsFiniteSet(Ledger(k, y) \cup {e}) /\ Cardinality(Ledger(k, y) \cup {e}) = n + 1
      BY <1>1, <2>2, FS_AddElement
    <3>4. {sequence[d] : d \in Ledger(k, y)} = 1 .. n
      BY <1>1
    <3>5. {sequence'[d] : d \in Ledger(k, y) \cup {e}} = (1 .. n) \cup {n + 1}
      BY <2>4, <3>2, <3>4
    <3>6. (1 .. n) \cup {n + 1} = 1 .. n + 1
      BY <3>2
    <3> QED
      BY <3>1, <3>3, <3>5, <3>6
  <2> QED
    BY <2>5, <2>6
<1> QED
  BY <1>4, <1>5, <1>6, TablesStep

-----------------------------------------------------------------------------
(* A correction that learned its base is a command again.                  *)
LEMMA BasedTyped ==
  ASSUME NEW r \in Command, NEW b \in Base
  PROVE  [r EXCEPT !.base = b] \in Command
BY DEF Command

(* Every step keeps the types; a reference never passes MaxSeq. *)
LEMMA TypeStep ==
  ASSUME TypeOK, Commands, Memory, Tables, VersionIsHistory, ReferencesAreDense, [Next]_vars
  PROVE  TypeOK'
<1> USE DEF TypeOK, Steps
<1>1. ASSUME NEW c \in Conn, Begin(c) PROVE TypeOK'
  BY <1>1, RequestAssumption DEF Begin, tables
<1>2. ASSUME NEW c \in Conn, NEW o \in {"ok", "refused", "conflict"}, Answer(c, o) PROVE TypeOK'
  BY <1>2 DEF Answer, tables
<1>3. ASSUME NEW c \in Conn, NEW step \in Steps, Goto(c, step) PROVE TypeOK'
  BY <1>3 DEF Goto, tables
<1>4. ASSUME NEW c \in Conn, ReadOriginal(c) PROVE TypeOK'
  <2>1. CASE Answer(c, "refused")
    BY <1>2, <2>1
  <2>2. CASE ~Answer(c, "refused")
    <3> DEFINE o == cmd[c].original
    <3>1. /\ state[o] = "cancelled"
          /\ cmd' = [cmd EXCEPT ![c] = [@ EXCEPT !.base = header[o].base]]
          /\ pc' = [pc EXCEPT ![c] = "lookup"]
          /\ UNCHANGED <<tables, reply>>
      BY <1>4, <2>2 DEF ReadOriginal
    <3>2. cmd[c] \in Command /\ o \in Doc
      BY <1>4 DEF ReadOriginal, Memory, Knows, Command
    <3>3. header[o].base \in Base
      BY <3>1, <3>2 DEF Tables, Exists, Header
    <3>4. [cmd[c] EXCEPT !.base = header[o].base] \in Command
      BY <3>2, <3>3, BasedTyped
    <3>5. cmd' \in [Conn -> Command]
      BY <3>1, <3>4
    <3> QED
      BY <3>1, <3>5 DEF tables
  <2> QED
    BY <2>1, <2>2
<1>5. ASSUME NEW c \in Conn, LookupCreation(c) PROVE TypeOK'
  BY <1>2, <1>3, <1>5 DEF LookupCreation
<1>6. ASSUME NEW c \in Conn, LookupEvent(c) PROVE TypeOK'
  BY <1>2, <1>3, <1>6 DEF LookupEvent
<1>7. ASSUME NEW c \in Conn, ReadReplay(c) \/ ReadBase(c) PROVE TypeOK'
  BY <1>2, <1>3, <1>7 DEF ReadReplay, ReadBase
<1>8. ASSUME NEW c \in Conn, ReadDocument(c) \/ ReadPrices(c) PROVE TypeOK'
  BY <1>2, <1>3, <1>8 DEF ReadDocument, ReadPrices
<1>9. ASSUME NEW c \in Conn, cmd[c] \in Command PROVE EventOf(cmd[c]) \in Event
  BY <1>9 DEF Command, EventOf, Event
<1>10. ASSUME NEW c \in Conn, Creates(c), pc' = [pc EXCEPT ![c] = "idle"],
              reply' = [reply EXCEPT ![c] = "ok"], UNCHANGED cmd
       PROVE  TypeOK'
  <2> DEFINE r == cmd[c]
             n == NextSequence(r.customer, r.year)
  <2>1. r \in Command /\ r.doc \in Doc /\ r.base \in Base
    BY <1>10, CreateFact
  <2>2. HeaderOf(r) \in Header
    BY <2>1 DEF HeaderOf, Header, Command
  <2>3. n \in 0 .. MaxSeq
    <3>1. r.customer \in Customer /\ r.year \in Year
      BY <2>1 DEF Command
    <3>2. n = Cardinality(Ledger(r.customer, r.year)) + 1 /\ Cardinality(Ledger(r.customer, r.year)) \in Nat
      BY <3>1, NextIsCount
    <3>3. n <= MaxSeq
      BY <1>10 DEF Creates, ReferenceAvailable
    <3> HIDE DEF n
    <3> QED
      BY <3>2, <3>3, SeqAssumption
  <2>4. events' \in SUBSET Event
    BY <1>9, <1>10, <2>1 DEF Creates
  <2>5. /\ header' \in [Doc -> Header \cup {None}] /\ sequence' \in [Doc -> 0 .. MaxSeq]
        /\ state' \in [Doc -> States \cup {"absent"}] /\ version' \in [Doc -> Nat]
    BY <1>10, <2>2, <2>3 DEF Creates, States
  <2> QED
    BY <1>10, <2>4, <2>5 DEF Creates
<1>11. ASSUME NEW c \in Conn, WriteCreation(c) PROVE TypeOK'
  BY <1>2, <1>10, <1>11 DEF WriteCreation, Creates
<1>12. ASSUME NEW c \in Conn, Records(c), pc' = [pc EXCEPT ![c] = "idle"],
              reply' = [reply EXCEPT ![c] = "ok"], UNCHANGED cmd
       PROVE  TypeOK'
  <2>1. cmd[c] \in Command /\ version[cmd[c].doc] + 1 \in Nat
    BY <1>12, RecordFact
  <2>2. events' \in SUBSET Event
    BY <1>9, <1>12, <2>1 DEF Records
  <2>3. StateAfter(cmd[c].kind) \in States
    BY DEF StateAfter, States
  <2>4. state' \in [Doc -> States \cup {"absent"}] /\ version' \in [Doc -> Nat]
    BY <1>12, <2>1, <2>3 DEF Records
  <2>5. number' \in [Doc -> Number \cup {None}]
    BY <1>12, <2>1 DEF Records, Command
  <2> QED
    BY <1>12, <2>2, <2>4, <2>5 DEF Records
<1>13. ASSUME NEW c \in Conn, WriteOverride(c) \/ WriteTransition(c) PROVE TypeOK'
  <2>1. CASE Answer(c, "refused")
    BY <1>2, <2>1
  <2>2. CASE ~Answer(c, "refused")
    <3>1. /\ pc' = [pc EXCEPT ![c] = "idle"] /\ reply' = [reply EXCEPT ![c] = "ok"]
          /\ UNCHANGED cmd
      BY <1>13, <2>2 DEF WriteOverride, WriteTransition
    <3>2. UNCHANGED tables \/ Records(c)
      BY <1>13, WrittenRecord
    <3> QED
      BY <1>12, <3>1, <3>2 DEF tables
  <2> QED
    BY <2>1, <2>2
<1>14. CASE UNCHANGED vars
  BY <1>14 DEF vars, tables
<1> QED
  BY <1>1, <1>4, <1>5, <1>6, <1>7, <1>8, <1>11, <1>13, <1>14 DEF Next

-----------------------------------------------------------------------------
(* The unique indexes and guards of a creation keep the documents of a base *)
(* one chain, and cancelled documents stay in it.                           *)
LEMMA ChainStep ==
  ASSUME TypeOK, Commands, Memory, Tables, VersionIsHistory, OneCorrectionChain, [Next]_vars
  PROVE  OneCorrectionChain'
<1> DEFINE Apart(d, e) == /\ Live(d) /\ Live(e) => d = e
                          /\ header[d].original = header[e].original => d = e
           Rooted(b, d) == header[d].original # None =>
                /\ header[d].original \in OfBase(b) /\ state[header[d].original] = "cancelled"
<1>1. \A b \in Base : /\ \A d, e \in OfBase(b) : Apart(d, e)
                      /\ \A d \in OfBase(b) : Rooted(b, d)
  BY DEF OneCorrectionChain
<1>2. SUFFICES ASSUME NEW b \in Base
               PROVE  /\ \A d, e \in OfBase(b)' : Apart(d, e)'
                      /\ \A d \in OfBase(b)' : Rooted(b, d)'
  BY DEF OneCorrectionChain
<1>3. CASE UNCHANGED tables
  <2>1. OfBase(b)' = OfBase(b) /\ \A d \in Doc : Live(d)' <=> Live(d)
    BY <1>3 DEF tables, OfBase, Exists, Live
  <2> QED
    BY <1>1, <1>3, <2>1 DEF tables, OfBase
<1>4. ASSUME NEW c \in Conn, Records(c)
      PROVE  /\ \A d, e \in OfBase(b)' : Apart(d, e)'
             /\ \A d \in OfBase(b)' : Rooted(b, d)'
  <2>1. UNCHANGED header
    BY <1>4 DEF Records
  <2>2. ASSUME NEW d \in Doc
        PROVE  /\ Exists(d)' <=> Exists(d)
               /\ Live(d)' => Live(d)
               /\ state[d] = "cancelled" => state'[d] = "cancelled"
    <3>1. CASE d = cmd[c].doc
      BY <1>4, <3>1, RecordFact DEF StateAfter, AllowedFrom, Exists, Live
    <3>2. CASE d # cmd[c].doc
      BY <1>4, <3>2, RecordFact DEF Exists, Live
    <3> QED
      BY <3>1, <3>2
  <2>3. OfBase(b)' = OfBase(b) /\ OfBase(b) \subseteq Doc
    BY <2>1, <2>2 DEF OfBase
  <2>4. ASSUME NEW d \in OfBase(b) PROVE Rooted(b, d)'
    BY <1>1, <2>1, <2>2, <2>3, <2>4
  <2> QED
    BY <1>1, <2>1, <2>2, <2>3, <2>4
<1>5. ASSUME NEW c \in Conn, Creates(c)
      PROVE  /\ \A d, e \in OfBase(b)' : Apart(d, e)'
             /\ \A d \in OfBase(b)' : Rooted(b, d)'
  <2> DEFINE r == cmd[c]
  <2> PICK n \in Doc : n = r.doc
    BY <1>5, CreateFact
  <2>1. /\ n \in Doc /\ r.base \in Base /\ ~Exists(n) /\ state'[n] = "temporary"
        /\ header'[n] = HeaderOf(r)
        /\ r.original # None => /\ r.original \in Doc /\ Exists(r.original)
                                /\ header[r.original].base = r.base
        /\ \A d \in Doc : d # n => state'[d] = state[d] /\ header'[d] = header[d]
    BY <1>5, CreateFact
  <2>2. header'[n].base = r.base /\ header'[n].original = r.original
    BY <2>1 DEF HeaderOf
  <2>3. /\ \A d \in OfBase(r.base) : ~Live(d)
        /\ r.original # None => /\ state[r.original] = "cancelled"
                                /\ \A d \in Doc : Exists(d) => header[d].original # r.original
        /\ OfBase(r.base) # {} => r.original # None
    BY <1>5 DEF Creates, Creatable
  <2>4. \A d \in OfBase(b) : d \in Doc /\ Exists(d) /\ d # n
    BY <2>1 DEF OfBase
  <2>5. \A d \in OfBase(b) : header'[d] = header[d] /\ state'[d] = state[d] /\ (Live(d)' <=> Live(d))
    BY <2>1, <2>4 DEF Live
  <2>6. ASSUME NEW d \in OfBase(b) PROVE Rooted(b, d)' /\ \A e \in OfBase(b) : Apart(d, e)'
    <3>1. \A e \in OfBase(b) : Apart(d, e)'
      BY <1>1, <2>5, <2>6
    <3>2. OfBase(b) \subseteq OfBase(b)'
      BY <2>1, <2>4, <2>5 DEF OfBase, Exists
    <3>3. Rooted(b, d)'
      <4> SUFFICES ASSUME header[d].original # None
                   PROVE  header[d].original \in OfBase(b)' /\ state'[header[d].original] = "cancelled"
        BY <2>5, <2>6
      <4>1. header[d].original \in OfBase(b) /\ state[header[d].original] = "cancelled"
        BY <1>1, <2>6
      <4> QED
        BY <2>5, <3>2, <4>1
    <3> QED
      BY <3>1, <3>3
  <2>7. CASE b # r.base
    <3>1. OfBase(b)' = OfBase(b)
      BY <2>1, <2>2, <2>4, <2>5, <2>7 DEF OfBase, Exists
    <3> QED
      BY <2>6, <3>1
  <2>8. CASE b = r.base
    <3>1. OfBase(b)' = OfBase(b) \cup {n}
      BY <2>1, <2>2, <2>4, <2>5, <2>8 DEF OfBase, Exists
    <3>2. ASSUME NEW d \in OfBase(b) PROVE Apart(d, n)' /\ Apart(n, d)'
      <4>1. ~Live(d)' /\ header'[d].original # header'[n].original
        BY <2>2, <2>3, <2>4, <2>5, <2>8, <3>2 DEF OfBase
      <4> QED
        BY <4>1
    <3>3. Rooted(b, n)'
      <4> SUFFICES ASSUME r.original # None
                   PROVE  r.original \in OfBase(b)' /\ state'[r.original] = "cancelled"
        BY <2>2
      <4>1. r.original \in OfBase(b) /\ state[r.original] = "cancelled"
        BY <2>1, <2>3, <2>8 DEF OfBase
      <4> QED
        BY <2>5, <3>1, <4>1
    <3>4. Apart(n, n)'
      OBVIOUS
    <3> QED
      BY <2>6, <3>1, <3>2, <3>3, <3>4
  <2> QED
    BY <2>7, <2>8
<1> QED
  BY <1>3, <1>4, <1>5, TablesStep

(* A confirmation is written only if every line has a price, and neither    *)
(* prices nor lines are taken away.                                         *)
LEMMA PricedStep ==
  ASSUME TypeOK, Commands, Memory, Tables, VersionIsHistory, RealIsPriced, [Next]_vars
  PROVE  RealIsPriced'
<1> DEFINE PricedAt(d, l) == \/ header[d].prices[l] \in Price
                             \/ \E e \in EventsOf(d) : e.line = l /\ e.price \in Price
<1>1. SUFFICES ASSUME NEW d \in Doc, state'[d] = "real", NEW l \in BaseLines[header'[d].base]
               PROVE  PricedAt(d, l)'
  BY DEF RealIsPriced
<1>2. EventsOf(d) \subseteq EventsOf(d)'
  BY GrowStep DEF EventsOf
<1>3. ASSUME Exists(d), l \in BaseLines[header[d].base] => PricedAt(d, l) PROVE PricedAt(d, l)'
  <2>1. header'[d] = header[d]
    BY <1>3, GrowStep
  <2> QED
    BY <1>1, <1>2, <1>3, <2>1
<1>4. CASE state[d] = "real"
  BY <1>3, <1>4 DEF RealIsPriced, Exists
<1>5. CASE state[d] # "real"
  <2>1. PICK c \in Conn : Records(c) /\ cmd[c].doc = d
    <3>1. ASSUME NEW c \in Conn, Creates(c) PROVE FALSE
      BY <1>1, <1>5, <3>1, CreateFact
    <3>2. ASSUME NEW c \in Conn, Records(c) PROVE cmd[c].doc = d
      BY <1>1, <1>5, <3>2, RecordFact
    <3>3. ~UNCHANGED tables
      BY <1>1, <1>5 DEF tables
    <3> QED
      BY <3>1, <3>2, <3>3, TablesStep
  <2>2. StateAfter(cmd[c].kind) = "real" /\ Exists(d)
    BY <1>1, <2>1, RecordFact
  <2>3. Priced(d)
    BY <2>1, <2>2 DEF Records, StateAfter
  <2>4. header[d] \in Header /\ DOMAIN header[d].prices = LinesOf(d) /\ LinesOf(d) = BaseLines[header[d].base]
    BY <2>2 DEF Tables, LinesOf
  <2>5. ASSUME l \in LinesOf(d) PROVE PricedAt(d, l)
    <3>1. header[d].prices \in Quote
      BY <2>4 DEF Header
    <3>2. header[d].prices[l] \in Price \cup {None}
      BY <2>4, <2>5, <3>1 DEF Quote
    <3>3. CASE header[d].prices[l] # None
      BY <3>2, <3>3
    <3>4. CASE header[d].prices[l] = None
      <4> PICK e \in events : IsOverride(e) /\ e.doc = d /\ e.line = l
        BY <2>3, <2>5, <3>4 DEF Priced
      <4>1. e.price \in Price
        BY DEF Tables, TypeOK, Event
      <4>2. e \in EventsOf(d)
        BY DEF EventsOf
      <4> QED
        BY <4>1, <4>2
    <3> QED
      BY <3>3, <3>4
  <2> QED
    BY <1>3, <2>2, <2>4, <2>5
<1> QED
  BY <1>4, <1>5

(* The constraints keep a document's columns and its creation on record.   *)
LEMMA ConstraintStep ==
  ASSUME TypeOK, Commands, Memory, Tables, VersionIsHistory, ReferencesAreDense, [Next]_vars
  PROVE  Tables'
<1>1. \A c \in Customer, y \in Year : IsFiniteSet(Ledger(c, y))'
  BY LedgerStep
<1> DEFINE Whole(d) == /\ header[d] \in Header /\ DOMAIN header[d].prices = LinesOf(d)
                       /\ CreationOf(d) \in events
<1>2. ASSUME NEW d \in Doc, Exists(d) PROVE Whole(d)'
  <2>1. Whole(d) /\ header'[d] = header[d] /\ events \subseteq events'
    BY <1>2, GrowStep DEF Tables
  <2>2. LinesOf(d)' = LinesOf(d) /\ CreationOf(d)' = CreationOf(d)
    BY <2>1 DEF LinesOf, CreationOf
  <2> QED
    BY <2>1, <2>2
<1>3. CASE UNCHANGED tables
  <2>1. \A d \in Doc : Exists(d)' <=> Exists(d)
    BY <1>3 DEF tables, Exists
  <2> QED
    BY <1>1, <1>2, <1>3, <2>1 DEF tables, Tables
<1>4. ASSUME NEW c \in Conn, Creates(c) PROVE Tables'
  <2> DEFINE r == cmd[c]
             new == EventOf(r)
  <2>1. new.kind = "creation" /\ events' = events \cup {new}
    BY <1>4 DEF EventOf, Creates
  <2>2. \A d \in Doc : Exists(d)' <=> version'[d] # 0
    BY <1>4, CreateFact DEF Tables, Exists
  <2>3. PICK n \in Doc : n = cmd[c].doc
    BY <1>4, CreateFact
  <2>4. Whole(n)'
    <3>1. /\ header'[n] = HeaderOf(r) /\ r \in Command /\ r.base \in Base
          /\ DOMAIN r.prices = BaseLines[r.base]
      BY <1>4, <2>3, CreateFact
    <3>2. HeaderOf(r) \in Header
      BY <3>1 DEF HeaderOf, Header, Command
    <3>3. header'[n].prices = r.prices /\ header'[n].base = r.base /\ header'[n].key = r.key
      BY <3>1 DEF HeaderOf
    <3>4. DOMAIN header'[n].prices = LinesOf(n)'
      BY <3>1, <3>3 DEF LinesOf
    <3>5. /\ r.kind = "creation" /\ r.id = n /\ r.doc = n /\ r.line = None /\ r.price = None
          /\ r.expected_version = 0
      BY <1>4, <2>3 DEF Creates, Commands
    <3>6. CreationOf(n)' = new
      BY <3>3, <3>5 DEF CreationOf, EventOf
    <3> QED
      BY <2>1, <3>1, <3>2, <3>4, <3>6
  <2>5. \A d \in Doc : Exists(d)' => d = n \/ Exists(d)
    BY <1>4, <2>3, CreateFact DEF Exists
  <2> HIDE DEF new
  <2> QED
    BY <1>1, <1>2, <2>1, <2>2, <2>4, <2>5 DEF Tables, IsOverride
<1>5. ASSUME NEW c \in Conn, Records(c) PROVE Tables'
  <2> DEFINE new == EventOf(cmd[c])
  <2>1. new.kind = cmd[c].kind /\ new.price = cmd[c].price /\ events' = events \cup {new}
    BY <1>5 DEF EventOf, Records
  <2>2. IsOverride(new) => new.price # None
    BY <2>1 DEF IsOverride, Commands
  <2>3. ASSUME NEW d \in Doc PROVE (Exists(d)' <=> version'[d] # 0) /\ (Exists(d)' => Exists(d))
    <3>1. CASE d = cmd[c].doc
      BY <1>5, <3>1, RecordFact DEF StateAfter, Exists
    <3>2. CASE d # cmd[c].doc
      BY <1>5, <3>2, RecordFact DEF Tables, Exists
    <3> QED
      BY <3>1, <3>2
  <2> HIDE DEF new
  <2> QED
    BY <1>1, <1>2, <2>1, <2>2, <2>3 DEF Tables
<1> QED
  BY <1>3, <1>4, <1>5, TablesStep

-----------------------------------------------------------------------------
(* A connection changes no command but its own, and only to add the base of *)
(* a correction.                                                            *)
LEMMA CommandStep ==
  ASSUME TypeOK, Commands, Memory, [Next]_vars
  PROVE  Commands'
<1> DEFINE Checked(r) == /\ r.kind = "creation" => /\ r.id = r.doc /\ r.expected_version = 0
                                                   /\ r.line = None /\ r.price = None
                         /\ r.kind = "temporary_override" => r.price # None
                         /\ r.kind = "real_confirmation" => r.number # None
                         /\ r.kind # "creation" => r \in Requests
<1>1. CASE UNCHANGED cmd
  BY <1>1 DEF Commands
<1>2. ASSUME NEW c \in Conn, Begin(c) PROVE Commands'
  <2> PICK r \in Requests : cmd' = [cmd EXCEPT ![c] = r]
    BY <1>2 DEF Begin
  <2>1. cmd'[c] = r /\ \A d \in Conn : d # c => cmd'[d] = cmd[d]
    BY DEF TypeOK
  <2> QED
    BY <2>1, RequestAssumption DEF Commands, WellFormed
<1>3. ASSUME NEW c \in Conn, ReadOriginal(c) PROVE Commands'
  <2>1. CASE Answer(c, "refused")
    BY <1>1, <2>1 DEF Answer
  <2>2. CASE ~Answer(c, "refused")
    <3> DEFINE b == header[cmd[c].original].base
    <3>1. cmd' = [cmd EXCEPT ![c] = [@ EXCEPT !.base = b]]
      BY <1>3, <2>2 DEF ReadOriginal
    <3>2. cmd[c] \in Command /\ cmd[c].kind = "creation"
      BY <1>3 DEF TypeOK, ReadOriginal, Memory, Knows
    <3> HIDE DEF b
    <3>3. cmd'[c] = [cmd[c] EXCEPT !.base = b] /\ \A d \in Conn : d # c => cmd'[d] = cmd[d]
      BY <3>1 DEF TypeOK
    <3>4. /\ cmd'[c].kind = "creation" /\ cmd'[c].id = cmd[c].id /\ cmd'[c].doc = cmd[c].doc
          /\ cmd'[c].expected_version = cmd[c].expected_version
          /\ cmd'[c].line = cmd[c].line /\ cmd'[c].price = cmd[c].price
      BY <3>2, <3>3 DEF Command
    <3>5. /\ cmd[c].id = cmd[c].doc /\ cmd[c].expected_version = 0
          /\ cmd[c].line = None /\ cmd[c].price = None
      BY <3>2 DEF Commands
    <3>6. /\ cmd'[c].id = cmd'[c].doc /\ cmd'[c].expected_version = 0
          /\ cmd'[c].line = None /\ cmd'[c].price = None
      BY <3>4, <3>5
    <3>7. Checked(cmd'[c])
      BY <3>4, <3>6
    <3>8. ASSUME NEW d \in Conn PROVE Checked(cmd'[d])
      <4>1. CASE d = c
        BY <3>7, <4>1
      <4>2. CASE d # c
        BY <3>3, <4>2 DEF Commands
      <4> QED
        BY <4>1, <4>2
    <3> QED
      BY <3>8 DEF Commands
  <2> QED
    BY <2>1, <2>2
<1>4. ASSUME NEW c \in Conn, \/ LookupCreation(c) \/ LookupEvent(c) \/ ReadReplay(c)
                             \/ ReadBase(c) \/ ReadDocument(c) \/ ReadPrices(c)
      PROVE  UNCHANGED cmd
  BY <1>4 DEF LookupCreation, LookupEvent, ReadReplay, ReadBase, ReadDocument, ReadPrices, Answer, Goto
<1>5. ASSUME NEW c \in Conn, Writes(c) PROVE UNCHANGED cmd
  BY <1>5 DEF Writes, WriteCreation, WriteOverride, WriteTransition, Answer
<1> QED
  BY <1>1, <1>2, <1>3, <1>4, <1>5 DEF Next, Writes, vars

(* A step of one connection leaves what the others remember alone.         *)
LEMMA OthersStep ==
  ASSUME TypeOK, NEW c \in Conn, Reads(c) \/ Writes(c), NEW d \in Conn, d # c
  PROVE  pc'[d] = pc[d] /\ cmd'[d] = cmd[d] /\ reply'[d] = reply[d]
<1> USE DEF TypeOK, Answer, Goto
<1>1. CASE Begin(c) \/ ReadOriginal(c)
  BY <1>1 DEF Begin, ReadOriginal
<1>2. CASE LookupCreation(c) \/ LookupEvent(c)
  BY <1>2 DEF LookupCreation, LookupEvent
<1>3. CASE ReadReplay(c) \/ ReadBase(c) \/ ReadDocument(c) \/ ReadPrices(c)
  BY <1>3 DEF ReadReplay, ReadBase, ReadDocument, ReadPrices
<1>4. CASE WriteCreation(c)
  BY <1>4 DEF WriteCreation
<1>5. CASE WriteOverride(c)
  BY <1>5 DEF WriteOverride
<1>6. CASE WriteTransition(c)
  BY <1>6 DEF WriteTransition
<1> QED
  BY <1>1, <1>2, <1>3, <1>4, <1>5, <1>6 DEF Reads, Writes

(* A document gets its number with the event that confirms it, which is its *)
(* only one.                                                                *)
LEMMA NumberStep ==
  ASSUME TypeOK, Commands, Memory, Tables, VersionIsHistory, StateFollowsHistory,
         AcknowledgedOnce, [Next]_vars
  PROVE  \A e \in events' : e.kind = "real_confirmation" =>
           \E r \in Requests : EventOf(r) = e /\ r.number = number'[e.doc]
<1> SUFFICES ASSUME NEW e \in events', e.kind = "real_confirmation"
             PROVE  \E r \in Requests : EventOf(r) = e /\ r.number = number'[e.doc]
  OBVIOUS
<1>1. ASSUME e \in events, number'[e.doc] = number[e.doc]
      PROVE  \E r \in Requests : EventOf(r) = e /\ r.number = number'[e.doc]
  BY <1>1 DEF AcknowledgedOnce
<1>2. CASE UNCHANGED tables
  BY <1>1, <1>2 DEF tables
<1>3. ASSUME NEW c \in Conn, Creates(c)
      PROVE  \E r \in Requests : EventOf(r) = e /\ r.number = number'[e.doc]
  <2>1. number' = number /\ events' = events \cup {EventOf(cmd[c])} /\ EventOf(cmd[c]).kind = "creation"
    BY <1>3 DEF Creates, EventOf
  <2> QED
    BY <1>1, <2>1
<1>4. ASSUME NEW c \in Conn, Records(c), cmd[c].kind # "real_confirmation"
      PROVE  \E r \in Requests : EventOf(r) = e /\ r.number = number'[e.doc]
  <2>1. /\ number' = number /\ events' = events \cup {EventOf(cmd[c])}
        /\ EventOf(cmd[c]).kind # "real_confirmation"
    BY <1>4 DEF Records, EventOf
  <2> QED
    BY <1>1, <2>1
<1>5. ASSUME NEW c \in Conn, Records(c), cmd[c].kind = "real_confirmation"
      PROVE  \E r \in Requests : EventOf(r) = e /\ r.number = number'[e.doc]
  <2> DEFINE d == cmd[c].doc
  <2>1. /\ number' = [number EXCEPT ![d] = cmd[c].number]
        /\ events' = events \cup {EventOf(cmd[c])}
        /\ EventOf(cmd[c]).doc = d
    BY <1>5 DEF Records, EventOf
  <2>2. d \in Doc /\ state[d] = "temporary"
    BY <1>5, RecordFact DEF AllowedFrom
  <2>3. cmd[c] \in Requests
    BY <1>5 DEF Commands
  <2>4. number'[d] = cmd[c].number /\ \A f \in Doc : f # d => number'[f] = number[f]
    BY <2>1, <2>2 DEF TypeOK
  <2>5. VersionsOf(d, "real_confirmation") = {}
    BY <2>2 DEF StateFollowsHistory
  <2>6. CASE e \in events
    <3>1. e.doc \in Doc \/ e.doc = d
      BY <2>6 DEF TypeOK, Event
    <3>2. e.doc # d
      BY <2>5, <2>6 DEF VersionsOf, EventsOf
    <3> QED
      BY <1>1, <2>4, <2>6, <3>1, <3>2
  <2>7. CASE e = EventOf(cmd[c])
    BY <2>1, <2>3, <2>4, <2>7
  <2> QED
    BY <2>1, <2>6, <2>7
<1> QED
  BY <1>2, <1>3, <1>4, <1>5, TablesStep

(* "ok" is answered by the write that records the command, by the lookup    *)
(* that finds the document it created, or after the lookup that found it;   *)
(* what was recorded stays as it is.                                        *)
LEMMA AcknowledgedStep ==
  ASSUME TypeOK, Commands, Memory, Tables, VersionIsHistory, StateFollowsHistory,
         AcknowledgedOnce, [Next]_vars
  PROVE  AcknowledgedOnce'
<1> DEFINE Acknowledged(r) ==
      /\ EventOf(r) \in events
      /\ r.kind = "creation" => SameCreation(header[r.doc], r)
<1>1. ASSUME NEW e \in events', NEW f \in events', SameTable(e, f), e.key = f.key \/ e.id = f.id
      PROVE  e = f
  <2>1. CASE events' = events
    BY <1>1, <2>1 DEF AcknowledgedOnce
  <2>2. ASSUME NEW c \in Conn, EventInsertable(EventOf(cmd[c])), events' = events \cup {EventOf(cmd[c])}
        PROVE  e = f
    <3> DEFINE new == EventOf(cmd[c])
    <3>1. \A g \in events : SameTable(new, g) => g.id # new.id /\ g.key # new.key
      BY <2>2 DEF EventInsertable
    <3> HIDE DEF new
    <3>2. SameTable(f, e)
      BY <1>1 DEF SameTable
    <3> QED
      BY <1>1, <2>2, <3>1, <3>2 DEF AcknowledgedOnce, new
  <2> QED
    BY <2>1, <2>2, TablesStep DEF tables, Creates, Records
<1>2. ASSUME NEW r \in Command, Acknowledged(r), r.kind = "creation" => Exists(r.doc)
      PROVE  Acknowledged(r)'
  <2>1. events \subseteq events'
    BY GrowStep
  <2>2. r.kind = "creation" => header'[r.doc] = header[r.doc]
    <3>1. r.doc \in Doc
      BY DEF Command
    <3> QED
      BY <1>2, <3>1, GrowStep
  <2> QED
    BY <1>2, <2>1, <2>2 DEF EventOf, SameCreation
<1>3. ASSUME NEW r \in Command, EventOf(r) \in events, r.kind = "creation" PROVE Exists(r.doc)
  <2>1. r.doc \in Doc /\ EventOf(r).doc = r.doc
    BY DEF Command, EventOf
  <2>2. EventOf(r) \in EventsOf(r.doc)
    BY <1>3, <2>1 DEF EventsOf
  <2>3. version[r.doc] # 0
    BY <2>1, <2>2, PastVersions DEF TypeOK
  <2> QED
    BY <2>1, <2>3 DEF Tables
<1>4. ASSUME NEW d \in Conn, reply'[d] = "ok" PROVE \E r \in Command : r = cmd'[d] /\ Acknowledged(r)'
  <2>1. ASSUME Acknowledged(cmd[d]), cmd'[d] = cmd[d]
        PROVE  \E r \in Command : r = cmd'[d] /\ Acknowledged(r)'
    <3>1. cmd[d] \in Command
      BY DEF TypeOK
    <3>2. PICK r \in Command : r = cmd[d]
      BY <3>1
    <3>3. Acknowledged(r)'
      BY <1>2, <1>3, <2>1, <3>2
    <3> QED
      BY <2>1, <3>2, <3>3
  <2>2. ASSUME reply'[d] = reply[d], cmd'[d] = cmd[d]
        PROVE  \E r \in Command : r = cmd'[d] /\ Acknowledged(r)'
    BY <1>4, <2>1, <2>2 DEF AcknowledgedOnce
  <2>3. CASE UNCHANGED vars
    BY <2>2, <2>3 DEF vars
  <2>4. ASSUME NEW c \in Conn, Reads(c) \/ Writes(c), c # d
        PROVE  \E r \in Command : r = cmd'[d] /\ Acknowledged(r)'
    BY <2>2, <2>4, OthersStep
  <2>5. CASE Begin(d) \/ ReadOriginal(d)
    <3>1. reply[d] = "none" \/ reply'[d] # "ok"
      BY <2>5 DEF Begin, ReadOriginal, Memory, Knows, TypeOK
    <3> QED
      BY <1>4, <2>5, <3>1 DEF Begin, ReadOriginal, Answer, TypeOK
  <2>6. CASE LookupEvent(d) \/ ReadBase(d) \/ ReadDocument(d) \/ ReadPrices(d)
    <3>1. pc[d] # "idle"
      BY <2>6 DEF LookupEvent, ReadBase, ReadDocument, ReadPrices
    <3>2. reply[d] = "none"
      BY <3>1 DEF Memory, Knows
    <3> QED
      BY <1>4, <2>6, <3>2 DEF LookupEvent, ReadBase, ReadDocument, ReadPrices, Answer, Goto, TypeOK
  <2>7. CASE ReadReplay(d)
    <3>1. EventOf(cmd[d]) \in events /\ cmd[d].kind # "creation" /\ cmd' = cmd
      BY <2>7 DEF ReadReplay, Memory, Knows, Answer
    <3> QED
      BY <2>1, <3>1
  <2>8. CASE LookupCreation(d)
    <3>1. pc[d] = "lookup" /\ reply[d] = "none" /\ cmd[d].kind = "creation" /\ cmd' = cmd
      BY <2>8 DEF LookupCreation, Memory, Knows, Answer, Goto
    <3>2. PICK e \in Doc : /\ Exists(e) /\ header[e].key = cmd[d].key /\ e = cmd[d].doc
                           /\ SameCreation(header[e], cmd[d])
      BY <1>4, <2>8, <3>1 DEF LookupCreation, Answer, Goto, TypeOK
    <3>3. CreationOf(e) \in events
      BY <3>2 DEF Tables
    <3>4. CreationOf(e) = EventOf(cmd[d])
      BY <3>1, <3>2 DEF CreationOf, EventOf, Commands
    <3> QED
      BY <2>1, <3>1, <3>2, <3>3, <3>4
  <2>9. CASE WriteCreation(d)
    <3>1. Creates(d) /\ cmd' = cmd
      BY <1>4, <2>9 DEF WriteCreation, Creates, Answer, TypeOK
    <3>2. cmd[d] \in Command /\ header'[cmd[d].doc] = HeaderOf(cmd[d])
      BY <3>1, CreateFact
    <3>3. PICK r \in Command : r = cmd[d]
      BY <3>2
    <3>4. EventOf(r) \in events' /\ header'[r.doc] = HeaderOf(r)
      BY <3>1, <3>2, <3>3 DEF Creates
    <3>5. SameCreation(header'[r.doc], r)
      BY <3>4 DEF SameCreation, HeaderOf
    <3>6. Acknowledged(r)'
      BY <3>4, <3>5 DEF EventOf, SameCreation
    <3> QED
      BY <3>1, <3>3, <3>6
  <2>10. CASE WriteOverride(d) \/ WriteTransition(d)
    <3>1. /\ cmd' = cmd /\ events' = events \cup {EventOf(cmd[d])}
          /\ cmd[d].kind # "creation" /\ cmd[d] \in Command
      BY <1>4, <2>10 DEF WriteOverride, WriteTransition, Answer, TypeOK
    <3>2. PICK r \in Command : r = cmd[d]
      BY <3>1
    <3>3. Acknowledged(r)'
      BY <3>1, <3>2 DEF EventOf
    <3> QED
      BY <3>1, <3>2, <3>3
  <2> QED
    BY <2>3, <2>4, <2>5, <2>6, <2>7, <2>8, <2>9, <2>10 DEF Next, Reads, Writes
<1>5. ASSUME NEW d \in Conn, reply'[d] = "ok"
      PROVE  /\ EventOf(cmd[d])' \in events'
             /\ cmd'[d].kind = "creation" => SameCreation(header[cmd[d].doc], cmd[d])'
  <2>1. PICK r \in Command : r = cmd'[d] /\ Acknowledged(r)'
    BY <1>4, <1>5
  <2>2. EventOf(cmd[d])' = EventOf(r) /\ (SameCreation(header[cmd[d].doc], cmd[d])' <=> SameCreation(header'[r.doc], r))
    BY <2>1 DEF EventOf, SameCreation
  <2> QED
    BY <2>1, <2>2 DEF EventOf, SameCreation
<1> QED
  BY <1>1, <1>5, NumberStep DEF AcknowledgedOnce, SameTable, IsOverride

(* What a connection knows survives the steps of the others: events only    *)
(* grow and a document keeps its columns.                                   *)
LEMMA MemoryKept ==
  ASSUME TypeOK, Commands, Memory, Tables, VersionIsHistory, [Next]_vars,
         NEW d \in Conn, pc'[d] = pc[d], cmd'[d] = cmd[d], reply'[d] = reply[d]
  PROVE  Knows(d)'
<1>1. Knows(d)
  BY DEF Memory
<1>2. EventOf(cmd[d]) \in events => EventOf(cmd[d])' \in events'
  BY GrowStep DEF EventOf
<1>3. ASSUME cmd[d].original \in Doc, Exists(cmd[d].original)
      PROVE  /\ Exists(cmd[d].original)'
             /\ header'[cmd'[d].original] = header[cmd[d].original]
  <2>1. PICK o \in Doc : o = cmd[d].original /\ o = cmd'[d].original
    BY <1>3
  <2>2. Exists(o)' /\ header'[o] = header[o]
    BY <1>3, <2>1, GrowStep
  <2> QED
    BY <2>1, <2>2 DEF Exists
<1> QED
  BY <1>1, <1>2, <1>3 DEF Knows

(* What a step tells the connection that takes it. *)
LEMMA MemoryGained ==
  ASSUME TypeOK, Commands, Memory, Tables, NEW c \in Conn, Reads(c) \/ Writes(c)
  PROVE  Knows(c)'
<1> DEFINE r == cmd[c]
<1>1. ASSUME pc'[c] = "idle" PROVE Knows(c)'
  BY <1>1 DEF Knows
<1>2. ASSUME NEW o, Answer(c, o) PROVE Knows(c)'
  BY <1>1, <1>2 DEF Answer, TypeOK
<1>3. CASE Begin(c)
  <2> PICK q \in Requests :
         /\ cmd' = [cmd EXCEPT ![c] = q]
         /\ pc' = [pc EXCEPT ![c] = IF q.original # None THEN "original" ELSE "lookup"]
    BY <1>3 DEF Begin
  <2>1. /\ cmd'[c] = q /\ reply'[c] = "none"
        /\ pc'[c] = IF q.original # None THEN "original" ELSE "lookup"
    BY <1>3 DEF Begin, TypeOK
  <2>2. q \in Command /\ WellFormed(q)
    BY RequestAssumption
  <2>3. /\ q.original # None => q.kind = "creation"
        /\ q.kind = "creation" /\ q.original = None => q.base \in Base
    BY <2>2 DEF Command, WellFormed
  <2> QED
    BY <2>1, <2>3 DEF Knows
<1>4. CASE ReadOriginal(c)
  <2>1. CASE Answer(c, "refused")
    BY <1>2, <2>1
  <2>2. CASE ~Answer(c, "refused")
    <3> DEFINE b == header[r.original].base
    <3>1. /\ state[r.original] = "cancelled" /\ cmd' = [cmd EXCEPT ![c] = [@ EXCEPT !.base = b]]
          /\ pc' = [pc EXCEPT ![c] = "lookup"] /\ UNCHANGED <<tables, reply>>
      BY <1>4, <2>2 DEF ReadOriginal
    <3>2. r \in Command /\ r.kind = "creation" /\ r.original # None /\ reply[c] = "none"
      BY <1>4 DEF ReadOriginal, Memory, Knows, TypeOK
    <3>3. PICK o \in Doc : o = r.original
      BY <3>2 DEF Command
    <3>4. Exists(o) /\ header[o].base \in Base
      BY <3>1, <3>3 DEF Tables, Exists, Header
    <3>5. cmd'[c] = [r EXCEPT !.base = b] /\ pc'[c] = "lookup" /\ reply'[c] = "none"
      BY <3>1, <3>2 DEF TypeOK
    <3>6. cmd'[c].kind = "creation" /\ cmd'[c].original = o /\ cmd'[c].base = header[o].base
      BY <3>2, <3>3, <3>5 DEF Command
    <3>7. header' = header /\ state' = state
      BY <3>1 DEF tables
    <3> QED
      BY <3>4, <3>5, <3>6, <3>7 DEF Knows, Exists
  <2> QED
    BY <2>1, <2>2
<1>5. ASSUME NEW step \in Steps \ {"idle", "original"}, Goto(c, step), pc[c] # "idle",
             r.kind = "creation" => pc[c] \in {"lookup", "base"},
             step = "base" => r.kind = "creation",
             step \in {"replay", "document", "prices"} => r.kind # "creation",
             step = "replay" => EventOf(r) \in events,
             step = "write" /\ r.kind = "creation" => DOMAIN r.prices = BaseLines[r.base]
      PROVE  Knows(c)'
  <2>1. pc'[c] = step /\ cmd' = cmd /\ reply' = reply /\ UNCHANGED tables
    BY <1>5 DEF Goto, TypeOK
  <2>2. Knows(c)
    BY DEF Memory
  <2>3. events' = events /\ header' = header /\ state' = state
    BY <2>1 DEF tables
  <2>4. /\ reply[c] = "none"
        /\ r.kind = "creation" =>
             /\ r.base \in Base
             /\ r.original # None => /\ r.original \in Doc /\ Exists(r.original)
                                     /\ header[r.original].base = r.base
    BY <1>5, <2>2 DEF Knows
  <2>5. EventOf(cmd[c])' = EventOf(r) /\ (Exists(cmd[c].original)' <=> Exists(r.original))
    BY <2>1, <2>3 DEF EventOf, Exists
  <2> QED
    BY <1>5, <2>1, <2>3, <2>4, <2>5 DEF Knows
<1>6. CASE LookupCreation(c)
  <2>1. CASE Goto(c, "base")
    BY <1>5, <1>6, <2>1 DEF LookupCreation, Steps
  <2> QED
    BY <1>2, <1>6, <2>1 DEF LookupCreation
<1>7. CASE LookupEvent(c)
  <2>1. pc[c] = "lookup" /\ r.kind # "creation"
    BY <1>7 DEF LookupEvent
  <2>2. CASE Goto(c, "document")
    BY <1>5, <2>1, <2>2 DEF Steps
  <2>3. CASE Goto(c, "replay") /\ EventOf(r) \in events
    BY <1>5, <2>1, <2>3 DEF Steps
  <2> QED
    BY <1>2, <1>7, <2>2, <2>3 DEF LookupEvent
<1>8. CASE ReadReplay(c)
  BY <1>2, <1>8 DEF ReadReplay
<1>9. CASE ReadBase(c)
  <2>1. pc[c] = "base" /\ r.kind = "creation"
    BY <1>9 DEF ReadBase, Memory, Knows
  <2>2. CASE Goto(c, "write") /\ BaseLines[r.base] = DOMAIN r.prices
    BY <1>5, <2>1, <2>2 DEF Steps
  <2> QED
    BY <1>2, <1>9, <2>2 DEF ReadBase
<1>10. CASE ReadDocument(c)
  <2>1. pc[c] = "document" /\ r.kind # "creation"
    BY <1>10 DEF ReadDocument, Memory, Knows
  <2>2. CASE Goto(c, "write") \/ Goto(c, "prices")
    BY <1>5, <2>1, <2>2 DEF Steps
  <2> QED
    BY <1>2, <1>10, <2>2 DEF ReadDocument
<1>11. CASE ReadPrices(c)
  <2>1. pc[c] = "prices" /\ r.kind # "creation"
    BY <1>11 DEF ReadPrices, Memory, Knows
  <2>2. CASE Goto(c, "write")
    BY <1>5, <2>1, <2>2 DEF Steps
  <2> QED
    BY <1>2, <1>11, <2>2 DEF ReadPrices
<1>12. CASE Writes(c)
  BY <1>1, <1>12 DEF Writes, WriteCreation, WriteOverride, WriteTransition, Answer, TypeOK
<1> QED
  BY <1>3, <1>4, <1>6, <1>7, <1>8, <1>9, <1>10, <1>11, <1>12 DEF Reads

LEMMA MemoryStep ==
  ASSUME TypeOK, Commands, Memory, Tables, VersionIsHistory, [Next]_vars
  PROVE  Memory'
<1> SUFFICES ASSUME NEW d \in Conn PROVE Knows(d)'
  BY DEF Memory
<1>1. CASE UNCHANGED <<pc, cmd, reply>>
  BY <1>1, MemoryKept
<1>2. ASSUME NEW c \in Conn, Reads(c) \/ Writes(c) PROVE Knows(d)'
  <2>1. CASE c # d
    BY <1>2, <2>1, MemoryKept, OthersStep
  <2>2. CASE c = d
    BY <1>2, <2>2, MemoryGained
  <2> QED
    BY <2>1, <2>2
<1> QED
  BY <1>1, <1>2 DEF Next, Reads, Writes, vars

-----------------------------------------------------------------------------
(* Of the documents of a base at most one is not cancelled, and its state   *)
(* is the state of the base's billing.                                      *)
LEMMA BillingFact ==
  ASSUME OneCorrectionChain, NEW b \in Base
  PROVE  /\ \A d \in OfBase(b) : Live(d) => Billing(b) = state[d]
         /\ (\A d \in OfBase(b) : ~Live(d)) => Billing(b) \in {"none", "cancelled"}
         /\ (\A d \in OfBase(b) : ~Live(d)) /\ OfBase(b) # {} => Billing(b) = "cancelled"
<1>1. \A d, e \in OfBase(b) : Live(d) /\ Live(e) => d = e
  BY DEF OneCorrectionChain
<1> QED
  BY <1>1 DEF Billing, Live

(* A creation opens the billing of its base. *)
LEMMA CreateRefines ==
  ASSUME IInv, NEW c \in Conn, Creates(c)
  PROVE  L!Next
<1> USE DEF IInv
<1> DEFINE r == cmd[c]
<1>1. PICK n \in Doc : n = r.doc
  BY CreateFact
<1>2. PICK b \in Base : b = r.base
  BY CreateFact
<1>3. /\ ~Exists(n) /\ state'[n] = "temporary" /\ header'[n].base = b
      /\ \A d \in Doc : d # n => state'[d] = state[d] /\ header'[d] = header[d]
  <2>1. /\ ~Exists(r.doc) /\ state'[r.doc] = "temporary" /\ header'[r.doc] = HeaderOf(r)
        /\ \A d \in Doc : d # r.doc => state'[d] = state[d] /\ header'[d] = header[d]
    BY CreateFact
  <2>2. HeaderOf(r).base = r.base
    BY DEF HeaderOf
  <2> QED
    BY <1>1, <1>2, <2>1, <2>2
<1>4. OfBase(b)' = OfBase(b) \cup {n} /\ \A a \in Base : a # b => OfBase(a)' = OfBase(a)
  BY <1>1, <1>2, <1>3 DEF OfBase, Exists
<1>5. Billing(b) \in {"none", "cancelled"}
  <2>1. \A d \in OfBase(b) : ~Live(d)
    BY <1>2 DEF Creates, Creatable
  <2> QED
    BY <2>1, BillingFact
<1>6. Billing(b)' = "temporary"
  BY <1>3, <1>4 DEF Billing
<1>7. ASSUME NEW a \in Base, a # b PROVE Billing(a)' = Billing(a)
  <2>1. OfBase(a)' = OfBase(a) /\ \A d \in OfBase(a) : state'[d] = state[d]
    BY <1>3, <1>4, <1>7 DEF OfBase
  <2> QED
    BY <2>1 DEF Billing
<1>8. {<<number[d], header[d].base>> : d \in Numbered}' = {<<number[d], header[d].base>> : d \in Numbered}
  <2>1. UNCHANGED number
    BY DEF Creates
  <2>2. \A d \in Numbered : d \in Doc /\ d # n
    BY <1>3 DEF Numbered, StateFollowsHistory, Exists
  <2>3. Numbered' = Numbered /\ \A d \in Numbered : header'[d] = header[d]
    BY <1>3, <2>1, <2>2 DEF Numbered
  <2> QED
    BY <2>1, <2>3
<1>9. [a \in Base |-> Billing(a)]' = [[a \in Base |-> Billing(a)] EXCEPT ![b] = "temporary"]
  BY <1>6, <1>7
<1>10. L!Open(b)
  BY <1>5, <1>8, <1>9 DEF L!Open
<1> QED
  BY <1>10 DEF L!Next

(* Any other write confirms or cancels a billing or, for a price, leaves    *)
(* the ledger alone.                                                        *)
LEMMA RecordRefines ==
  ASSUME IInv, NEW c \in Conn, Records(c)
  PROVE  [L!Next]_(L!ledger)
<1> USE DEF IInv
<1> DEFINE r == cmd[c]
<1>1. PICK n \in Doc : n = r.doc
  BY RecordFact
<1>2. /\ Exists(n) /\ AllowedFrom(r.kind, state[n]) /\ state'[n] = StateAfter(r.kind)
      /\ r.kind \in {"temporary_override", "real_confirmation", "cancellation"}
      /\ \A d \in Doc : d # n => state'[d] = state[d]
  BY <1>1, RecordFact DEF Kinds, DocumentKinds
<1>3. PICK b \in Base : b = header[n].base
  BY <1>2 DEF Tables, Header
<1>4. UNCHANGED header /\ \A d \in Doc : Exists(d)' <=> Exists(d)
  BY <1>1, <1>2 DEF Records, StateAfter, Exists
<1>5. \A a \in Base : OfBase(a)' = OfBase(a)
  BY <1>4 DEF OfBase
<1>6. n \in OfBase(b) /\ \A d \in OfBase(b) : d \in Doc
  BY <1>2, <1>3 DEF OfBase
<1>7. Live(n) /\ Billing(b) = state[n]
  BY <1>2, <1>6, BillingFact DEF AllowedFrom, Live
<1>8. ASSUME NEW a \in Base, a # b PROVE Billing(a)' = Billing(a)
  <2>1. OfBase(a)' = OfBase(a) /\ \A d \in OfBase(a) : state'[d] = state[d]
    BY <1>2, <1>3, <1>5, <1>8 DEF OfBase
  <2> QED
    BY <2>1 DEF Billing
<1>9. Billing(b)' = StateAfter(r.kind)
  <2>1. \A d \in OfBase(b) : Live(d) => d = n
    BY <1>6, <1>7 DEF OneCorrectionChain
  <2>2. \A d \in OfBase(b) : d # n => state'[d] \notin {"temporary", "real"}
    BY <1>2, <1>6, <2>1 DEF Live
  <2> QED
    BY <1>2, <1>5, <1>6, <2>2 DEF Billing, StateAfter
<1> DEFINE Live1 == [a \in Base |-> Billing(a)]
           Issued == {<<number[d], header[d].base>> : d \in Numbered}
<1>10. Live1' = [Live1 EXCEPT ![b] = StateAfter(r.kind)] /\ Live1[b] = state[n]
  BY <1>7, <1>8, <1>9
<1>11. ASSUME UNCHANGED number PROVE Issued' = Issued
  <2>1. Numbered' = Numbered
    BY <1>11 DEF Numbered
  <2> QED
    BY <1>4, <1>11, <2>1
<1>12. CASE r.kind = "temporary_override"
  <2>1. state[n] = "temporary" /\ StateAfter(r.kind) = "temporary" /\ UNCHANGED number
    BY <1>2, <1>12 DEF AllowedFrom, StateAfter, Records
  <2>2. Live1' = Live1
    BY <1>10, <2>1
  <2> QED
    BY <1>11, <2>1, <2>2 DEF L!ledger
<1>13. CASE r.kind = "cancellation"
  <2>1. /\ state[n] \in {"temporary", "real"} /\ StateAfter(r.kind) = "cancelled"
        /\ UNCHANGED number
    BY <1>2, <1>13 DEF AllowedFrom, StateAfter, Records
  <2>2. L!Cancel(b)
    BY <1>10, <1>11, <2>1 DEF L!Cancel
  <2> QED
    BY <2>2 DEF L!Next
<1>14. CASE r.kind = "real_confirmation"
  <2>1. /\ state[n] = "temporary" /\ StateAfter(r.kind) = "real" /\ NumberFree(r.number)
        /\ number' = [number EXCEPT ![n] = r.number]
    BY <1>1, <1>2, <1>14 DEF AllowedFrom, StateAfter, Records
  <2>2. PICK k \in Number : k = r.number
    BY <1>14 DEF Commands, TypeOK, Command
  <2>3. number'[n] = k /\ \A d \in Doc : d # n => number'[d] = number[d]
    BY <2>1, <2>2 DEF TypeOK
  <2>4. number[n] = None
    BY <2>1 DEF StateFollowsHistory
  <2>5. k # None
    BY <2>2, NoneAssumption
  <2>6. Numbered' = Numbered \cup {n} /\ n \notin Numbered
    BY <2>3, <2>4, <2>5 DEF Numbered
  <2>7. \A d \in Numbered : number'[d] = number[d]
    BY <2>3, <2>6 DEF Numbered
  <2>8. Issued' = Issued \cup {<<k, b>>}
    BY <1>3, <1>4, <2>3, <2>6, <2>7
  <2>9. \A a \in Base : <<k, a>> \notin Issued
    BY <2>1, <2>2 DEF NumberFree, Numbered
  <2>10. L!Confirm(b, k)
    BY <1>10, <2>1, <2>8, <2>9 DEF L!Confirm
  <2> QED
    BY <2>10 DEF L!Next
<1> QED
  BY <1>2, <1>12, <1>13, <1>14

-----------------------------------------------------------------------------
(* The conjunction is inductive and holds throughout every behaviour. *)
THEOREM WorkflowInvariant == Spec => []IInv
<1>1. IInv /\ [Next]_vars => IInv'
  BY TypeStep, CommandStep, MemoryStep, ConstraintStep, HistoryStep, StateStep, ChainStep,
     LedgerStep, PricedStep, AcknowledgedStep DEF IInv
<1> QED
  BY <1>1, InitInvariant, PTL DEF Spec

(* The workflow store keeps its columns typed; a reference never passes     *)
(* the sequence's end.                                                      *)
THEOREM TypeCorrect == Spec => []TypeOK
<1>1. IInv => TypeOK
  BY DEF IInv
<1> QED
  BY <1>1, WorkflowInvariant, PTL

(* Creations, overrides and transitions leave one event for each version of *)
(* a document, whoever else writes meanwhile, and those events alone tell   *)
(* where on its lifecycle it is and whether it has a number.                *)
THEOREM HistoryIsComplete == Spec => []HistoryTellsState
<1>1. IInv => HistoryTellsState
  BY DEF IInv, HistoryTellsState
<1> QED
  BY <1>1, WorkflowInvariant, PTL

(* create_temporary_invoice and create_correction_temporary keep the        *)
(* documents of a base one chain with one document that is not cancelled.   *)
THEOREM CorrectionsAreAChain == Spec => []OneCorrectionChain
<1>1. IInv => OneCorrectionChain
  BY DEF IInv
<1> QED
  BY <1>1, WorkflowInvariant, PTL

(* The temporary references of every customer and year have no gap, however *)
(* many there are.                                                          *)
THEOREM ReferencesHaveNoGap == Spec => []ReferencesAreDense
<1>1. IInv => ReferencesAreDense
  BY DEF IInv
<1> QED
  BY <1>1, WorkflowInvariant, PTL

(* confirm_real never makes a document real with an unpriced line. *)
THEOREM RealIsAlwaysPriced == Spec => []RealIsPriced
<1>1. IInv => RealIsPriced
  BY DEF IInv
<1> QED
  BY <1>1, WorkflowInvariant, PTL

(* The workflow store: whatever is acknowledged, to however many callers,   *)
(* agrees in all that is compared with one event on record, and a permanent *)
(* number is one asked for by the confirmation on record; which one of two  *)
(* that differ in nothing else, "ok" does not tell.                         *)
THEOREM AcknowledgementsHold == Spec => []AcknowledgedOnce
<1>1. IInv => AcknowledgedOnce
  BY DEF IInv
<1> QED
  BY <1>1, WorkflowInvariant, PTL

(* The tables, the triggers and every interleaving of the connections       *)
(* implement DocumentLedger: a base is billed by one document at a time and *)
(* a permanent number is issued once.                                       *)
THEOREM WorkflowImplementsLedger == Spec => ImplementsLedger
<1>1. Init => L!Init
  <2> SUFFICES ASSUME Init PROVE L!Init
    OBVIOUS
  <2>1. \A b \in Base : OfBase(b) = {}
    BY DEF Init, OfBase, Exists
  <2>2. \A b \in Base : Billing(b) = "none"
    BY <2>1 DEF Billing
  <2>3. {<<number[d], header[d].base>> : d \in Numbered} = {}
    BY DEF Init, Numbered
  <2> QED
    BY <2>2, <2>3 DEF L!Init
<1>2. IInv /\ [Next]_vars => [L!Next]_(L!ledger)
  <2> SUFFICES ASSUME IInv, [Next]_vars PROVE [L!Next]_(L!ledger)
    OBVIOUS
  <2>1. CASE UNCHANGED tables
    <3>1. \A b \in Base : OfBase(b)' = OfBase(b) /\ Billing(b)' = Billing(b)
      BY <2>1 DEF tables, OfBase, Exists, Billing
    <3>2. Numbered' = Numbered
      BY <2>1 DEF tables, Numbered
    <3> QED
      BY <2>1, <3>1, <3>2 DEF tables, L!ledger
  <2> QED
    BY <2>1, TablesStep, CreateRefines, RecordRefines DEF IInv
<1> QED
  BY <1>1, <1>2, WorkflowInvariant, PTL DEF Spec, ImplementsLedger, L!Spec
=============================================================================
