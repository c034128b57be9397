------------------------ MODULE DraftPreviewsProofs ------------------------
(***************************************************************************)
(* What InvoiceDraftStore and the draft routes guarantee for any number of *)
(* drafts, lines, previews, orders, staff, audit rows and restarts.  The   *)
(* store's inductive invariant adds to its properties that a draft has a   *)
(* status exactly if it has a submission.  Seen from the store the routes  *)
(* take no step but its own, so that its invariant holds of them; the      *)
(* registry adds that what it holds was issued and not served.             *)
(***************************************************************************)
EXTENDS DraftPreviews, SequenceTheorems, FiniteSetTheorems, TLAPS

-----------------------------------------------------------------------------
(* The inductive invariant of the store. *)
StatusKnown == \A d \in Draft : submission[d] = None <=> status[d] = "none"

IInv == /\ TypeOK
        /\ StatusKnown
        /\ OneOpenConflict
        /\ LinesHeldOnce
        /\ OneDraftPerKey
        /\ AuditTellsStatus

AuditRow == [draft : Draft, action : Actions]

-----------------------------------------------------------------------------
(* The empty file satisfies the invariant. *)
LEMMA InitInvariant == Init => IInv
<1> SUFFICES ASSUME Init PROVE IInv
  OBVIOUS
<1>1. TypeOK /\ StatusKnown
  BY DEF Init, TypeOK, StatusKnown
<1>2. OneOpenConflict /\ LinesHeldOnce
  BY DEF Init, OneOpenConflict, LinesHeldOnce
<1>3. OneDraftPerKey
  BY DEF Init, OneDraftPerKey
<1>4. AuditTellsStatus
  <2>1. 1 .. Len(audit) = {}
    BY DEF Init
  <2>2. \A d \in Draft : LeftIn(d, Len(audit), status[d])
    BY <2>1 DEF Init, LeftIn
  <2> QED
    BY <2>1, <2>2 DEF AuditTellsStatus
<1> QED
  BY <1>1, <1>2, <1>3, <1>4 DEF IInv

(* A decision leads from one status of a draft to another.                 *)
LEMMA DecisionFact ==
  ASSUME NEW x \in DOMAIN Decisions
  PROVE  /\ x \in Actions
         /\ Decisions[x][1] \in {"draft", "review"} /\ Decisions[x][2] \in {"draft", "review"}
         /\ StatusFrom[x] = {Decisions[x][1]} /\ StatusTo[x] = Decisions[x][2]
  BY DEF Decisions, Actions, StatusFrom, StatusTo

(* What a submission is. *)
LEMMA SubmissionFact ==
  ASSUME NEW s \in Submission
  PROVE  /\ s # None /\ s.lines \in SUBSET OrderLine /\ s.form \in Actions
         /\ StatusFrom[s.form] = {"none"} /\ StatusTo[s.form] = "draft"
  BY SubmissionAssumption DEF Forms, Actions, StatusFrom, StatusTo

(* Every step keeps the types and the correspondence of status and draft.  *)
LEMMA TypeStep == TypeOK /\ StatusKnown /\ [Next]_drafts => TypeOK' /\ StatusKnown'
<1> SUFFICES ASSUME TypeOK, StatusKnown, [Next]_drafts PROVE TypeOK' /\ StatusKnown'
  OBVIOUS
<1> USE DEF TypeOK, StatusKnown, Statuses
<1>1. ASSUME NEW s \in Submission, Create(s) PROVE TypeOK' /\ StatusKnown'
  <2> PICK d \in Draft : /\ submission[d] = None
                         /\ submission' = [submission EXCEPT ![d] = s]
                         /\ status' = [status EXCEPT ![d] = "draft"]
                         /\ allocations' = allocations \cup {[line |-> l, draft |-> d] : l \in s.lines}
                         /\ Record(d, s.form) /\ Answered(s, d)
    BY <1>1 DEF Create
  <2>1. /\ submission' \in [Draft -> Submission \cup {None}]
        /\ status' \in [Draft -> Statuses \cup {"none"}] /\ StatusKnown'
    BY SubmissionFact
  <2>2. allocations' \in SUBSET Allocation
    BY SubmissionFact DEF Allocation
  <2>3. audit' \in Seq([draft : Draft, action : Actions])
    BY SubmissionFact DEF Record
  <2>4. receipts' \in SUBSET [asked : Submission, draft : Draft]
    BY DEF Answered
  <2> QED
    BY <1>1, <2>1, <2>2, <2>3, <2>4 DEF Create
<1>2. ASSUME NEW s \in Submission, Replay(s) PROVE TypeOK' /\ StatusKnown'
  <2> PICK d \in Draft : Answered(s, d) /\ UNCHANGED <<submission, status, allocations, conflicts, audit>>
    BY <1>2 DEF Replay, Keyed
  <2> QED
    BY DEF Answered
<1>3. ASSUME NEW d \in Draft, NEW x \in DOMAIN Decisions, RecordStaffDecision(d, x)
      PROVE  TypeOK' /\ StatusKnown'
  <2>1. audit' \in Seq([draft : Draft, action : Actions])
    BY <1>3, DecisionFact DEF RecordStaffDecision, Record
  <2>2. status[d] # "none" /\ Decisions[x][2] \in Statuses
    BY <1>3, DecisionFact DEF RecordStaffDecision
  <2> QED
    BY <1>3, <2>1, <2>2 DEF RecordStaffDecision
<1>4. ASSUME NEW d \in Draft, RecordConflict(d) PROVE TypeOK' /\ StatusKnown'
  <2>1. audit' \in Seq([draft : Draft, action : Actions])
    BY <1>4 DEF RecordConflict, Record, Actions
  <2>2. conflicts' \in SUBSET ConflictRow
    <3> PICK k \in Conflict :
           conflicts' = conflicts \cup {[id |-> k, draft |-> d, open |-> TRUE]}
      BY <1>4 DEF RecordConflict
    <3>1. [id |-> k, draft |-> d, open |-> TRUE] \in ConflictRow
      BY DEF ConflictRow
    <3> QED
      BY <3>1
  <2>3. /\ status' \in [Draft -> Statuses \cup {"none"}]
        /\ StatusKnown'
    BY <1>4 DEF RecordConflict
  <2> QED
    BY <1>4, <2>1, <2>2, <2>3 DEF RecordConflict
<1>5. ASSUME NEW c \in conflicts, ResolveConflict(c) PROVE TypeOK' /\ StatusKnown'
  <2>1. c.draft \in Draft /\ [c EXCEPT !.open = FALSE] \in ConflictRow
    BY DEF ConflictRow
  <2>2. audit' \in Seq([draft : Draft, action : Actions])
    BY <1>5, <2>1 DEF ResolveConflict, Record, Actions
  <2> QED
    BY <1>5, <2>1, <2>2 DEF ResolveConflict
<1>6. CASE UNCHANGED drafts
  BY <1>6 DEF drafts
<1> QED
  BY <1>1, <1>2, <1>3, <1>4, <1>5, <1>6 DEF Next

(* A draft leaves "none" with its submission, and only the draft a row of  *)
(* the audit is about changes its status.                                  *)
LEMMA ConflictStep ==
  ASSUME TypeOK, StatusKnown, OneOpenConflict, [Next]_drafts
  PROVE  OneOpenConflict'
<1> USE DEF TypeOK
<1>1. ASSUME NEW s \in Submission, Create(s) PROVE OneOpenConflict'
  <2> PICK d \in Draft : submission[d] = None /\ status' = [status EXCEPT ![d] = "draft"]
    BY <1>1 DEF Create
  <2>1. status[d] = "none" /\ conflicts' = conflicts
    BY <1>1 DEF Create, StatusKnown
  <2> QED
    BY <2>1 DEF OneOpenConflict
<1>2. ASSUME NEW s \in Submission, Replay(s) PROVE OneOpenConflict'
  BY <1>2 DEF Replay, OneOpenConflict
<1>3. ASSUME NEW d \in Draft, NEW x \in DOMAIN Decisions, RecordStaffDecision(d, x)
      PROVE  OneOpenConflict'
  <2>1. status[d] # "conflicted" /\ Decisions[x][2] # "conflicted"
    BY <1>3, DecisionFact DEF RecordStaffDecision
  <2> QED
    BY <1>3, <2>1 DEF RecordStaffDecision, OneOpenConflict
<1>4. ASSUME NEW d \in Draft, RecordConflict(d) PROVE OneOpenConflict'
  <2> PICK k \in Conflict :
         /\ \A c \in conflicts : c.id # k
         /\ conflicts' = conflicts \cup {[id |-> k, draft |-> d, open |-> TRUE]}
    BY <1>4 DEF RecordConflict
  <2> DEFINE new == [id |-> k, draft |-> d, open |-> TRUE]
  <2>1. new.id = k /\ new.draft = d /\ new.open
    OBVIOUS
  <2>2. status' = [status EXCEPT ![d] = "conflicted"] /\ status[d] # "conflicted"
    BY <1>4 DEF RecordConflict
  <2>3. conflicts' = conflicts \cup {new}
    OBVIOUS
  <2> HIDE DEF new
  <2>4. \A c \in conflicts : ~(c.draft = d /\ c.open)
    BY <2>2 DEF OneOpenConflict
  <2>5. ASSUME NEW e \in Draft
        PROVE  status'[e] = "conflicted" <=> \E c \in conflicts' : c.draft = e /\ c.open
    BY <2>1, <2>2, <2>3 DEF OneOpenConflict
  <2>6. ASSUME NEW b \in conflicts', NEW c \in conflicts',
               b.id = c.id \/ (b.draft = c.draft /\ b.open /\ c.open)
        PROVE  b = c
    BY <2>1, <2>3, <2>4, <2>6 DEF OneOpenConflict
  <2> QED
    BY <2>5, <2>6 DEF OneOpenConflict
<1>5. ASSUME NEW k \in conflicts, ResolveConflict(k) PROVE OneOpenConflict'
  <2> DEFINE done == [k EXCEPT !.open = FALSE]
  <2>1. k.draft \in Draft /\ k = [id |-> k.id, draft |-> k.draft, open |-> k.open]
    BY DEF ConflictRow
  <2>2. done.id = k.id /\ done.draft = k.draft /\ ~done.open
    BY <2>1
  <2>3. /\ conflicts' = (conflicts \ {k}) \cup {done}
        /\ status' = [status EXCEPT ![k.draft] = "draft"] /\ k.open
    BY <1>5 DEF ResolveConflict
  <2> HIDE DEF done
  <2>4. ASSUME NEW c \in conflicts, c.id = k.id \/ (c.draft = k.draft /\ c.open) PROVE c = k
    BY <2>3, <2>4 DEF OneOpenConflict
  <2>5. ASSUME NEW e \in Draft
        PROVE  status'[e] = "conflicted" <=> \E c \in conflicts' : c.draft = e /\ c.open
    BY <2>1, <2>2, <2>3, <2>4 DEF OneOpenConflict
  <2>6. ASSUME NEW b \in conflicts', NEW c \in conflicts',
               b.id = c.id \/ (b.draft = c.draft /\ b.open /\ c.open)
        PROVE  b = c
    BY <2>2, <2>3, <2>4, <2>6 DEF OneOpenConflict
  <2> QED
    BY <2>5, <2>6 DEF OneOpenConflict
<1>6. CASE UNCHANGED drafts
  BY <1>6 DEF drafts, OneOpenConflict
<1> QED
  BY <1>1, <1>2, <1>3, <1>4, <1>5, <1>6 DEF Next

(* Only Create allocates, lines nobody holds to a draft that held none.    *)
LEMMA LinesStep ==
  ASSUME TypeOK, LinesHeldOnce, [Next]_drafts
  PROVE  LinesHeldOnce'
<1>1. ASSUME NEW s \in Submission, Create(s) PROVE LinesHeldOnce'
  <2> PICK d \in Draft :
         /\ submission[d] = None
         /\ submission' = [submission EXCEPT ![d] = s]
         /\ allocations' = allocations \cup {[line |-> l, draft |-> d] : l \in s.lines}
    BY <1>1 DEF Create
  <2>1. \A a \in allocations : a.line \notin s.lines /\ a.draft # d
    BY <1>1 DEF Create, Free, LinesHeldOnce
  <2>2. ASSUME NEW a \in allocations', NEW b \in allocations', a.line = b.line PROVE a = b
    BY <2>1, <2>2 DEF LinesHeldOnce
  <2>3. ASSUME NEW e \in Draft
        PROVE  {a.line : a \in {b \in allocations' : b.draft = e}}
                 = IF submission'[e] = None THEN {} ELSE submission'[e].lines
    <3>1. CASE e = d
      <4>1. {b \in allocations' : b.draft = e} = {[line |-> l, draft |-> d] : l \in s.lines}
        BY <2>1, <3>1
      <4>2. submission'[e] = s /\ s # None
        BY <3>1, SubmissionFact DEF TypeOK
      <4>3. {a.line : a \in {[line |-> l, draft |-> d] : l \in s.lines}} = s.lines
        <5> DEFINE New == {[line |-> l, draft |-> d] : l \in s.lines}
        <5>1. \A a \in New : a.line \in s.lines
          OBVIOUS
        <5>2. ASSUME NEW l \in s.lines PROVE l \in {a.line : a \in New}
          <6>1. [line |-> l, draft |-> d] \in New /\ [line |-> l, draft |-> d].line = l
            OBVIOUS
          <6> HIDE DEF New
          <6> QED
            BY <6>1
        <5> HIDE DEF New
        <5>3. {a.line : a \in New} = s.lines
          BY <5>1, <5>2
        <5> QED
          BY <5>3 DEF New
      <4> QED
        BY <4>1, <4>2, <4>3
    <3>2. CASE e # d
      <4>1. {b \in allocations' : b.draft = e} = {b \in allocations : b.draft = e}
        BY <3>2
      <4>2. submission'[e] = submission[e]
        BY <3>2 DEF TypeOK
      <4> QED
        BY <4>1, <4>2 DEF LinesHeldOnce
    <3> QED
      BY <3>1, <3>2
  <2> QED
    BY <2>2, <2>3 DEF LinesHeldOnce
<1>2. ASSUME UNCHANGED <<submission, allocations>> PROVE LinesHeldOnce'
  BY <1>2 DEF LinesHeldOnce
<1> QED
  BY <1>1, <1>2 DEF Next, Replay, RecordStaffDecision, RecordConflict, ResolveConflict, drafts

(* A key is used by one draft, and an answer names the draft that was      *)
(* submitted, by Create as by Replay.                                      *)
LEMMA KeyStep ==
  ASSUME TypeOK, OneDraftPerKey, [Next]_drafts
  PROVE  OneDraftPerKey'
<1>1. ASSUME NEW s \in Submission, Create(s) PROVE OneDraftPerKey'
  <2> PICK d \in Draft : /\ submission[d] = None
                         /\ submission' = [submission EXCEPT ![d] = s]
                         /\ Answered(s, d)
    BY <1>1 DEF Create
  <2>1. submission'[d] = s /\ \A e \in Draft : e # d => submission'[e] = submission[e]
    BY DEF TypeOK
  <2>2. ASSUME NEW r \in receipts PROVE r.draft \in Draft /\ r.draft # d
    BY SubmissionAssumption DEF TypeOK, OneDraftPerKey
  <2>3. \A r \in receipts' : submission'[r.draft] = r.asked
    BY <2>1, <2>2 DEF Answered, OneDraftPerKey
  <2>4. \A e \in Draft : submission[e] # None => submission[e].key # s.key
    BY <1>1 DEF Create, Keyed
  <2>5. ASSUME NEW e \in Draft, NEW f \in Draft, submission'[e] # None, submission'[f] # None,
               submission'[e].key = submission'[f].key
        PROVE  e = f
    BY <2>1, <2>4, <2>5 DEF OneDraftPerKey
  <2> QED
    BY <2>3, <2>5 DEF OneDraftPerKey
<1>2. ASSUME NEW s \in Submission, Replay(s) PROVE OneDraftPerKey'
  <2> PICK d \in Draft : submission[d] = s /\ submission' = submission /\ Answered(s, d)
    BY <1>2 DEF Replay, Keyed
  <2> QED
    BY DEF Answered, OneDraftPerKey
<1>3. ASSUME UNCHANGED <<submission, receipts>> PROVE OneDraftPerKey'
  BY <1>3 DEF OneDraftPerKey
<1> QED
  BY <1>1, <1>2, <1>3 DEF Next, RecordStaffDecision, RecordConflict, ResolveConflict, drafts

(* Appending a row leaves what the older rows tell as it was.              *)
LEMMA AuditRecorded ==
  ASSUME audit \in Seq(AuditRow), NEW d \in Draft, NEW a \in Actions, Record(d, a)
  PROVE  /\ Len(audit') = Len(audit) + 1
         /\ audit'[Len(audit) + 1] = [draft |-> d, action |-> a]
         /\ \A i \in 1 .. Len(audit) : audit'[i] = audit[i]
         /\ Len(audit) \in Nat
  BY DEF Record, AuditRow

(* A row that moves a draft from where the audit left it to where the row  *)
(* leads keeps the audit telling every status.                             *)
LEMMA AuditMove ==
  ASSUME TypeOK, AuditTellsStatus, NEW d \in Draft, NEW a \in Actions, Record(d, a),
         status[d] \in StatusFrom[a], status' = [status EXCEPT ![d] = StatusTo[a]]
  PROVE  AuditTellsStatus'
<1>1. /\ Len(audit') = Len(audit) + 1
      /\ audit'[Len(audit) + 1] = [draft |-> d, action |-> a]
      /\ \A i \in 1 .. Len(audit) : audit'[i] = audit[i]
      /\ Len(audit) \in Nat
  BY AuditRecorded DEF TypeOK, AuditRow
<1>2. ASSUME NEW e \in Draft, NEW n \in 0 .. Len(audit), NEW s, LeftIn(e, n, s)
      PROVE  LeftIn(e, n, s)'
  <2>1. /\ 1 .. n \subseteq 1 .. Len(audit)
        /\ \A i \in 1 .. n : i + 1 .. n \subseteq 1 .. Len(audit)
    BY <1>1
  <2>2. CASE s = "none" /\ \A i \in 1 .. n : audit[i].draft # e
    <3>1. \A i \in 1 .. n : audit'[i].draft # e
      BY <1>1, <2>1, <2>2
    <3> QED
      BY <2>2, <3>1 DEF LeftIn
  <2>3. CASE \E i \in 1 .. n : /\ audit[i].draft = e /\ s = StatusTo[audit[i].action]
                               /\ \A j \in i + 1 .. n : audit[j].draft # e
    <3> PICK i \in 1 .. n : /\ audit[i].draft = e /\ s = StatusTo[audit[i].action]
                            /\ \A j \in i + 1 .. n : audit[j].draft # e
      BY <2>3
    <3>1. audit'[i] = audit[i] /\ \A j \in i + 1 .. n : audit'[j] = audit[j]
      BY <1>1, <2>1
    <3> QED
      BY <3>1 DEF LeftIn
  <2> QED
    BY <1>2, <2>2, <2>3 DEF LeftIn
<1>3. ASSUME NEW e \in Draft PROVE LeftIn(e, Len(audit), status[e])'
  <2>1. CASE e = d
    <3>1. status'[e] = StatusTo[a]
      BY <2>1 DEF TypeOK
    <3>2. audit'[Len(audit')].draft = e /\ audit'[Len(audit')].action = a
      BY <1>1, <2>1
    <3> QED
      BY <1>1, <3>1, <3>2 DEF LeftIn
  <2>2. CASE e # d
    <3>1. status'[e] = status[e]
      BY <2>2 DEF TypeOK
    <3>2. LeftIn(e, Len(audit), status[e])
      BY DEF AuditTellsStatus
    <3>3. \A i \in 1 .. Len(audit) : audit'[i] = audit[i]
      BY <1>1
    <3>4. audit'[Len(audit) + 1].draft # e
      BY <1>1, <2>2
    <3> QED
      BY <1>1, <3>1, <3>2, <3>3, <3>4 DEF LeftIn
  <2> QED
    BY <2>1, <2>2
<1>4. ASSUME NEW e \in Draft, NEW n \in 1 .. Len(audit'), audit'[n].draft = e
      PROVE  \E s \in StatusFrom[audit'[n].action] : LeftIn(e, n - 1, s)'
  <2>1. CASE n = Len(audit) + 1
    <3>1. e = d /\ audit'[n].action = a /\ n - 1 = Len(audit)
      BY <1>1, <1>4, <2>1
    <3>2. LeftIn(d, Len(audit), status[d])
      BY DEF AuditTellsStatus
    <3>3. LeftIn(e, n - 1, status[d])
      BY <3>1, <3>2
    <3>4. n - 1 \in 0 .. Len(audit)
      BY <1>1, <3>1
    <3> QED
      BY <1>2, <3>1, <3>3, <3>4
  <2>2. CASE n \in 1 .. Len(audit)
    <3>1. audit'[n] = audit[n]
      BY <1>1, <2>2
    <3>2. PICK s \in StatusFrom[audit[n].action] : LeftIn(e, n - 1, s)
      BY <1>4, <2>2, <3>1 DEF AuditTellsStatus
    <3>3. n - 1 \in 0 .. Len(audit)
      BY <1>1, <2>2
    <3> QED
      BY <1>2, <3>1, <3>2, <3>3
  <2> QED
    BY <1>1, <2>1, <2>2
<1> QED
  BY <1>3, <1>4 DEF AuditTellsStatus

(* Every action moves one draft by one row the table of moves allows, or   *)
(* none.                                                                   *)
LEMMA AuditStep ==
  ASSUME TypeOK, StatusKnown, AuditTellsStatus, [Next]_drafts
  PROVE  AuditTellsStatus'
<1>1. ASSUME NEW s \in Submission, Create(s) PROVE AuditTellsStatus'
  <2> PICK d \in Draft : /\ submission[d] = None
                         /\ status' = [status EXCEPT ![d] = "draft"]
                         /\ Record(d, s.form)
    BY <1>1 DEF Create
  <2>1. status[d] = "none"
    BY DEF StatusKnown
  <2> QED
    BY <2>1, SubmissionFact, AuditMove
<1>2. ASSUME NEW d \in Draft, NEW x \in DOMAIN Decisions, RecordStaffDecision(d, x)
      PROVE  AuditTellsStatus'
  BY <1>2, DecisionFact, AuditMove DEF RecordStaffDecision
<1>3. ASSUME NEW d \in Draft, RecordConflict(d) PROVE AuditTellsStatus'
  <2>1. /\ "conflict_recorded" \in Actions /\ StatusFrom["conflict_recorded"] = {"draft", "review"}
        /\ StatusTo["conflict_recorded"] = "conflicted"
    BY DEF Actions, StatusFrom, StatusTo
  <2> QED
    BY <1>3, <2>1, AuditMove DEF RecordConflict
<1>4. ASSUME NEW c \in conflicts, ResolveConflict(c) PROVE AuditTellsStatus'
  <2>1. /\ "conflict_resolved" \in Actions /\ StatusFrom["conflict_resolved"] = {"conflicted"}
        /\ StatusTo["conflict_resolved"] = "draft"
    BY DEF Actions, StatusFrom, StatusTo
  <2>2. c.draft \in Draft
    BY DEF TypeOK, ConflictRow
  <2> QED
    BY <1>4, <2>1, <2>2, AuditMove DEF ResolveConflict
<1>5. ASSUME UNCHANGED <<status, audit>> PROVE AuditTellsStatus'
  BY <1>5 DEF AuditTellsStatus, LeftIn
<1> QED
  BY <1>1, <1>2, <1>3, <1>4, <1>5 DEF Next, Replay, drafts

-----------------------------------------------------------------------------
(* The conjunction is inductive and holds throughout every behaviour. *)
THEOREM DraftInvariant == Spec => []IInv
<1>1. IInv /\ [Next]_drafts => IInv'
  BY TypeStep, ConflictStep, LinesStep, KeyStep, AuditStep DEF IInv
<1> QED
  BY <1>1, InitInvariant, PTL DEF Spec

(* The store keeps its columns typed for any number of drafts. *)
THEOREM TypeCorrect == Spec => []TypeOK
<1>1. IInv => TypeOK
  BY DEF IInv
<1> QED
  BY <1>1, DraftInvariant, PTL

(* record_conflict and resolve_conflict keep a draft conflicted exactly    *)
(* while one conflict of it is open, in every order of calls.              *)
THEOREM ConflictsMatchStatus == Spec => []OneOpenConflict
<1>1. IInv => OneOpenConflict
  BY DEF IInv
<1> QED
  BY <1>1, DraftInvariant, PTL

(* create_draft and create_converter_draft bill an order line once.        *)
THEOREM LinesAreHeldOnce == Spec => []LinesHeldOnce
<1>1. IInv => LinesHeldOnce
  BY DEF IInv
<1> QED
  BY <1>1, DraftInvariant, PTL

(* A retried submission is given the draft it created and nothing else.    *)
THEOREM KeysAreUsedOnce == Spec => []OneDraftPerKey
<1>1. IInv => OneDraftPerKey
  BY DEF IInv
<1> QED
  BY <1>1, DraftInvariant, PTL

(* invoice_draft_audit alone reproduces every draft's status, however long *)
(* the history.                                                            *)
THEOREM AuditIsComplete == Spec => []AuditTellsStatus
<1>1. IInv => AuditTellsStatus
  BY DEF IInv
<1> QED
  BY <1>1, DraftInvariant, PTL

-----------------------------------------------------------------------------
(* The inductive invariant of the registry and the store. *)
PendingIsFinite == IsFiniteSet(DOMAIN pending)
PendingWasIssued == DOMAIN pending \subseteq issued

(* The registry holds what the running server showed, and nothing older.    *)
PendingAsShown == \A r \in DOMAIN pending : r \in DOMAIN shown /\ shown[r] = pending[r].proposal

(* The two halves of ServedOnceAsShown. *)
ServedOnce ==
  /\ \A i, j \in DOMAIN served : served[i].ref = served[j].ref => i = j
  /\ \A i \in DOMAIN served : /\ served[i].left > 0 /\ served[i].ref \in issued
                              /\ served[i].ref \notin DOMAIN pending

SavesShown(row) ==
  /\ row.shown # None
  /\ submission[row.draft] # None
  /\ submission[row.draft].key = row.shown
  /\ submission[row.draft].lines = SelectedLines(row.shown.selected)

ServedAsShown == \A i \in DOMAIN served : SavesShown(served[i])
SavedWhenReady == \A d \in Draft : submission[d] # None =>
  \E p \in Proposal, a \in Active : submission[d] = SubmissionOf(p, a) /\ Ready(p)

RInv ==
  /\ IInv
  /\ RegistryTypeOK /\ PendingIsFinite /\ PendingWasIssued
  /\ PendingAsShown /\ ServedOnce /\ ServedAsShown
  /\ FullOfLivePreviews /\ SavedWhenReady

-----------------------------------------------------------------------------
(* What Save saves is a submission of the store. *)
LEMMA SavedIsSubmission ==
  ASSUME NEW p \in Proposal, NEW a \in Staff
  PROVE  /\ SubmissionOf(p, a) \in Submission
         /\ SubmissionOf(p, a).key = p /\ SubmissionOf(p, a).created_by = a
         /\ SubmissionOf(p, a).lines = SelectedLines(p.selected)
  BY PreviewAssumption DEF SubmissionOf

(* The store takes only steps of its own. *)
LEMMA StoreStep == RegistryTypeOK /\ [RegistryNext]_vars => [Next]_drafts
<1> SUFFICES ASSUME RegistryTypeOK, RegistryNext, ~UNCHANGED drafts PROVE Next
  BY DEF vars, drafts
<1>1. CASE FollowUp BY <1>1 DEF FollowUp, Next
<1>2. ASSUME NEW r \in issued, NEW a \in Staff, Save(r, a) PROVE Next
  <2>1. r \in Fresh /\ (Create(SubmissionOf(pending[r].proposal, a)) \/ Replay(SubmissionOf(pending[r].proposal, a)))
    BY <1>2 DEF Save
  <2>2. pending[r].proposal \in Proposal BY <2>1 DEF Fresh, RegistryTypeOK, Held
  <2> QED BY <2>1, <2>2, SavedIsSubmission DEF Next
<1>3. ~Tick /\ ~Restart /\ \A s \in Selections, x \in Decided : ~Preview(s, x)
  BY DEF Tick, Restart, Preview
<1> QED BY <1>1, <1>2, <1>3 DEF RegistryNext

-----------------------------------------------------------------------------
(* What a step leaves of the pending previews: some of those it found, with *)
(* the proposals they had, and at most one more that was never issued.      *)
LEMMA FreshFact ==
  ASSUME RegistryTypeOK, PendingIsFinite
  PROVE  /\ Fresh \subseteq DOMAIN pending /\ IsFiniteSet(Fresh) /\ Cardinality(Fresh) \in Nat
         /\ Cardinality(Fresh) <= Cardinality(DOMAIN pending) /\ Cardinality(DOMAIN pending) <= MaxPending
<1>1. Fresh \subseteq DOMAIN pending BY DEF Fresh
<1> QED BY <1>1, FS_Subset, FS_CardinalityType DEF PendingIsFinite, RegistryTypeOK

LEMMA KeepFact ==
  ASSUME RegistryTypeOK, PendingIsFinite, PendingWasIssued, NEW refs \in SUBSET DOMAIN pending,
         pending' = Keep(refs)
  PROVE  /\ DOMAIN pending' = refs /\ \A r \in refs : pending'[r] = pending[r] /\ pending'[r] \in Held
         /\ IsFiniteSet(refs) /\ Cardinality(refs) \in Nat /\ Cardinality(refs) <= MaxPending
         /\ refs \subseteq Ref /\ refs \subseteq issued
<1>1. DOMAIN pending' = refs /\ \A r \in refs : pending'[r] = pending[r] BY DEF Keep
<1>2. /\ IsFiniteSet(refs) /\ Cardinality(refs) \in Nat
      /\ Cardinality(DOMAIN pending) \in Nat /\ Cardinality(refs) <= Cardinality(DOMAIN pending)
  BY FS_Subset, FS_CardinalityType DEF PendingIsFinite
<1>3. Cardinality(refs) <= MaxPending BY <1>2, PreviewAssumption DEF RegistryTypeOK
<1> QED BY <1>1, <1>2, <1>3 DEF RegistryTypeOK, PendingWasIssued

-----------------------------------------------------------------------------
LEMMA InitRegistry == RegistryInit => RInv
<1> SUFFICES ASSUME RegistryInit PROVE RInv OBVIOUS
<1>1. IInv BY InitInvariant DEF RegistryInit
<1>2. DOMAIN pending = {} /\ IsFiniteSet(DOMAIN pending) /\ Cardinality(DOMAIN pending) = 0
  BY FS_EmptySet DEF RegistryInit
<1>3. RegistryTypeOK BY <1>1, <1>2, PreviewAssumption DEF RegistryTypeOK, RegistryInit, IInv
<1>4. PendingIsFinite /\ PendingWasIssued /\ FullOfLivePreviews /\ ServedOnce
      /\ PendingAsShown /\ ServedAsShown
  BY <1>2 DEF PendingIsFinite, PendingWasIssued, FullOfLivePreviews, ServedOnce, PendingAsShown,
     ServedAsShown, RegistryInit
<1>5. SavedWhenReady BY DEF SavedWhenReady, RegistryInit, Init
<1> QED BY <1>1, <1>3, <1>4, <1>5 DEF RInv

(* Time passes for what is pending. *)
LEMMA TickStep ==
  ASSUME RInv, Tick
  PROVE  /\ TypeOK' => RegistryTypeOK'
         /\ PendingIsFinite' /\ PendingWasIssued' /\ ServedOnce' /\ FullOfLivePreviews'
<1> USE DEF RInv
<1>1. /\ DOMAIN pending' = DOMAIN pending /\ answer' = "none" /\ UNCHANGED <<accepted, issued, shown, served>>
      /\ \A r \in DOMAIN pending : pending'[r] = [pending[r] EXCEPT !.left = IF @ > 0 THEN @ - 1 ELSE 0]
  BY DEF Tick
<1>2. ASSUME NEW r \in DOMAIN pending PROVE pending'[r] \in Held
  <2>1. pending[r] \in Held BY DEF RegistryTypeOK
  <2>2. (IF pending[r].left > 0 THEN pending[r].left - 1 ELSE 0) \in 0 .. TTL
    BY <2>1, PreviewAssumption DEF Held
  <2> QED BY <1>1, <2>1, <2>2 DEF Held
<1>3. TypeOK' => RegistryTypeOK' BY <1>1, <1>2 DEF RegistryTypeOK
<1> QED
  BY <1>1, <1>3 DEF PendingIsFinite, PendingWasIssued, ServedOnce, FullOfLivePreviews

LEMMA PreviewStep ==
  ASSUME RInv, NEW selected \in Selections, NEW decisions \in Decided, Preview(selected, decisions)
  PROVE  /\ TypeOK' => RegistryTypeOK'
         /\ PendingIsFinite' /\ PendingWasIssued' /\ ServedOnce' /\ FullOfLivePreviews'
<1> USE DEF RInv
<1> DEFINE p == [snapshot |-> accepted, selected |-> selected, decisions |-> decisions]
<1>1. p \in Proposal BY DEF Proposal, RegistryTypeOK
<1>2. UNCHANGED <<accepted, served>> BY DEF Preview
<1>3. /\ Fresh \subseteq DOMAIN pending /\ IsFiniteSet(Fresh) /\ Cardinality(Fresh) \in Nat
      /\ Cardinality(Fresh) <= MaxPending
  BY FreshFact, FS_CardinalityType, PreviewAssumption DEF PendingIsFinite
<1>4. CASE Full /\ pending' = Keep(Fresh) /\ answer' = "full" /\ UNCHANGED <<issued, shown>>
  <2>1. /\ DOMAIN pending' = Fresh /\ \A r \in Fresh : pending'[r] = pending[r] /\ pending'[r] \in Held
        /\ Fresh \subseteq Ref /\ Fresh \subseteq issued
    BY <1>3, <1>4, KeepFact
  <2>2. TypeOK' => RegistryTypeOK' BY <1>2, <1>3, <1>4, <2>1 DEF RegistryTypeOK
  <2>3. PendingIsFinite' /\ PendingWasIssued' /\ ServedOnce'
    BY <1>2, <1>3, <1>4, <2>1 DEF PendingIsFinite, PendingWasIssued, ServedOnce
  <2>4. FullOfLivePreviews'
    <3>1. Cardinality(Fresh) = MaxPending BY <1>3, <1>4, PreviewAssumption DEF Full
    <3>2. \A r \in Fresh : pending'[r].left > 0 BY <2>1 DEF Fresh
    <3> QED BY <2>1, <3>1, <3>2 DEF FullOfLivePreviews
  <2> QED BY <2>2, <2>3, <2>4
<1>5. ASSUME ~Full, answer' = "preview", NEW r \in Ref \ issued, issued' = issued \cup {r},
             pending' = [s \in Fresh \cup {r} |->
                           IF s = r THEN [proposal |-> p, left |-> TTL] ELSE pending[s]],
             shown' = [s \in DOMAIN shown \cup {r} |-> IF s = r THEN p ELSE shown[s]]
      PROVE  /\ TypeOK' => RegistryTypeOK'
             /\ PendingIsFinite' /\ PendingWasIssued' /\ ServedOnce' /\ FullOfLivePreviews'
  <2>1. r \notin Fresh BY <1>3 DEF PendingWasIssued
  <2>2. IsFiniteSet(Fresh \cup {r}) /\ Cardinality(Fresh \cup {r}) = Cardinality(Fresh) + 1
    BY <1>3, <2>1, FS_AddElement
  <2>3. Cardinality(Fresh \cup {r}) <= MaxPending BY <1>3, <1>5, <2>2, PreviewAssumption DEF Full
  <2>4. DOMAIN pending' = Fresh \cup {r} BY <1>5
  <2>5. \A s \in Fresh \cup {r} : pending'[s] \in Held
    <3>1. [proposal |-> p, left |-> TTL] \in Held
      <4> HIDE DEF p
      <4> QED BY <1>1, PreviewAssumption DEF Held
    <3>2. \A s \in Fresh : pending[s] \in Held BY <1>3 DEF RegistryTypeOK
    <3> HIDE DEF p
    <3> QED BY <1>5, <3>1, <3>2
  <2>6. \A s \in DOMAIN shown' : shown'[s] \in Proposal
    <3>1. \A s \in DOMAIN shown : shown[s] \in Proposal BY DEF RegistryTypeOK
    <3> HIDE DEF p
    <3> QED BY <1>1, <1>5, <3>1
  <2>7. TypeOK' => RegistryTypeOK'
    BY <1>2, <1>3, <1>5, <2>3, <2>4, <2>5, <2>6 DEF RegistryTypeOK
  <2>8. PendingIsFinite' /\ PendingWasIssued'
    BY <1>3, <1>5, <2>2, <2>4 DEF PendingIsFinite, PendingWasIssued
  <2>9. ServedOnce' BY <1>2, <1>3, <1>5, <2>4 DEF ServedOnce
  <2>10. FullOfLivePreviews' BY <1>5 DEF FullOfLivePreviews
  <2> QED BY <2>7, <2>8, <2>9, <2>10
<1> QED BY <1>4, <1>5 DEF Preview

LEMMA SaveStep ==
  ASSUME RInv, NEW r \in issued, NEW actor \in Staff, Save(r, actor)
  PROVE  /\ TypeOK' => RegistryTypeOK'
         /\ PendingIsFinite' /\ PendingWasIssued' /\ ServedOnce' /\ FullOfLivePreviews'
<1> USE DEF RInv
<1>1. UNCHANGED <<accepted, issued, shown>> /\ answer' \in {"expired", "refused", "saved"} BY DEF Save
<1>2. FullOfLivePreviews' BY <1>1 DEF FullOfLivePreviews
<1>3. Fresh \subseteq DOMAIN pending /\ Popped(r) \subseteq DOMAIN pending /\ r \notin Popped(r)
  BY DEF Fresh, Popped
<1>4. CASE UNCHANGED <<pending, served>>
  BY <1>1, <1>2, <1>4 DEF RegistryTypeOK, PendingIsFinite, PendingWasIssued, ServedOnce
<1>5. ASSUME NEW refs \in SUBSET DOMAIN pending, pending' = Keep(refs), UNCHANGED served
      PROVE  /\ TypeOK' => RegistryTypeOK'
             /\ PendingIsFinite' /\ PendingWasIssued' /\ ServedOnce'
  <2>1. /\ DOMAIN pending' = refs /\ \A s \in refs : pending'[s] \in Held
        /\ IsFiniteSet(refs) /\ Cardinality(refs) <= MaxPending /\ refs \subseteq Ref /\ refs \subseteq issued
    BY <1>5, KeepFact
  <2> QED BY <1>1, <1>5, <2>1
    DEF RegistryTypeOK, PendingIsFinite, PendingWasIssued, ServedOnce
<1>6. ASSUME r \in Fresh, pending' = Keep(Popped(r)), NEW d \in Draft,
             served' = Append(served, [ref |-> r, left |-> pending[r].left, draft |-> d,
                                       shown |-> IF r \in DOMAIN shown THEN shown[r] ELSE None])
      PROVE  /\ TypeOK' => RegistryTypeOK'
             /\ PendingIsFinite' /\ PendingWasIssued' /\ ServedOnce'
  <2> DEFINE row == [ref |-> r, left |-> pending[r].left, draft |-> d,
                     shown |-> IF r \in DOMAIN shown THEN shown[r] ELSE None]
             n == Len(served)
             Rows == Served
  <2>1. /\ DOMAIN pending' = Popped(r) /\ \A s \in Popped(r) : pending'[s] \in Held
        /\ IsFiniteSet(Popped(r)) /\ Cardinality(Popped(r)) <= MaxPending
        /\ Popped(r) \subseteq Ref /\ Popped(r) \subseteq issued
    BY <1>3, <1>6, KeepFact
  <2>2. r \in DOMAIN pending /\ pending[r].left > 0 BY <1>6 DEF Fresh
  <2>3. row \in Rows BY <2>2 DEF RegistryTypeOK, Held, Served
  <2>4. row.ref = r /\ row.left > 0 BY <2>2
  <2>5. served \in Seq(Rows) BY DEF RegistryTypeOK
  <2> HIDE DEF row, Rows
  <2>6. /\ served' \in Seq(Rows) /\ DOMAIN served = 1 .. n /\ DOMAIN served' = 1 .. n + 1 /\ n \in Nat
        /\ served'[n + 1] = row /\ \A i \in 1 .. n : served'[i] = served[i]
    BY <1>6, <2>3, <2>5 DEF row
  <2>7. TypeOK' => RegistryTypeOK' BY <1>1, <2>1, <2>6 DEF RegistryTypeOK, Rows
  <2>8. PendingIsFinite' /\ PendingWasIssued' BY <1>1, <2>1 DEF PendingIsFinite, PendingWasIssued
  <2>9. \A i \in 1 .. n : served[i].ref # r /\ served[i].left > 0 /\ served[i].ref \in issued
                          /\ served[i].ref \notin DOMAIN pending
    BY <2>2, <2>6 DEF ServedOnce
  <2>10. \A i \in 1 .. n + 1 : /\ served'[i].left > 0 /\ served'[i].ref \in issued'
                               /\ served'[i].ref \notin DOMAIN pending'
    <3> SUFFICES ASSUME NEW i \in 1 .. n + 1
                 PROVE  /\ served'[i].left > 0 /\ served'[i].ref \in issued'
                        /\ served'[i].ref \notin DOMAIN pending'
      OBVIOUS
    <3>1. CASE i = n + 1 BY <1>1, <1>3, <2>1, <2>4, <2>6, <3>1
    <3>2. CASE i \in 1 .. n BY <1>1, <1>3, <2>1, <2>6, <2>9, <3>2
    <3> QED BY <2>6, <3>1, <3>2
  <2>11. \A i, j \in 1 .. n + 1 : served'[i].ref = served'[j].ref => i = j
    <3> SUFFICES ASSUME NEW i \in 1 .. n + 1, NEW j \in 1 .. n + 1, served'[i].ref = served'[j].ref
                 PROVE  i = j
      OBVIOUS
    <3>1. CASE i \in 1 .. n /\ j \in 1 .. n
      <4>1. served[i].ref = served[j].ref BY <2>6, <3>1
      <4> QED BY <2>6, <3>1, <4>1 DEF ServedOnce
    <3>2. CASE i = n + 1 /\ j \in 1 .. n BY <2>4, <2>6, <2>9, <3>2
    <3>3. CASE i \in 1 .. n /\ j = n + 1 BY <2>4, <2>6, <2>9, <3>3
    <3> QED BY <2>6, <3>1, <3>2, <3>3
  <2>12. ServedOnce' BY <2>6, <2>10, <2>11 DEF ServedOnce
  <2> QED BY <2>7, <2>8, <2>12
<1> QED BY <1>2, <1>3, <1>4, <1>5, <1>6 DEF Save

LEMMA RestartStep ==
  ASSUME RInv, Restart
  PROVE  /\ TypeOK' => RegistryTypeOK'
         /\ PendingIsFinite' /\ PendingWasIssued' /\ ServedOnce' /\ FullOfLivePreviews'
<1> USE DEF RInv
<1>1. DOMAIN pending' = {} /\ IsFiniteSet({}) /\ Cardinality({}) = 0 BY FS_EmptySet DEF Restart
<1>2. TypeOK' => RegistryTypeOK' BY <1>1, PreviewAssumption DEF Restart, RegistryTypeOK
<1> QED
  BY <1>1, <1>2
  DEF Restart, PendingIsFinite, PendingWasIssued, ServedOnce, FullOfLivePreviews

(* Only Save makes drafts, of a proposal that is ready and an active actor. *)
LEMMA ReadyStep == RInv /\ [RegistryNext]_vars => SavedWhenReady'
<1> SUFFICES ASSUME RInv, [RegistryNext]_vars PROVE SavedWhenReady' OBVIOUS
<1> USE DEF RInv
<1>1. ASSUME UNCHANGED submission PROVE SavedWhenReady' BY <1>1 DEF SavedWhenReady
<1>2. CASE FollowUp
  BY <1>1, <1>2 DEF FollowUp, RecordConflict, RecordStaffDecision, ResolveConflict
<1>3. CASE Tick \/ Restart \/ (\E s \in Selections, x \in Decided : Preview(s, x)) \/ UNCHANGED vars
  BY <1>1, <1>3 DEF Tick, Restart, Preview, vars, drafts
<1>4. ASSUME NEW r \in issued, NEW a \in Staff, Save(r, a) PROVE SavedWhenReady'
  <2> DEFINE p == pending[r].proposal  s == SubmissionOf(p, a)
  <2>1. CASE UNCHANGED drafts BY <1>1, <2>1 DEF drafts
  <2>2. CASE Replay(s) BY <1>1, <2>2 DEF Replay
  <2>3. CASE a \in Active /\ r \in Fresh /\ Ready(s.key) /\ Create(s)
    <3>1. p \in Proposal BY <2>3 DEF Fresh, RegistryTypeOK, Held
    <3> HIDE DEF p
    <3>2. s.key = p BY <3>1, SavedIsSubmission
    <3>3. PICK d \in Draft : submission' = [submission EXCEPT ![d] = s] BY <2>3 DEF Create
    <3> SUFFICES ASSUME NEW e \in Draft, submission'[e] # None
                 PROVE  \E q \in Proposal, b \in Active : submission'[e] = SubmissionOf(q, b) /\ Ready(q)
      BY DEF SavedWhenReady
    <3>4. submission \in [Draft -> Submission \cup {None}] BY DEF IInv, TypeOK
    <3>5. CASE e = d
      <4>1. submission'[e] = SubmissionOf(p, a) BY <3>3, <3>4, <3>5
      <4> QED BY <2>3, <3>1, <3>2, <4>1
    <3>6. CASE e # d BY <3>3, <3>4, <3>6 DEF SavedWhenReady
    <3> QED BY <3>5, <3>6
  <2> QED BY <1>4, <2>1, <2>2, <2>3 DEF Save
<1> QED BY <1>2, <1>3, <1>4 DEF RegistryNext

(* Pending previews are those the running server showed, for the server     *)
(* takes them with it, and a draft that was saved keeps what it bills.      *)
LEMMA ShownStep == RInv /\ SavedWhenReady' /\ [RegistryNext]_vars => PendingAsShown' /\ ServedAsShown'
<1> SUFFICES ASSUME RInv, SavedWhenReady', [RegistryNext]_vars PROVE PendingAsShown' /\ ServedAsShown'
  OBVIOUS
<1> USE DEF RInv
<1>1. \A d \in Draft : submission[d] # None => submission'[d] = submission[d]
  <2>1. [Next]_drafts BY StoreStep
  <2>2. submission \in [Draft -> Submission \cup {None}] BY DEF IInv, TypeOK
  <2> QED BY <2>1, <2>2 DEF Next, Create, Replay, RecordStaffDecision, RecordConflict, ResolveConflict, drafts
<1>2. ASSUME NEW row \in Served, SavesShown(row) PROVE SavesShown(row)'
  <2>1. row.draft \in Draft BY DEF Served
  <2> QED BY <1>1, <1>2, <2>1 DEF SavesShown
<1>3. ASSUME NEW i \in DOMAIN served, served'[i] = served[i] PROVE SavesShown(served[i])'
  <2>1. served[i] \in Served BY DEF RegistryTypeOK
  <2>2. PICK row \in Served : row = served[i] BY <2>1
  <2>3. SavesShown(row) BY <2>2 DEF ServedAsShown
  <2>4. SavesShown(row)' BY <1>2, <2>3
  <2> QED BY <1>3, <2>2, <2>4 DEF SavesShown
<1>4. ASSUME UNCHANGED served PROVE ServedAsShown' BY <1>3, <1>4 DEF ServedAsShown
<1>5. ASSUME UNCHANGED shown, NEW refs \in SUBSET DOMAIN pending, pending' = Keep(refs)
      PROVE  PendingAsShown'
  BY <1>5 DEF PendingAsShown, Keep
<1>6. CASE FollowUp \/ UNCHANGED vars
  BY <1>4, <1>6 DEF FollowUp, vars, registry, PendingAsShown
<1>7. CASE Tick
  <2>1. /\ DOMAIN pending' = DOMAIN pending /\ UNCHANGED <<shown, served>>
        /\ \A r \in DOMAIN pending : pending'[r] = [pending[r] EXCEPT !.left = IF @ > 0 THEN @ - 1 ELSE 0]
    BY <1>7 DEF Tick
  <2>2. \A r \in DOMAIN pending : pending[r] \in Held BY DEF RegistryTypeOK
  <2>3. \A r \in DOMAIN pending : pending'[r].proposal = pending[r].proposal BY <2>1, <2>2 DEF Held
  <2> QED BY <1>4, <2>1, <2>3 DEF PendingAsShown
<1>8. CASE Restart BY <1>4, <1>8 DEF Restart, PendingAsShown
<1>9. ASSUME NEW selected \in Selections, NEW decisions \in Decided, Preview(selected, decisions)
      PROVE  PendingAsShown' /\ ServedAsShown'
  <2> DEFINE p == [snapshot |-> accepted, selected |-> selected, decisions |-> decisions]
  <2>1. Fresh \subseteq DOMAIN pending BY DEF Fresh
  <2>2. ASSUME NEW r \in Ref \ issued,
               pending' = [s \in Fresh \cup {r} |->
                             IF s = r THEN [proposal |-> p, left |-> TTL] ELSE pending[s]],
               shown' = [s \in DOMAIN shown \cup {r} |-> IF s = r THEN p ELSE shown[s]]
        PROVE  PendingAsShown'
    <3> HIDE DEF p
    <3>1. pending'[r].proposal = p /\ shown'[r] = p BY <2>2
    <3>2. \A s \in Fresh : s # r => pending'[s] = pending[s] BY <2>2
    <3>3. \A s \in Fresh : s # r => s \in DOMAIN shown /\ shown'[s] = shown[s] /\ shown[s] = pending[s].proposal
      BY <2>1, <2>2 DEF PendingAsShown
    <3> QED BY <2>2, <3>1, <3>2, <3>3 DEF PendingAsShown
  <2> QED BY <1>4, <1>5, <1>9, <2>1, <2>2 DEF Preview
<1>10. ASSUME NEW r \in issued, NEW actor \in Staff, Save(r, actor)
       PROVE  PendingAsShown' /\ ServedAsShown'
  <2>1. Fresh \subseteq DOMAIN pending /\ Popped(r) \subseteq DOMAIN pending BY DEF Fresh, Popped
  <2>2. PendingAsShown'
    <3>1. UNCHANGED shown BY <1>10 DEF Save
    <3>2. UNCHANGED pending \/ pending' = Keep(Fresh) \/ pending' = Keep(Popped(r)) BY <1>10 DEF Save
    <3> QED BY <1>5, <2>1, <3>1, <3>2 DEF PendingAsShown
  <2> DEFINE p == pending[r].proposal
  <2>3. ASSUME r \in Fresh, NEW d \in Draft, submission'[d] # None, submission'[d].key = p,
               served' = Append(served, [ref |-> r, left |-> pending[r].left, draft |-> d,
                                         shown |-> IF r \in DOMAIN shown THEN shown[r] ELSE None])
        PROVE  ServedAsShown'
    <3>1. /\ p \in Proposal /\ r \in DOMAIN shown /\ shown[r] = p
          /\ pending[r].left \in 0 .. TTL /\ r \in Ref
      BY <2>1, <2>3 DEF RegistryTypeOK, Held, PendingAsShown
    <3>2. PICK q \in Proposal : q = p BY <3>1
    <3>3. submission'[d].key = q /\ submission'[d].lines = SelectedLines(q.selected)
      <4>1. PICK o \in Proposal, a \in Active : submission'[d] = SubmissionOf(o, a)
        BY <2>3 DEF SavedWhenReady
      <4>2. submission'[d].key = o /\ submission'[d].lines = SelectedLines(o.selected)
        BY <4>1 DEF SubmissionOf
      <4> QED BY <2>3, <3>2, <4>2
    <3>4. PICK row \in Served : row = [ref |-> r, left |-> pending[r].left, draft |-> d, shown |-> q]
      BY <3>1 DEF Served
    <3>5. row.draft = d /\ row.shown = q BY <3>4
    <3>6. q # None BY <3>2, PreviewAssumption
    <3>7. SavesShown(row)' BY <2>3, <3>3, <3>5, <3>6 DEF SavesShown
    <3>8. served \in Seq(Served) /\ served' = Append(served, row)
      BY <2>3, <3>1, <3>2, <3>4 DEF RegistryTypeOK
    <3>9. PICK n \in Nat : n = Len(served) BY <3>8
    <3>10. /\ DOMAIN served = 1 .. n /\ DOMAIN served' = 1 .. n + 1
          /\ served'[n + 1] = row /\ \A i \in 1 .. n : served'[i] = served[i]
      BY <3>8, <3>9
    <3>11. \A i \in 1 .. n : SavesShown(served[i])' BY <1>3, <3>10
    <3>12. SavesShown(served[n + 1])' BY <3>7, <3>10 DEF SavesShown
    <3> SUFFICES ASSUME NEW i \in 1 .. n + 1 PROVE SavesShown(served[i])'
      BY <3>10 DEF ServedAsShown
    <3> QED BY <3>10, <3>11, <3>12
  <2>4. CASE UNCHANGED served BY <1>4, <2>2, <2>4
  <2>5. CASE ~UNCHANGED served
    <3>1. r \in Fresh BY <1>10, <2>5 DEF Save
    <3>2. p \in Proposal BY <2>1, <3>1 DEF RegistryTypeOK, Held
    <3>3. SubmissionOf(p, actor).key = p BY <3>2, SavedIsSubmission
    <3>4. PICK d \in Draft :
            /\ submission'[d] # None /\ submission'[d].key = SubmissionOf(p, actor).key
            /\ served' = Append(served, [ref |-> r, left |-> pending[r].left, draft |-> d,
                                         shown |-> IF r \in DOMAIN shown THEN shown[r] ELSE None])
      BY <1>10, <2>5 DEF Save
    <3> QED BY <2>2, <2>3, <3>1, <3>3, <3>4
  <2> QED BY <2>4, <2>5
<1> QED BY <1>6, <1>7, <1>8, <1>9, <1>10 DEF RegistryNext

LEMMA RegistryStep == RInv /\ [RegistryNext]_vars => RInv'
<1> SUFFICES ASSUME RInv, [RegistryNext]_vars PROVE RInv' OBVIOUS
<1>1. IInv'
  <2>1. [Next]_drafts BY StoreStep DEF RInv
  <2> QED BY <2>1, TypeStep, ConflictStep, LinesStep, KeyStep, AuditStep DEF RInv, IInv
<1>2. TypeOK' BY <1>1 DEF IInv
<1>3. SavedWhenReady' /\ PendingAsShown' /\ ServedAsShown' BY ReadyStep, ShownStep
<1>4. CASE FollowUp \/ UNCHANGED vars
  BY <1>1, <1>2, <1>3, <1>4 DEF RInv, FollowUp, vars, registry, RegistryTypeOK, PendingIsFinite,
     PendingWasIssued, ServedOnce, FullOfLivePreviews
<1>5. CASE Tick BY <1>1, <1>2, <1>3, <1>5, TickStep DEF RInv
<1>6. CASE Restart BY <1>1, <1>2, <1>3, <1>6, RestartStep DEF RInv
<1>7. ASSUME NEW s \in Selections, NEW x \in Decided, Preview(s, x) PROVE RInv'
  BY <1>1, <1>2, <1>3, <1>7, PreviewStep DEF RInv
<1>8. ASSUME NEW r \in issued, NEW a \in Staff, Save(r, a) PROVE RInv'
  BY <1>1, <1>2, <1>3, <1>8, SaveStep DEF RInv
<1> QED BY <1>4, <1>5, <1>6, <1>7, <1>8 DEF RegistryNext

-----------------------------------------------------------------------------
(* Readiness and the allocations together: drafts bill ready selections, and *)
(* no line twice.                                                            *)
LEMMA ReadyAndHeldOnce == RInv => BilledOnceWhenReady
<1> SUFFICES ASSUME RInv PROVE BilledOnceWhenReady OBVIOUS
<1>1. ASSUME NEW d \in Draft, submission[d] # None
      PROVE  /\ Disputes[submission[d].key.selected] \subseteq DOMAIN submission[d].key.decisions
             /\ \A i \in DOMAIN submission[d].key.selected : submission[d].key.selected[i] \notin Unpriced
             /\ submission[d].created_by \in Active
  <2>1. PICK p \in Proposal, a \in Active : submission[d] = SubmissionOf(p, a) /\ Ready(p)
    BY <1>1 DEF RInv, SavedWhenReady
  <2>2. submission[d].key = p /\ submission[d].created_by = a BY <2>1 DEF SubmissionOf
  <2> QED BY <2>1, <2>2 DEF Ready
<1>2. ASSUME NEW d \in Draft, NEW e \in Draft, d # e, submission[d] # None, submission[e] # None,
             NEW l \in submission[d].lines \cap submission[e].lines
      PROVE  FALSE
  <2>1. PICK a \in allocations : a.draft = d /\ a.line = l BY <1>2 DEF RInv, IInv, LinesHeldOnce
  <2>2. PICK b \in allocations : b.draft = e /\ b.line = l BY <1>2 DEF RInv, IInv, LinesHeldOnce
  <2> QED BY <1>2, <2>1, <2>2 DEF RInv, IInv, LinesHeldOnce
<1> QED BY <1>1, <1>2 DEF BilledOnceWhenReady

(* The invariant of the routes, the store's included, holds throughout.     *)
THEOREM PreviewInvariant == RegistrySpec => []RInv
<1> QED BY InitRegistry, RegistryStep, PTL DEF RegistrySpec

(* The registry holds typed proposals, max_pending of them at most.         *)
THEOREM RegistryIsTyped == RegistrySpec => []RegistryTypeOK
<1>1. RInv => RegistryTypeOK BY DEF RInv
<1> QED BY <1>1, PreviewInvariant, PTL

(* A preview saves at most one draft, in its time and in the server that    *)
(* showed it, and the draft bills what was shown (consume,                  *)
(* save_frozen_proposal).                                                   *)
THEOREM PreviewsAreServedOnce == RegistrySpec => []ServedOnceAsShown
<1>1. RInv => ServedOnceAsShown
  BY DEF RInv, ServedOnce, ServedAsShown, SavesShown, ServedOnceAsShown
<1> QED BY <1>1, PreviewInvariant, PTL

(* "full" is answered while max_pending live previews are held (issue).     *)
THEOREM FullMeansLive == RegistrySpec => []FullOfLivePreviews
<1>1. RInv => FullOfLivePreviews BY DEF RInv
<1> QED BY <1>1, PreviewInvariant, PTL

(* What the routes save was ready, and bills no line a second time, over    *)
(* snapshots, restarts and repeated previews (save_frozen_proposal).        *)
THEOREM DraftsAreReady == RegistrySpec => []BilledOnceWhenReady
<1> QED BY ReadyAndHeldOnce, PreviewInvariant, PTL

(* The routes implement the draft store: they take no step it does not.     *)
THEOREM RoutesUseStore == RegistrySpec => Spec
<1>1. RegistryInit => Init BY DEF RegistryInit
<1>2. RInv /\ [RegistryNext]_vars => [Next]_drafts BY StoreStep DEF RInv
<1> QED BY <1>1, <1>2, PreviewInvariant, PTL DEF RegistrySpec, Spec
=============================================================================
