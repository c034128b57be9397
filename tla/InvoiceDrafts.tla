--------------------------- MODULE InvoiceDrafts ---------------------------
(***************************************************************************)
(* InvoiceDraftStore (apc_core/invoice_drafts.py): drafts with the order   *)
(* lines they hold, conflicts and an append-only audit, in one SQLite      *)
(* file that several stores and threads write.                             *)
(*                                                                         *)
(* Every method runs between BEGIN IMMEDIATE and commit or rollback, so it *)
(* is one action; a command that raises, or cannot get the lock, changes   *)
(* nothing and is no action.  What the caller was told is receipts: a      *)
(* committed command whose answer was lost leaves none and may be retried. *)
(***************************************************************************)
EXTENDS Integers, Sequences

CONSTANTS
  Draft,       \* draft identities (uuid4)
  Conflict,    \* conflict identities (uuid4)
  OrderLine,   \* (order_id, order_line_no)
  Submission,  \* what create_draft and create_converter_draft may be asked to save
  None,
  MaxAudit     \* bound on the audit rows of a run

Forms == {"created", "converter_draft_created"}
Decisions == [submit_for_review |-> <<"draft", "review">>, return_to_draft |-> <<"review", "draft">>]
Actions == Forms \cup DOMAIN Decisions \cup {"conflict_recorded", "conflict_resolved"}
Statuses == {"draft", "review", "conflicted"}

(* A submission has a key, the lines it bills and the form it was saved in; *)
(* actor, snapshot and the rest of its JSON tell submissions apart.         *)
ASSUME SubmissionAssumption ==
  /\ \A s \in Submission : s.lines \in (SUBSET OrderLine) \ {{}} /\ s.form \in Forms
  /\ None \notin Submission
ASSUME AuditAssumption == MaxAudit \in Nat

VARIABLES
  submission,   \* submission[d]: submission_json, None if there is no draft d
  status,       \* invoice_drafts.status, "none" if there is no draft d
  allocations,  \* invoice_line_allocations
  conflicts,    \* invoice_draft_conflicts
  audit,        \* invoice_draft_audit in the order of audit_id
  receipts      \* the drafts callers were given for their submissions

drafts == <<submission, status, allocations, conflicts, audit, receipts>>

Allocation == [line : OrderLine, draft : Draft]
ConflictRow == [id : Conflict, draft : Draft, open : BOOLEAN]

TypeOK ==
  /\ submission \in [Draft -> Submission \cup {None}]
  /\ status \in [Draft -> Statuses \cup {"none"}]
  /\ allocations \in SUBSET Allocation
  /\ conflicts \in SUBSET ConflictRow
  /\ audit \in Seq([draft : Draft, action : Actions])
  /\ receipts \in SUBSET [asked : Submission, draft : Draft]

-----------------------------------------------------------------------------
Keyed(key) == {d \in Draft : submission[d] # None /\ submission[d].key = key}

(* Mutant of Free: one unallocated line is enough. *)
FreeSomewhere(lines) == \E l \in lines : \A a \in allocations : a.line # l

(* UNIQUE(order_id,order_line_no) of invoice_line_allocations *)
Free(lines) == \A a \in allocations : a.line \notin lines

(* _audit, bounded for the run. *)
Record(d, action) ==
  /\ Len(audit) < MaxAudit
  /\ audit' = Append(audit, [draft |-> d, action |-> action])

Answered(s, d) == receipts' \in {receipts, receipts \cup {[asked |-> s, draft |-> d]}}

-----------------------------------------------------------------------------
Init ==
  /\ submission = [d \in Draft |-> None]
  /\ status = [d \in Draft |-> "none"]
  /\ allocations = {}
  /\ conflicts = {}
  /\ audit = <<>>
  /\ receipts = {}

(* Draft, lines, allocations and audit row. *)
Create(s) ==
  /\ Keyed(s.key) = {}
  /\ Free(s.lines)
  /\ \E d \in Draft :
       /\ submission[d] = None
       /\ submission' = [submission EXCEPT ![d] = s]
       /\ status' = [status EXCEPT ![d] = "draft"]
       /\ allocations' = allocations \cup {[line |-> l, draft |-> d] : l \in s.lines}
       /\ Record(d, s.form)
       /\ Answered(s, d)
  /\ UNCHANGED conflicts

(* Mutant of Replay: the submission is not compared. *)
ReplayKey(s) ==
  \E d \in Keyed(s.key) :
    /\ Answered(s, d)
    /\ UNCHANGED <<submission, status, allocations, conflicts, audit>>

(* A used key gives its draft to the submission that created it, and is an  *)
(* "idempotency key mismatch" for any other.                                *)
Replay(s) ==
  \E d \in Keyed(s.key) :
    /\ submission[d] = s
    /\ Answered(s, d)
    /\ UNCHANGED <<submission, status, allocations, conflicts, audit>>

(* Mutant of RecordStaffDecision: whatever the status is. *)
RecordAnyDecision(d, decision) ==
  /\ submission[d] # None
  /\ status' = [status EXCEPT ![d] = Decisions[decision][2]]
  /\ Record(d, decision)
  /\ UNCHANGED <<submission, allocations, conflicts, receipts>>

RecordStaffDecision(d, decision) ==
  /\ status[d] = Decisions[decision][1]
  /\ status' = [status EXCEPT ![d] = Decisions[decision][2]]
  /\ Record(d, decision)
  /\ UNCHANGED <<submission, allocations, conflicts, receipts>>

(* Mutant of RecordConflict: also while conflicted. *)
RecordAnotherConflict(d) ==
  /\ submission[d] # None
  /\ status' = [status EXCEPT ![d] = "conflicted"]
  /\ \E k \in Conflict :
       /\ \A c \in conflicts : c.id # k
       /\ conflicts' = conflicts \cup {[id |-> k, draft |-> d, open |-> TRUE]}
  /\ Record(d, "conflict_recorded")
  /\ UNCHANGED <<submission, allocations, receipts>>

RecordConflict(d) ==
  /\ status[d] \in {"draft", "review"}
  /\ status' = [status EXCEPT ![d] = "conflicted"]
  /\ \E k \in Conflict :
       /\ \A c \in conflicts : c.id # k
       /\ conflicts' = conflicts \cup {[id |-> k, draft |-> d, open |-> TRUE]}
  /\ Record(d, "conflict_recorded")
  /\ UNCHANGED <<submission, allocations, receipts>>

ResolveConflict(c) ==
  /\ c.open
  /\ status[c.draft] = "conflicted"
  /\ conflicts' = (conflicts \ {c}) \cup {[c EXCEPT !.open = FALSE]}
  /\ status' = [status EXCEPT ![c.draft] = "draft"]
  /\ Record(c.draft, "conflict_resolved")
  /\ UNCHANGED <<submission, allocations, receipts>>

Next ==
  \/ \E s \in Submission : Create(s) \/ Replay(s)
  \/ \E d \in Draft : RecordConflict(d) \/ \E x \in DOMAIN Decisions : RecordStaffDecision(d, x)
  \/ \E c \in conflicts : ResolveConflict(c)

Spec == Init /\ [][Next]_drafts

-----------------------------------------------------------------------------
(* A draft is conflicted exactly while one conflict of it is open: conflicts *)
(* recorded and resolved by rival callers, in any order, never leave a draft *)
(* stuck with no conflict to resolve or free with one outstanding.           *)
OneOpenConflict ==
  /\ \A d \in Draft : status[d] = "conflicted" <=> \E c \in conflicts : c.draft = d /\ c.open
  /\ \A c, k \in conflicts : c.id = k.id \/ (c.draft = k.draft /\ c.open /\ k.open) => c = k

(* An order line is held by one draft, and a draft holds all the lines it   *)
(* was submitted with: competing and repeated submissions neither bill a    *)
(* line twice nor save a draft with some of its lines.                      *)
LinesHeldOnce ==
  /\ \A a, b \in allocations : a.line = b.line => a = b
  /\ \A d \in Draft : {a.line : a \in {b \in allocations : b.draft = d}}
                        = IF submission[d] = None THEN {} ELSE submission[d].lines

StatusFrom == [created |-> {"none"}, converter_draft_created |-> {"none"},
               submit_for_review |-> {"draft"}, return_to_draft |-> {"review"},
               conflict_recorded |-> {"draft", "review"}, conflict_resolved |-> {"conflicted"}]
StatusTo == [created |-> "draft", converter_draft_created |-> "draft",
             submit_for_review |-> "review", return_to_draft |-> "draft",
             conflict_recorded |-> "conflicted", conflict_resolved |-> "draft"]

(* s is the status the first n audit rows leave draft d in. *)
LeftIn(d, n, s) ==
  \/ s = "none" /\ \A i \in 1 .. n : audit[i].draft # d
  \/ \E i \in 1 .. n : /\ audit[i].draft = d /\ s = StatusTo[audit[i].action]
                       /\ \A j \in i + 1 .. n : audit[j].draft # d

(* The audit alone tells every draft's status, and each of its rows was a   *)
(* move the rows before it allow: no status change without its row and no   *)
(* row without its change, across drafts, conflicts and losing transitions. *)
AuditTellsStatus ==
  \A d \in Draft :
    /\ LeftIn(d, Len(audit), status[d])
    /\ \A n \in 1 .. Len(audit) : audit[n].draft = d =>
         \E s \in StatusFrom[audit[n].action] : LeftIn(d, n - 1, s)

(* Two answers for one key name one draft and were asked for with the same  *)
(* submission, which is the one on record: a lost answer may be asked for   *)
(* again, also while another store commits under the key.                   *)
OneDraftPerKey ==
  /\ \A r \in receipts : submission[r.draft] = r.asked
  /\ \A d, e \in Draft : submission[d] # None /\ submission[e] # None
                           /\ submission[d].key = submission[e].key => d = e
=============================================================================
