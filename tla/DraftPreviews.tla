--------------------------- MODULE DraftPreviews ---------------------------
(***************************************************************************)
(* The web routes that make invoice drafts: do_POST /drafts/api/previews   *)
(* and /drafts/api/drafts (apc_core/item_explorer.py) with the one-use     *)
(* preview registry (invoice_draft_previews.py), the pure builder          *)
(* (invoice_draft_builder.py) and the service that saves a frozen proposal *)
(* (invoice_draft_service.py) in InvoiceDrafts.                            *)
(*                                                                         *)
(* request_gate lets one request run at a time, so a request is an action. *)
(* The registry dies with the server; a restarted server may have accepted *)
(* another snapshot of the source.  Time is what is left of a preview.     *)
(***************************************************************************)
EXTENDS InvoiceDrafts, FiniteSets

CONSTANTS
  Staff,       \* actor names
  Active,      \* the active ones
  Snapshot,    \* accepted snapshot digests
  Order,       \* source orders
  LinesOf,     \* LinesOf[o]: the order lines of order o
  Unpriced,    \* orders with a line whose price evidence is unresolved
  Dispute,     \* shipment fields whose evidence may conflict
  Choice,      \* decisions staff may take about one
  Selections,  \* sequences of orders staff may select
  Disputes,    \* Disputes[s]: the disputes of the selection s
  Ref,         \* preview references (random tokens)
  MaxPending,  \* max_pending (32)
  TTL          \* ttl_seconds in ticks (300)

Decided == UNION {[D -> Choice] : D \in SUBSET Dispute}

(* build_invoice_draft: a proposal is a function of these three, and so is *)
(* its digest, the idempotency key.                                        *)
Proposal == [snapshot : Snapshot, selected : Selections, decisions : Decided]

SelectedLines(selected) == UNION {LinesOf[selected[i]] : i \in DOMAIN selected}

(* Mutant of Ready: an unresolved price does not matter. *)
ReadyUnpriced(p) == DOMAIN p.decisions = Disputes[p.selected]

(* ready_to_save: every dispute decided and every price resolved.          *)
Ready(p) ==
  /\ DOMAIN p.decisions = Disputes[p.selected]
  /\ \A i \in DOMAIN p.selected : p.selected[i] \notin Unpriced

(* create_converter_draft's payload.                                       *)
SubmissionOf(p, actor) == [key |-> p, created_by |-> actor,
                           lines |-> SelectedLines(p.selected), form |-> "converter_draft_created"]

ASSUME PreviewAssumption ==
  /\ Active \subseteq Staff /\ MaxPending \in Nat \ {0} /\ TTL \in Nat \ {0}
  /\ LinesOf \in [Order -> SUBSET OrderLine \ {{}}]
  /\ Selections \subseteq Seq(Order) \ {<<>>}
  /\ Disputes \in [Selections -> SUBSET Dispute]
  /\ \A p \in Proposal, a \in Staff : SubmissionOf(p, a) \in Submission
  /\ None \notin Proposal

VARIABLES
  accepted,  \* accepted_snapshot_sha256 of the running server
  pending,   \* _pending: from references to proposals and the time they have left
  issued,    \* the references ever issued
  shown,     \* from references to what the running server showed under them (history)
  answer,    \* the last answer of the registry or the service
  served     \* the previews that saved a draft, with the time they had left and what
             \* the server that saved them had shown, None if nothing (history)

registry == <<accepted, pending, issued, shown, answer, served>>
vars == <<drafts, registry>>

Held == [proposal : Proposal, left : 0 .. TTL]
Served == [ref : Ref, left : 0 .. TTL, draft : Draft, shown : Proposal \cup {None}]

(* At most MaxPending previews are held.                                   *)
RegistryTypeOK ==
  /\ TypeOK
  /\ accepted \in Snapshot
  /\ DOMAIN pending \subseteq Ref
  /\ \A r \in DOMAIN pending : pending[r] \in Held
  /\ Cardinality(DOMAIN pending) <= MaxPending
  /\ issued \in SUBSET Ref
  /\ \A r \in DOMAIN shown : shown[r] \in Proposal
  /\ answer \in {"none", "preview", "full", "expired", "refused", "saved"}
  /\ served \in Seq(Served)

-----------------------------------------------------------------------------
Keep(refs) == [r \in refs |-> pending[r]]

(* Mutant of Fresh: an expired preview is kept. *)
FreshOrExpired == DOMAIN pending

(* _prune: expiry <= now goes. *)
Fresh == {r \in DOMAIN pending : pending[r].left > 0}

Full == Cardinality(Fresh) >= MaxPending

Popped(r) == Fresh \ {r}

-----------------------------------------------------------------------------
RegistryInit ==
  /\ Init
  /\ accepted \in Snapshot
  /\ pending = << >>
  /\ issued = {} /\ shown = << >>
  /\ answer = "none"
  /\ served = << >>

(* The monotonic clock moves on. *)
Tick ==
  /\ \E r \in DOMAIN pending : pending[r].left > 0
  /\ pending' = [r \in DOMAIN pending |->
                   [pending[r] EXCEPT !.left = IF @ > 0 THEN @ - 1 ELSE 0]]
  /\ answer' = "none"
  /\ UNCHANGED <<drafts, accepted, issued, shown, served>>

(* Build and issue; a full registry has been pruned all the same. *)
Preview(selected, decisions) ==
  LET p == [snapshot |-> accepted, selected |-> selected, decisions |-> decisions]
  IN /\ DOMAIN decisions \subseteq Disputes[selected]
     /\ \/ Full /\ pending' = Keep(Fresh) /\ answer' = "full" /\ UNCHANGED <<issued, shown>>
        \/ /\ ~Full
           /\ \E r \in Ref \ issued :
                /\ pending' = [s \in Fresh \cup {r} |->
                                 IF s = r THEN [proposal |-> p, left |-> TTL] ELSE pending[s]]
                /\ issued' = issued \cup {r}
                /\ shown' = [s \in DOMAIN shown \cup {r} |-> IF s = r THEN p ELSE shown[s]]
           /\ answer' = "preview"
     /\ UNCHANGED <<drafts, accepted, served>>

(* The preview is consumed before its proposal is validated and saved.     *)
Save(r, actor) ==
  \/ /\ actor \notin Active
     /\ answer' = "refused"
     /\ UNCHANGED <<drafts, accepted, pending, issued, shown, served>>
  \/ /\ actor \in Active /\ r \notin Fresh
     /\ pending' = Keep(Fresh)
     /\ answer' = "expired"
     /\ UNCHANGED <<drafts, accepted, issued, shown, served>>
  \/ /\ actor \in Active /\ r \in Fresh
     /\ pending' = Keep(Popped(r))
     /\ LET s == SubmissionOf(pending[r].proposal, actor)
        IN \/ /\ Ready(s.key)
              /\ Create(s) \/ Replay(s)
              /\ answer' = "saved"
              /\ \E d \in {e \in Draft : submission'[e] # None /\ submission'[e].key = s.key} :
                   served' = Append(served, [ref |-> r, left |-> pending[r].left, draft |-> d,
                                             shown |-> IF r \in DOMAIN shown THEN shown[r] ELSE None])
           \/ /\ answer' = "refused"   \* unready, key mismatch, line held, or no lock
              /\ UNCHANGED <<drafts, served>>
     /\ UNCHANGED <<accepted, issued, shown>>

(* Mutant of Restart: the registry outlives the server. *)
RestartKeeping ==
  /\ accepted' \in Snapshot
  /\ shown' = << >>
  /\ answer' = "none"
  /\ UNCHANGED <<drafts, pending, issued, served>>

(* The server stops and starts: its previews are gone, the drafts are not. *)
Restart ==
  /\ accepted' \in Snapshot
  /\ pending' = << >> /\ shown' = << >>
  /\ answer' = "none"
  /\ UNCHANGED <<drafts, issued, served>>

(* What becomes of the drafts that are saved, by other calls of the store. *)
FollowUp ==
  /\ \/ \E d \in Draft : RecordConflict(d) \/ \E x \in DOMAIN Decisions : RecordStaffDecision(d, x)
     \/ \E c \in conflicts : ResolveConflict(c)
  /\ answer' = "none"
  /\ UNCHANGED <<accepted, pending, issued, shown, served>>

RegistryNext ==
  \/ FollowUp
  \/ Tick \/ Restart
  \/ \E s \in Selections, x \in Decided : Preview(s, x)
  \/ \E r \in issued, a \in Staff : Save(r, a)

RegistrySpec == RegistryInit /\ [][RegistryNext]_vars

-----------------------------------------------------------------------------
(* A preview saves at most one draft, before it expires, and only in the    *)
(* server that showed it.  The draft it saved or found bills the orders,    *)
(* with the decisions and of the snapshot that were shown, whatever becomes *)
(* of that draft later.                                                     *)
ServedOnceAsShown ==
  /\ \A i, j \in DOMAIN served : served[i].ref = served[j].ref => i = j
  /\ \A i \in DOMAIN served :
       /\ served[i].left > 0 /\ served[i].ref \in issued
       /\ served[i].ref \notin DOMAIN pending
       /\ served[i].shown # None
       /\ submission[served[i].draft] # None
       /\ submission[served[i].draft].key = served[i].shown
       /\ submission[served[i].draft].lines = SelectedLines(served[i].shown.selected)

(* "full" is answered only while MaxPending previews could still be saved:  *)
(* expired ones nobody came back for do not use up the capacity.            *)
FullOfLivePreviews ==
  answer = "full" => /\ Cardinality(DOMAIN pending) = MaxPending
                     /\ \A r \in DOMAIN pending : pending[r].left > 0

(* Every draft bills whole orders of one selection, with every dispute of   *)
(* the selection decided and every price resolved, in the name of an active *)
(* member of staff; no order line is billed by two drafts, also when it was *)
(* previewed again under another snapshot, order of selection or decision.  *)
BilledOnceWhenReady ==
  /\ \A d \in Draft : submission[d] # None =>
       /\ Disputes[submission[d].key.selected] \subseteq DOMAIN submission[d].key.decisions
       /\ \A i \in DOMAIN submission[d].key.selected :
            submission[d].key.selected[i] \notin Unpriced
       /\ submission[d].created_by \in Active
  /\ \A d, e \in Draft : d # e /\ submission[d] # None /\ submission[e] # None =>
       submission[d].lines \cap submission[e].lines = {}
=============================================================================
