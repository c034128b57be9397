------------------------------ MODULE Recovery ------------------------------
(***************************************************************************)
(* Recovery of the Core database (apc_core/recovery.py), the routes that   *)
(* ask for it (apc_core/item_explorer.py) and the server whose modules it  *)
(* closes (apc_core/server.py): the live file is replaced by an accepted   *)
(* snapshot or by the generation a restore replaced, and the server        *)
(* restarts.                                                               *)
(*                                                                         *)
(* request_gate and the service's lock let one request run at a time.  A   *)
(* restore is a step for each file operation, with crashes and failures    *)
(* between any two.  Contents of a database file are values, equal when    *)
(* their hashes are; the files that were live are numbered by the switches *)
(* before them.                                                            *)
(***************************************************************************)
EXTENDS Integers, Sequences, Functions

CONSTANTS
  Content,     \* valid contents of a Core database file
  First,       \* what the live file holds at first
  Offered,     \* contents of the files that may be registered
  Damaged,     \* what a damaged file holds
  SnapshotId,  \* snapshot identities
  Module,      \* server modules that hold a connection to the live file
  Eager,       \* those that open it when the server starts; others at first use
  Items,       \* the module whose staff table tells who is an Admin
  None,        \* absent
  MaxSwitches, MaxKept  \* bounds on requests, see Ask

ASSUME ContentAssumption == First \in Content /\ Offered \subseteq Content /\ Damaged \notin Content
ASSUME ModuleAssumption == Eager \subseteq Module /\ Items \in Module
ASSUME NoneAssumption == None \notin SnapshotId \cup Content \cup {Damaged}
ASSUME BoundAssumption == MaxSwitches \in Nat /\ MaxKept \in Nat

VARIABLES
  live,         \* apc_core.sqlite
  known,        \* contents some file ever held
  artifacts,    \* artifacts[c]: what the file accepted-snapshots/<c>.sqlite holds
  accepted,     \* accepted[id]: the hash in accepted_snapshots
  registering,  \* a registration whose artifact is in place and whose row is not
  kept,         \* recovery-generations, in the order of their names
  audit,        \* recovery_audit
  server,       \* the server process
  opened,       \* from the modules with an open connection to the file they opened
  closed,       \* modules whose store was closed and will not be opened again
  step,         \* the next step of the request for recovery
  request,      \* that request
  answer,       \* what the caller of the last one was told
  switches      \* the replacements of the live file (history)

files == <<live, known, artifacts, accepted, registering>>
process == <<server, opened, closed>>
vars == <<files, kept, audit, process, step, request, answer, switches>>

Operations == {"restore", "rollback"}
Switch == [operation : Operations, from : Content, to : Content]

(* prior is the generation to keep or to go back to; at is the switch that  *)
(* is recorded and since the number of switches before the request (both    *)
(* history).                                                                *)
AuditRow == [operation : Operations, prior : Nat, at : Nat]
Request == [operation : Operations, id : SnapshotId \cup {None}, prior : Nat, since : Nat]

TypeOK ==
  /\ live \in Content /\ known \in SUBSET Content
  /\ artifacts \in [Content -> Content \cup {Damaged, None}]
  /\ accepted \in [SnapshotId -> Content \cup {None}]
  /\ registering \in [id : SnapshotId, content : Content] \cup {None}
  /\ kept \in Seq(Content)
  /\ audit \in Seq(AuditRow)
  /\ \A i \in DOMAIN audit : audit[i].prior \in DOMAIN kept
  /\ server \in {"up", "stopping", "down"}
  /\ DOMAIN opened \subseteq Module /\ closed \subseteq Module \ DOMAIN opened
  /\ step \in {"idle", "maintenance", "validate", "backup", "replace", "audit", "answer"}
  /\ request \in Request \cup {None}
  /\ answer \in {"none", "ok", "refused", "lost"}
  /\ switches \in Seq(Switch)

-----------------------------------------------------------------------------
LiveFile == Len(switches)
Serving == server # "down" /\ step = "idle"

Init ==
  /\ live = First /\ known = Offered \cup {First}
  /\ artifacts = [c \in Content |-> None]
  /\ accepted = [i \in SnapshotId |-> None]
  /\ registering = None
  /\ kept = <<>> /\ audit = <<>> /\ switches = <<>>
  /\ server = "down" /\ opened = << >> /\ closed = {}
  /\ step = "idle" /\ request = None /\ answer = "none"

(* register_accepted_snapshot, in a process of its own: the artifact is     *)
(* copied unless it is there, verified, and then its row is inserted.       *)
RegisterArtifact(id, c) ==
  /\ registering = None /\ accepted[id] = None
  /\ artifacts[c] \in {None, c}
  /\ artifacts' = [artifacts EXCEPT ![c] = c]
  /\ registering' = [id |-> id, content |-> c]
  /\ UNCHANGED <<live, known, accepted, kept, audit, process, step, request, answer, switches>>

(* The row, unless its identity or hash is taken, or nothing if the process *)
(* dies before it.                                                          *)
RegisterRow ==
  /\ registering # None
  /\ \/ /\ \A i \in SnapshotId : accepted[i] # registering.content
        /\ accepted[registering.id] = None
        /\ accepted' = [accepted EXCEPT ![registering.id] = registering.content]
     \/ UNCHANGED accepted
  /\ registering' = None
  /\ UNCHANGED <<live, known, artifacts, kept, audit, process, step, request, answer, switches>>

(* A registered file is damaged on disk. *)
Damage(c) ==
  /\ artifacts[c] = c
  /\ artifacts' = [artifacts EXCEPT ![c] = Damaged]
  /\ UNCHANGED <<live, known, accepted, registering, kept, audit, process, step, request, answer, switches>>

-----------------------------------------------------------------------------
(* The supervisor starts the server; eager modules open the live file.      *)
Start ==
  /\ server = "down"
  /\ server' = "up"
  /\ opened' = [m \in Eager |-> LiveFile]
  /\ closed' = {}
  /\ answer' = "none"
  /\ UNCHANGED <<files, kept, audit, step, request, switches>>

(* _local_store: the first request that needs the store opens it.           *)
Open(m) ==
  /\ Serving
  /\ m \notin DOMAIN opened \cup closed
  /\ opened' = [k \in DOMAIN opened \cup {m} |-> IF k = m THEN LiveFile ELSE opened[k]]
  /\ UNCHANGED <<files, kept, audit, server, closed, step, request, answer, switches>>

(* A request changes the file its module has open, live or not.             *)
Write(m) ==
  /\ Serving
  /\ m \in DOMAIN opened
  /\ \E c \in Content \ known :
       /\ known' = known \cup {c}
       /\ live' = IF opened[m] = LiveFile THEN c ELSE live
  /\ UNCHANGED <<artifacts, accepted, registering, kept, audit, process, step, request, answer, switches>>

Down ==
  /\ server' = "down" /\ opened' = << >> /\ closed' = {}
  /\ step' = "idle"
  /\ UNCHANGED <<files, kept, audit, request, answer, switches>>

(* serve_forever returns and the process closes its modules and ends.       *)
Stop == server = "stopping" /\ step = "idle" /\ Down

Crash == server # "down" /\ Down

-----------------------------------------------------------------------------
(* A request is over; its modules stay as they are.  The routes answer a   *)
(* ValueError, which a RecoveryError is, and an error of SQLite alike: the  *)
(* request is "refused".  Of any other error the caller hears nothing: the  *)
(* answer is "lost".                                                        *)
End(outcome) ==
  /\ step' = "idle"
  /\ answer' = outcome
  /\ UNCHANGED <<files, kept, audit, process, request, switches>>

Goto(next) ==
  /\ step' = next
  /\ UNCHANGED <<files, process, answer, audit>>

(* The route reads the roles from the item store, opening it if need be: a  *)
(* caller who is not an Admin is refused, and so is every one when the      *)
(* store is closed or cannot be read.  Bounded for the runs.                *)
Ask(r) ==
  /\ Serving
  /\ Len(switches) < MaxSwitches
  /\ r.operation = "restore" => Len(kept) < MaxKept
  /\ request' = r
  /\ \/ answer' = "refused" /\ UNCHANGED <<opened, step>>
     \/ /\ Items \notin closed
        /\ opened' = [k \in DOMAIN opened \cup {Items} |->
                        IF k \in DOMAIN opened THEN opened[k] ELSE LiveFile]
        /\ step' = "maintenance"
        /\ answer' = "none"
  /\ UNCHANGED <<files, kept, audit, server, closed, switches>>

Requests ==
  [operation : {"restore"}, id : SnapshotId, prior : {0}, since : {Len(switches)}]
  \cup [operation : {"rollback"}, id : {None}, prior : DOMAIN kept, since : {Len(switches)}]

(* Mutant of Maintenance: stores opened on demand are forgotten. *)
CloseEager ==
  /\ step = "maintenance"
  /\ closed' = closed \cup Eager
  /\ opened' = Restrict(opened, DOMAIN opened \ Eager)
  /\ step' = "validate"
  /\ UNCHANGED <<files, kept, audit, server, request, answer, switches>>

(* close_core_modules_for_recovery closes every module, or some of them     *)
(* before one of them raises.                                               *)
Maintenance ==
  /\ step = "maintenance"
  /\ \E S \in SUBSET DOMAIN opened :
       /\ closed' = closed \cup S
       /\ opened' = Restrict(opened, DOMAIN opened \ S)
       /\ \/ S = DOMAIN opened /\ step' = "validate" /\ UNCHANGED answer
          \/ step' = "idle" /\ answer' = "refused"
  /\ UNCHANGED <<files, kept, audit, server, request, switches>>

(* Mutant of Undoable: the operation of the last audit row is not compared. *)
UndoableAnyRow(r) == Len(audit) # 0 /\ audit[Len(audit)].prior = r.prior

(* The last audit row is a restore and its generation is the one confirmed. *)
Undoable(r) ==
  /\ Len(audit) # 0
  /\ audit[Len(audit)].operation = "restore"
  /\ audit[Len(audit)].prior = r.prior

(* Row, artifact and live file of a restore; last audit row of a rollback.  *)
Validate ==
  /\ step = "validate"
  /\ \/ /\ request.operation = "restore"
        /\ \/ /\ accepted[request.id] # None
              /\ artifacts[accepted[request.id]] = accepted[request.id]
              /\ Goto("backup")
              /\ UNCHANGED <<kept, request, switches>>
           \/ /\ accepted[request.id] # None => artifacts[accepted[request.id]] # accepted[request.id]
              /\ End("refused")
     \/ /\ request.operation = "rollback"
        /\ \/ /\ Undoable(request)
              /\ Goto("replace")
              /\ UNCHANGED <<kept, request, switches>>
           \/ ~Undoable(request) /\ End("refused")

(* The live file is copied to a new generation. *)
Backup ==
  /\ step = "backup"
  /\ kept' = Append(kept, live)
  /\ request' = [request EXCEPT !.prior = Len(kept')]
  /\ Goto("replace")
  /\ UNCHANGED switches

Replacement == IF request.operation = "restore" THEN artifacts[accepted[request.id]]
               ELSE kept[request.prior]

Replaced(content) ==
  /\ live' = content
  /\ switches' = Append(switches, [operation |-> request.operation, from |-> live, to |-> content])
  /\ UNCHANGED <<known, artifacts, accepted, registering, kept, audit, process, request>>

(* The replacement is staged, verified and renamed over the live file.      *)
Replace ==
  /\ step = "replace"
  /\ \/ request.operation = "restore" /\ Replacement # accepted[request.id] /\ End("refused")
     \/ /\ request.operation = "restore" => Replacement = accepted[request.id]
        /\ Replaced(Replacement)
        /\ step' = "audit"
        /\ UNCHANGED answer

(* Mutant of Audit: an error of the registry is swallowed. *)
AuditUnlessItFails ==
  /\ step = "audit"
  /\ \/ audit' = Append(audit, [operation |-> request.operation, prior |-> request.prior,
                                at |-> Len(switches)])
     \/ UNCHANGED audit
  /\ step' = "answer"
  /\ UNCHANGED <<files, kept, process, request, answer, switches>>

(* The row that records the switch, inserted after it.                      *)
Audit ==
  /\ step = "audit"
  /\ audit' = Append(audit, [operation |-> request.operation, prior |-> request.prior,
                             at |-> Len(switches)])
  /\ step' = "answer"
  /\ UNCHANGED <<files, kept, process, request, answer, switches>>

(* Mutant of Answer: the server is not told to stop. *)
AnswerOnly == step = "answer" /\ End("ok")

(* The result is sent and then the server is told to stop. *)
Answer ==
  /\ step = "answer"
  /\ step' = "idle" /\ answer' = "ok"
  /\ server' = "stopping"
  /\ UNCHANGED <<files, kept, audit, opened, closed, request, switches>>

(* The file operations and the registry fail either way, whatever was done: *)
(* an error of the registry after the rename is answered like a rejection   *)
(* before it.  Once there is a result, only sending it can fail.            *)
Fail ==
  \/ step \in {"validate", "backup", "replace", "audit"} /\ End("refused")
  \/ step \in {"validate", "backup", "replace", "audit", "answer"} /\ End("lost")

Next ==
  \/ \E i \in SnapshotId, c \in Offered : RegisterArtifact(i, c)
  \/ RegisterRow \/ \E c \in Content : Damage(c)
  \/ Start \/ Stop \/ Crash
  \/ \E m \in Module : Open(m) \/ Write(m)
  \/ \E r \in Requests : Ask(r)
  \/ Maintenance \/ Validate \/ Backup \/ Replace \/ Audit \/ Answer \/ Fail

Spec == Init /\ [][Next]_vars

(* A thread that was started to stop the server does, and the supervisor    *)
(* starts it again.                                                         *)
FairSpec == Spec /\ WF_vars(Stop) /\ WF_vars(Start)

-----------------------------------------------------------------------------
(* Row k is the last audit row of a switch before switch j. *)
LastAudited(k, j) == /\ audit[k].at < j
                     /\ \A i \in DOMAIN audit : audit[i].at < j => i <= k

(* Whatever failed or crashed before, a restore replaces a live file that   *)
(* is kept as a generation by an accepted snapshot, and a rollback gives    *)
(* back exactly what the last restore on record replaced.                   *)
SwitchesAreTraced ==
  \A j \in DOMAIN switches :
    /\ switches[j].operation = "restore" =>
         /\ \E k \in DOMAIN kept : kept[k] = switches[j].from
         /\ \E i \in SnapshotId : accepted[i] = switches[j].to
    /\ switches[j].operation = "rollback" =>
         \E k \in DOMAIN audit : /\ LastAudited(k, j)
                                 /\ audit[k].operation = "restore"
                                 /\ switches[audit[k].at].from = switches[j].to

(* "no Core SQLite connection survives a generation switch" (server.py,     *)
(* close_core_modules_for_recovery): whatever is opened on demand or fails  *)
(* to close, no module writes to a file that is no longer the live one.     *)
NoConnectionSurvives == \A m \in DOMAIN opened : opened[m] = LiveFile

(* The switch the request asked for was made, and the last row records it.  *)
Recorded ==
  /\ Len(switches) = request.since + 1
  /\ switches[Len(switches)].operation = request.operation
  /\ Len(audit) # 0
  /\ audit[Len(audit)] = [operation |-> request.operation, prior |-> request.prior,
                          at |-> Len(switches)]

(* No row records a switch that the request made, if it made one.           *)
Unrecorded ==
  /\ Len(switches) \in {request.since, request.since + 1}
  /\ \A i \in DOMAIN audit : audit[i].at <= request.since

(* What the caller is told is what is on record, whatever failed: after a   *)
(* result, the switch asked for is the last one and the one a rollback      *)
(* would go by; after a refusal, no row records a switch of that request.   *)
(* A refusal does not say that the live file is the same: it is also what   *)
(* the caller is told when the row could not be inserted after the rename.  *)
AnsweredAsRecorded ==
  /\ answer = "ok" => Recorded
  /\ answer = "refused" => Unrecorded

(* "require supervisor restart" (prepare_restore): after a switch that was  *)
(* answered, the server serves again with all its modules.                  *)
RestartFollows == answer = "ok" ~> server = "up" /\ closed = {}

(* "Rollback latest restore" (panel_html): a rollback right after a restore *)
(* gives back what that restore replaced.                                   *)
RollsBackLatestRestore ==
  \A j \in DOMAIN switches :
    switches[j].operation = "rollback" /\ j > 1 /\ switches[j - 1].operation = "restore" =>
      switches[j].to = switches[j - 1].from
=============================================================================
