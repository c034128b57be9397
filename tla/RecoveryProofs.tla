--------------------------- MODULE RecoveryProofs ---------------------------
(***************************************************************************)
(* What recovery guarantees for any number of snapshots, contents,         *)
(* modules, restores, rollbacks, crashes and failures.  The inductive      *)
(* invariant adds to the properties what a request in progress may rely    *)
(* on, and what the rows of the audit say of the switches.                 *)
(***************************************************************************)
EXTENDS Recovery, SequenceTheorems, TLAPS

Restoring == request.operation = "restore"
RollingBack == request.operation = "rollback"

(* A request in progress is a request to a running server. *)
Progress ==
  step # "idle" =>
    /\ request \in Request /\ server # "down" /\ answer = "none"
    /\ Restoring => request.id \in SnapshotId
    /\ RollingBack => request.prior \in DOMAIN kept

(* Up to the rename nothing is switched. *)
NotSwitched ==
  step \in {"maintenance", "validate", "backup", "replace"} => Len(switches) = request.since

(* From maintenance on no connection is open. *)
AllClosed ==
  step \in {"validate", "backup", "replace", "audit", "answer"} => DOMAIN opened = {}

(* What validation and the backup found still holds when it is used. *)
Validated ==
  /\ step \in {"backup", "replace", "audit"} /\ Restoring => accepted[request.id] # None
  /\ step = "backup" => Restoring
  /\ step = "replace" /\ Restoring => /\ request.prior \in DOMAIN kept
                                      /\ kept[request.prior] = live
  /\ step = "replace" /\ RollingBack => Undoable(request)

(* After the rename the last switch is the one to be recorded. *)
ToRecord ==
  step = "audit" => /\ Len(switches) # 0
                    /\ request.prior \in DOMAIN kept
                    /\ Restoring => switches[Len(switches)].from = kept[request.prior]

(* The rows of the audit are those of earlier requests until this one has   *)
(* switched the file and inserted its own.                                  *)
OnRecord ==
  /\ step \in {"maintenance", "validate", "backup", "replace", "audit"} =>
       \A i \in DOMAIN audit : audit[i].at <= request.since
  /\ step = "audit" => /\ Len(switches) = request.since + 1
                       /\ switches[Len(switches)].operation = request.operation
  /\ step = "answer" => Recorded

(* A row of a restore names the generation that its switch replaced. *)
AuditIsTrue ==
  \A i \in DOMAIN audit :
    /\ audit[i].at \in DOMAIN switches
    /\ audit[i].operation = "restore" => switches[audit[i].at].from = kept[audit[i].prior]

IInv == /\ TypeOK
        /\ Progress /\ NotSwitched /\ AllClosed /\ Validated /\ ToRecord
        /\ OnRecord /\ AuditIsTrue
        /\ SwitchesAreTraced /\ NoConnectionSurvives /\ AnsweredAsRecorded

-----------------------------------------------------------------------------
(* A sequence with one more element. *)
LEMMA Longer ==
  ASSUME NEW S, NEW s \in Seq(S), NEW e \in S
  PROVE  /\ Append(s, e) \in Seq(S)
         /\ DOMAIN s = 1 .. Len(s) /\ Len(s) \in Nat
         /\ Len(Append(s, e)) = Len(s) + 1
         /\ DOMAIN Append(s, e) = DOMAIN s \cup {Len(s) + 1}
         /\ Len(s) + 1 \notin DOMAIN s
         /\ \A i \in DOMAIN s : Append(s, e)[i] = s[i]
         /\ Append(s, e)[Len(s) + 1] = e
  BY AppendProperties, LenProperties

(* Before the first start nothing was asked. *)
LEMMA InitInvariant == Init => IInv
<1> SUFFICES ASSUME Init PROVE IInv
  OBVIOUS
<1>1. DOMAIN audit = {} /\ DOMAIN switches = {} /\ DOMAIN opened = {}
  BY DEF Init
<1>2. TypeOK
  <2>1. kept \in Seq(Content) /\ audit \in Seq(AuditRow) /\ switches \in Seq(Switch)
    BY DEF Init
  <2>2. /\ live \in Content /\ known \in SUBSET Content
        /\ artifacts \in [Content -> Content \cup {Damaged, None}]
        /\ accepted \in [SnapshotId -> Content \cup {None}]
    BY ContentAssumption DEF Init
  <2> QED
    BY <1>1, <2>1, <2>2 DEF Init, TypeOK
<1>3. /\ Progress /\ NotSwitched /\ AllClosed /\ Validated /\ ToRecord
      /\ OnRecord /\ AnsweredAsRecorded
  BY DEF Init, Progress, NotSwitched, AllClosed, Validated, ToRecord, OnRecord, AnsweredAsRecorded
<1>4. AuditIsTrue /\ SwitchesAreTraced /\ NoConnectionSurvives
  BY <1>1 DEF AuditIsTrue, SwitchesAreTraced, NoConnectionSurvives
<1> QED
  BY <1>2, <1>3, <1>4 DEF IInv

-----------------------------------------------------------------------------
(* The switch of a restore is to an accepted snapshot, that of a rollback   *)
(* to a generation; both are valid contents.                                *)
LEMMA Switched ==
  ASSUME IInv, Replace, step' = "audit"
  PROVE  /\ request \in Request
         /\ Replaced(Replacement) /\ Replacement \in Content
         /\ [operation |-> request.operation, from |-> live, to |-> Replacement] \in Switch
         /\ Restoring => Replacement = accepted[request.id] /\ request.id \in SnapshotId
         /\ RollingBack => Replacement = kept[request.prior] /\ Undoable(request)
<1>1. /\ step = "replace" /\ Replaced(Replacement)
      /\ Restoring => Replacement = accepted[request.id]
  BY DEF Replace, End, Restoring
<1>2. /\ request \in Request /\ request.operation \in Operations
      /\ Restoring => request.id \in SnapshotId /\ accepted[request.id] # None
      /\ RollingBack => request.prior \in DOMAIN kept /\ Undoable(request)
  BY <1>1 DEF IInv, Progress, Validated, Request
<1>3. CASE Restoring
  <2>1. Replacement \in Content
    BY <1>1, <1>2, <1>3 DEF IInv, TypeOK
  <2> QED
    BY <1>1, <1>2, <1>3, <2>1 DEF Switch, IInv, TypeOK, Restoring, RollingBack
<1>4. CASE RollingBack
  <2>1. Replacement = kept[request.prior]
    BY <1>4 DEF Replacement, RollingBack
  <2>2. kept[request.prior] \in Content
    BY <1>2, <1>4 DEF IInv, TypeOK
  <2> QED
    BY <1>1, <1>2, <1>4, <2>1, <2>2 DEF Switch, IInv, TypeOK, Restoring, RollingBack
<1> QED
  BY <1>2, <1>3, <1>4 DEF Operations, Restoring, RollingBack

(* The only steps that change what is accepted, kept, recorded or switched, *)
(* and how.                                                                 *)
Accepts ==
  /\ \E r \in [id : SnapshotId, content : Content] :
       /\ accepted[r.id] = None
       /\ accepted' = [accepted EXCEPT ![r.id] = r.content]
  /\ UNCHANGED <<live, kept, audit, step, request, switches>>

Keeps == /\ step = "backup" /\ step' = "replace"
         /\ kept' = Append(kept, live)
         /\ request' = [request EXCEPT !.prior = Len(kept')]
         /\ UNCHANGED <<live, accepted, audit, switches>>

Switches == /\ Replace /\ step' = "audit"
            /\ UNCHANGED <<accepted, kept, audit, request>>

Records == Audit /\ UNCHANGED <<live, accepted, kept, request, switches>>

(* Every other step leaves those tables alone. *)
LEMMA TablesStep ==
  ASSUME TypeOK, [Next]_vars
  PROVE  \/ Accepts \/ Keeps \/ Switches \/ Records
         \/ UNCHANGED <<accepted, kept, audit, switches>>
<1> USE DEF TypeOK
<1>1. ASSUME NEW i \in SnapshotId, NEW c \in Offered, RegisterArtifact(i, c)
      PROVE  UNCHANGED <<accepted, kept, audit, switches>>
  BY <1>1 DEF RegisterArtifact
<1>2. ASSUME RegisterRow PROVE Accepts \/ UNCHANGED <<accepted, kept, audit, switches>>
  BY <1>2 DEF RegisterRow, Accepts
<1>3. ASSUME \/ \E c \in Content : Damage(c)
             \/ Start \/ Stop \/ Crash
             \/ \E m \in Module : Open(m) \/ Write(m)
             \/ \E r \in Requests : Ask(r)
             \/ Maintenance \/ Answer \/ Fail \/ UNCHANGED vars
      PROVE  UNCHANGED <<accepted, kept, audit, switches>>
  BY <1>3 DEF Damage, Start, Stop, Crash, Down, Open, Write, Ask, Maintenance, Answer, Fail,
              End, files, vars
<1>4. ASSUME Validate PROVE UNCHANGED <<accepted, kept, audit, switches>>
  BY <1>4 DEF Validate, Goto, End, files
<1>5. ASSUME Backup PROVE Keeps
  BY <1>5 DEF Backup, Keeps, Goto, files
<1>6. ASSUME Replace PROVE Switches \/ UNCHANGED <<accepted, kept, audit, switches>>
  BY <1>6 DEF Replace, Switches, Replaced, End, files
<1>7. ASSUME Audit PROVE Records
  BY <1>7 DEF Audit, Records, files
<1> QED
  BY <1>1, <1>2, <1>3, <1>4, <1>5, <1>6, <1>7 DEF Next

-----------------------------------------------------------------------------
(* What a request in progress relies on: nothing changes the live file,     *)
(* opens a connection or makes a rival request while it runs.               *)
LEMMA ProgressStep ==
  ASSUME IInv, [Next]_vars
  PROVE  /\ Progress' /\ NotSwitched' /\ AllClosed' /\ Validated' /\ ToRecord'
         /\ NoConnectionSurvives'
<1> DEFINE Goal == /\ Progress' /\ NotSwitched' /\ AllClosed' /\ Validated' /\ ToRecord'
                   /\ NoConnectionSurvives'
<1> USE DEF Progress, NotSwitched, AllClosed, Validated, ToRecord,
            NoConnectionSurvives, LiveFile, Undoable, Restoring, RollingBack, files, process
<1>0. /\ TypeOK /\ Progress /\ NotSwitched /\ AllClosed /\ Validated /\ ToRecord
      /\ NoConnectionSurvives
  BY DEF IInv
<1>1. ASSUME NEW i \in SnapshotId, NEW c \in Offered, RegisterArtifact(i, c) PROVE Goal
  BY <1>0, <1>1 DEF RegisterArtifact
<1>2. ASSUME RegisterRow PROVE Goal
  <2>1. \A i \in SnapshotId : accepted[i] # None => accepted'[i] = accepted[i]
    BY <1>0, <1>2 DEF RegisterRow, TypeOK
  <2>2. UNCHANGED <<live, kept, audit, process, step, request, answer, switches>>
    BY <1>2 DEF RegisterRow
  <2> QED
    BY <1>0, <2>1, <2>2
<1>3. ASSUME NEW c \in Content, Damage(c) PROVE Goal
  BY <1>0, <1>3 DEF Damage
<1>4. ASSUME Start PROVE Goal
  BY <1>0, <1>4 DEF Start
<1>5. ASSUME NEW m \in Module, Open(m) PROVE Goal
  BY <1>0, <1>5 DEF Open, Serving
<1>6. ASSUME NEW m \in Module, Write(m) PROVE Goal
  BY <1>0, <1>6 DEF Write, Serving
<1>7. ASSUME Stop \/ Crash PROVE Goal
  BY <1>0, <1>7 DEF Stop, Crash, Down
<1>8. ASSUME NEW r \in Requests, Ask(r) PROVE Goal
  <2>1. /\ r \in Request /\ r.since = Len(switches)
        /\ r.operation = "restore" => r.id \in SnapshotId
        /\ r.operation = "rollback" => r.prior \in DOMAIN kept
    <3>1. DOMAIN kept \subseteq Nat /\ Len(switches) \in Nat
      BY <1>0 DEF TypeOK
    <3> QED
      BY <3>1 DEF Requests, Request, Operations
  <2> QED
    BY <1>0, <1>8, <2>1 DEF Ask, End, Serving
<1>9. ASSUME Maintenance PROVE Goal
  BY <1>0, <1>9 DEF Maintenance, Restrict
<1>10. ASSUME Validate PROVE Goal
  BY <1>0, <1>10 DEF Validate, Goto, End
<1>11. ASSUME Backup PROVE Goal
  <2>1. /\ kept' = Append(kept, live) /\ request' = [request EXCEPT !.prior = Len(kept')]
        /\ step = "backup" /\ step' = "replace"
        /\ UNCHANGED <<files, process, answer, audit, switches>>
    BY <1>11 DEF Backup, Goto
  <2>2. /\ Len(kept') \in DOMAIN kept' /\ Len(kept') \in Nat
        /\ kept'[Len(kept')] = live
    BY <1>0, <2>1, Longer DEF TypeOK
  <2>3. /\ request' \in Request /\ request'.operation = "restore"
        /\ request'.id = request.id /\ request'.since = request.since
        /\ request'.prior = Len(kept')
    BY <1>0, <2>1, <2>2 DEF Request
  <2> QED
    BY <1>0, <2>1, <2>2, <2>3
<1>12. ASSUME Replace PROVE Goal
  <2>1. CASE step' # "audit"
    BY <1>0, <1>12, <2>1 DEF Replace, End
  <2>2. CASE step' = "audit"
    <3>1. /\ Replaced(Replacement) /\ request \in Request
          /\ [operation |-> request.operation, from |-> live, to |-> Replacement] \in Switch
      BY <1>12, <2>2, Switched
    <3>2. /\ Len(switches') # 0
          /\ switches'[Len(switches')].from = live
      BY <1>0, <3>1, Longer DEF TypeOK, Replaced
    <3>3. step = "replace" /\ UNCHANGED <<kept, audit, process, request, answer>>
      BY <1>12, <2>2 DEF Replace, Replaced, End
    <3>4. request.prior \in DOMAIN kept
      BY <1>0, <3>1, <3>3 DEF Request, Operations
    <3> QED
      BY <1>0, <2>2, <3>1, <3>2, <3>3, <3>4 DEF Replaced
  <2> QED
    BY <2>1, <2>2
<1>13. ASSUME Audit PROVE Goal
  BY <1>0, <1>13 DEF Audit
<1>14. ASSUME Answer PROVE Goal
  BY <1>0, <1>14 DEF Answer
<1>15. ASSUME Fail PROVE Goal
  BY <1>0, <1>15 DEF Fail, End
<1>16. ASSUME UNCHANGED vars PROVE Goal
  BY <1>0, <1>16 DEF vars
<1> QED
  BY <1>1, <1>2, <1>3, <1>4, <1>5, <1>6, <1>7, <1>8, <1>9, <1>10, <1>11, <1>12, <1>13, <1>14,
     <1>15, <1>16 DEF Next

-----------------------------------------------------------------------------
(* What the audit and the answer say of the request in progress: a request  *)
(* starts after every row, the rename adds one switch, the row is inserted  *)
(* next, and only then is there a result to send.                           *)
LEMMA RecordStep ==
  ASSUME IInv, [Next]_vars
  PROVE  OnRecord' /\ AnsweredAsRecorded'
<1> DEFINE Goal == OnRecord' /\ AnsweredAsRecorded'
<1>0. TypeOK /\ Progress /\ NotSwitched /\ OnRecord /\ AnsweredAsRecorded
  BY DEF IInv
<1> USE DEF NotSwitched, OnRecord, AnsweredAsRecorded
<1>1. ASSUME \/ \E i \in SnapshotId, c \in Offered : RegisterArtifact(i, c)
             \/ RegisterRow \/ \E c \in Content : Damage(c)
             \/ \E m \in Module : Open(m) \/ Write(m)
             \/ UNCHANGED vars
      PROVE  Goal
  <2>1. UNCHANGED <<audit, step, request, answer, switches>>
    BY <1>1 DEF RegisterArtifact, RegisterRow, Damage, Open, Write, vars
  <2> QED
    BY <1>0, <2>1 DEF Recorded, Unrecorded
<1>2. ASSUME Start \/ Stop \/ Crash PROVE Goal
  <2>1. /\ UNCHANGED <<audit, request, switches>>
        /\ step' = "idle" \/ UNCHANGED step
        /\ answer' = "none" \/ UNCHANGED answer
    BY <1>2 DEF Start, Stop, Crash, Down
  <2> QED
    BY <1>0, <2>1 DEF Recorded, Unrecorded
<1>3. ASSUME NEW r \in Requests, Ask(r) PROVE Goal
  <2>1. /\ request' = r /\ r.since = Len(switches) /\ UNCHANGED <<audit, switches>>
        /\ step' \in {"idle", "maintenance"} /\ answer' \in {"refused", "none"}
    BY <1>3 DEF Ask, Requests, Serving
  <2>2. Len(switches) \in Nat /\ DOMAIN switches = 1 .. Len(switches)
    BY <1>0 DEF TypeOK
  <2>3. \A i \in DOMAIN audit : audit[i].at <= Len(switches)
    BY <2>2 DEF IInv, AuditIsTrue
  <2> QED
    BY <2>1, <2>2, <2>3 DEF Unrecorded
<1>4. ASSUME \/ Maintenance \/ Validate \/ Backup
             \/ Replace /\ step' = "idle"
      PROVE  Goal
  <2>1. /\ step \in {"maintenance", "validate", "backup", "replace"}
        /\ step' \in {"idle", "validate", "backup", "replace"}
        /\ UNCHANGED <<audit, switches>> /\ request'.since = request.since
        /\ answer' = "refused" \/ UNCHANGED answer
    <3>1. request \in Request \/ step = "idle"
      BY <1>0 DEF Progress
    <3> QED
      BY <1>4, <3>1 DEF Maintenance, Validate, Backup, Replace, Goto, End, Request
  <2>2. answer = "none" /\ Len(switches) = request.since
    BY <1>0, <2>1 DEF Progress
  <2> QED
    BY <1>0, <2>1, <2>2 DEF Unrecorded
<1>5. ASSUME Replace, step' # "idle" PROVE Goal
  <2>1. step = "replace" /\ step' = "audit" /\ UNCHANGED <<request, answer, audit>>
    BY <1>5 DEF Replace, Replaced, End
  <2>2. /\ [operation |-> request.operation, from |-> live, to |-> Replacement] \in Switch
        /\ Replaced(Replacement)
    BY <1>5, <2>1, Switched
  <2>3. Len(switches') = Len(switches) + 1 /\ switches'[Len(switches')].operation = request.operation
    BY <1>0, <2>2, Longer DEF TypeOK, Replaced
  <2> QED
    BY <1>0, <2>1, <2>3 DEF Progress
<1>6. ASSUME Audit PROVE Goal
  <2> DEFINE row == [operation |-> request.operation, prior |-> request.prior,
                     at |-> Len(switches)]
  <2>1. /\ step = "audit" /\ step' = "answer" /\ audit' = Append(audit, row)
        /\ UNCHANGED <<request, answer, switches>>
    BY <1>6 DEF Audit
  <2>2. row \in AuditRow
    BY <1>0, <2>1 DEF Progress, TypeOK, Request, AuditRow
  <2>3. Len(audit') # 0 /\ audit'[Len(audit')] = row
    <3> HIDE DEF row
    <3> QED
      BY <1>0, <2>1, <2>2, Longer DEF TypeOK
  <2>4. Recorded'
    BY <1>0, <2>1, <2>3 DEF Recorded
  <2> QED
    BY <1>0, <2>1, <2>4 DEF Progress
<1>7. ASSUME Answer PROVE Goal
  BY <1>0, <1>7 DEF Answer, Recorded
<1>8. ASSUME Fail PROVE Goal
  <2>1. /\ UNCHANGED <<audit, request, switches>> /\ step' = "idle"
        /\ \/ answer' = "lost"
           \/ answer' = "refused" /\ step \in {"validate", "backup", "replace", "audit"}
    BY <1>8 DEF Fail, End
  <2> QED
    BY <1>0, <2>1 DEF Unrecorded
<1>9. Goal
  <2> HIDE DEF Goal
  <2> QED
    BY <1>1, <1>2, <1>3, <1>4, <1>5, <1>6, <1>7, <1>8 DEF Next
<1> QED
  BY <1>9

-----------------------------------------------------------------------------
(* Every step keeps the types; what becomes live is a valid content.        *)
LEMMA TypeStep ==
  ASSUME IInv, [Next]_vars
  PROVE  TypeOK'
<1>0. TypeOK /\ Progress /\ Validated /\ ToRecord
  BY DEF IInv
<1> USE DEF TypeOK
<1>1. ASSUME NEW i \in SnapshotId, NEW c \in Offered, RegisterArtifact(i, c) PROVE TypeOK'
  BY <1>0, <1>1, ContentAssumption DEF RegisterArtifact, process
<1>2. ASSUME RegisterRow PROVE TypeOK'
  BY <1>0, <1>2 DEF RegisterRow, process
<1>3. ASSUME NEW c \in Content, Damage(c) PROVE TypeOK'
  BY <1>0, <1>3 DEF Damage, process
<1>4. ASSUME Start PROVE TypeOK'
  BY <1>0, <1>4, ModuleAssumption DEF Start, files
<1>5. ASSUME NEW m \in Module, Open(m) PROVE TypeOK'
  BY <1>0, <1>5 DEF Open, files
<1>6. ASSUME NEW m \in Module, Write(m) PROVE TypeOK'
  BY <1>0, <1>6 DEF Write, process
<1>7. ASSUME Stop \/ Crash PROVE TypeOK'
  BY <1>0, <1>7 DEF Stop, Crash, Down, files
<1>8. ASSUME NEW r \in Requests, Ask(r) PROVE TypeOK'
  <2>1. r \in Request
    <3>1. DOMAIN kept \subseteq Nat /\ Len(switches) \in Nat
      BY <1>0
    <3> QED
      BY <3>1 DEF Requests, Request, Operations
  <2> QED
    BY <1>0, <1>8, <2>1, ModuleAssumption DEF Ask, End, files, process
<1>9. ASSUME Maintenance PROVE TypeOK'
  BY <1>0, <1>9 DEF Maintenance, Restrict, files
<1>10. ASSUME Validate PROVE TypeOK'
  BY <1>0, <1>10 DEF Validate, Goto, End, files, process
<1>11. ASSUME Backup PROVE TypeOK'
  <2>1. /\ kept' \in Seq(Content) /\ DOMAIN kept \subseteq DOMAIN kept' /\ Len(kept') \in Nat
    BY <1>0, <1>11, Longer DEF Backup
  <2>2. request' \in Request
    BY <1>0, <1>11, <2>1 DEF Backup, Progress, Request
  <2> QED
    BY <1>0, <1>11, <2>1, <2>2 DEF Backup, Goto, files, process
<1>12. ASSUME Replace PROVE TypeOK'
  <2>1. CASE step' # "audit"
    BY <1>0, <1>12, <2>1 DEF Replace, End, files, process
  <2>2. CASE step' = "audit"
    <3>1. /\ Replaced(Replacement) /\ Replacement \in Content
          /\ [operation |-> request.operation, from |-> live, to |-> Replacement] \in Switch
      BY <1>12, <2>2, Switched
    <3>2. switches' \in Seq(Switch)
      BY <1>0, <3>1, Longer DEF Replaced
    <3>3. UNCHANGED answer
      BY <1>12, <2>2 DEF Replace, End
    <3>4. /\ live' \in Content
          /\ UNCHANGED <<known, artifacts, accepted, registering, kept, audit, server, opened,
                         closed, request, answer>>
      BY <3>1, <3>3 DEF Replaced, process
    <3> QED
      BY <1>0, <2>2, <3>2, <3>4
  <2> QED
    BY <2>1, <2>2
<1>13. ASSUME Audit PROVE TypeOK'
  <2> DEFINE row == [operation |-> request.operation, prior |-> request.prior,
                     at |-> Len(switches)]
  <2>1. row \in AuditRow /\ row.prior \in DOMAIN kept
    BY <1>0, <1>13 DEF Audit, Progress, ToRecord, Request, AuditRow
  <2>2. audit' = Append(audit, row)
    BY <1>13 DEF Audit
  <2>3. audit' \in Seq(AuditRow) /\ \A i \in DOMAIN audit' : audit'[i].prior \in DOMAIN kept
    <3> HIDE DEF row
    <3>1. /\ audit' \in Seq(AuditRow) /\ DOMAIN audit' = DOMAIN audit \cup {Len(audit) + 1}
          /\ audit'[Len(audit) + 1] = row /\ \A i \in DOMAIN audit : audit'[i] = audit[i]
      BY <1>0, <2>1, <2>2, Longer
    <3> QED
      BY <1>0, <2>1, <3>1
  <2> QED
    BY <1>0, <1>13, <2>3 DEF Audit, files, process
<1>14. ASSUME Answer PROVE TypeOK'
  BY <1>0, <1>14 DEF Answer, files
<1>15. ASSUME Fail PROVE TypeOK'
  BY <1>0, <1>15 DEF Fail, End, files, process
<1>16. ASSUME UNCHANGED vars PROVE TypeOK'
  BY <1>0, <1>16 DEF vars, files, process
<1> QED
  BY <1>1, <1>2, <1>3, <1>4, <1>5, <1>6, <1>7, <1>8, <1>9, <1>10, <1>11, <1>12, <1>13, <1>14,
     <1>15, <1>16 DEF Next

-----------------------------------------------------------------------------
(* A row is inserted after its switch, and names what the switch replaced.  *)
LEMMA AuditStep ==
  ASSUME IInv, [Next]_vars
  PROVE  AuditIsTrue'
<1>0. TypeOK /\ AuditIsTrue /\ ToRecord
  BY DEF IInv
<1> USE DEF TypeOK, AuditIsTrue
<1>1. CASE Accepts \/ UNCHANGED <<accepted, kept, audit, switches>>
  BY <1>0, <1>1 DEF Accepts
<1>2. CASE Keeps
  <2>1. \A k \in DOMAIN kept : kept'[k] = kept[k]
    BY <1>0, <1>2, Longer DEF Keeps
  <2>2. UNCHANGED <<audit, switches>>
    BY <1>2 DEF Keeps
  <2> QED
    BY <1>0, <2>1, <2>2
<1>3. CASE Switches
  <2>1. \A j \in DOMAIN switches : j \in DOMAIN switches' /\ switches'[j] = switches[j]
    BY <1>0, <1>3, Switched, Longer DEF Switches, Replaced
  <2>2. UNCHANGED <<audit, kept>>
    BY <1>3 DEF Switches
  <2> QED
    BY <1>0, <2>1, <2>2
<1>4. CASE Records
  <2> DEFINE row == [operation |-> request.operation, prior |-> request.prior,
                     at |-> Len(switches)]
  <2>1. /\ row.at \in DOMAIN switches
        /\ row.operation = "restore" => switches[row.at].from = kept[row.prior]
    BY <1>0, <1>4 DEF Records, Audit, ToRecord, Restoring
  <2>2. row \in AuditRow
    BY <1>0, <1>4 DEF Records, Audit, Progress, Request, AuditRow, IInv
  <2>3. audit' = Append(audit, row) /\ UNCHANGED <<kept, switches>>
    BY <1>4 DEF Records, Audit
  <2> HIDE DEF row
  <2> QED
    BY <1>0, <2>1, <2>2, <2>3, Longer
<1> QED
  BY <1>0, <1>1, <1>2, <1>3, <1>4, TablesStep

(* What traces a switch stays: generations and accepted snapshots are never *)
(* removed, and a row inserted later belongs to a later switch.             *)
LEMMA TraceStep ==
  ASSUME IInv, [Next]_vars
  PROVE  SwitchesAreTraced'
<1>0. TypeOK /\ AuditIsTrue /\ ToRecord /\ SwitchesAreTraced
  BY DEF IInv
<1> USE DEF TypeOK
<1>1. CASE UNCHANGED <<accepted, kept, audit, switches>>
  BY <1>0, <1>1 DEF SwitchesAreTraced, LastAudited
<1>2. CASE Accepts
  <2>1. \A i \in SnapshotId : accepted[i] # None => accepted'[i] = accepted[i]
    BY <1>0, <1>2 DEF Accepts
  <2>2. \A j \in DOMAIN switches : switches[j].to # None
    <3>1. \A j \in DOMAIN switches : switches[j] \in Switch
      BY <1>0
    <3>2. None \notin Content
      BY NoneAssumption
    <3> QED
      BY <3>1, <3>2 DEF Switch
  <2>3. UNCHANGED <<kept, audit, switches>>
    BY <1>2 DEF Accepts
  <2>4. ASSUME NEW j \in DOMAIN switches, switches[j].operation = "restore"
        PROVE  \E i \in SnapshotId : accepted'[i] = switches[j].to
    BY <1>0, <2>1, <2>2, <2>4 DEF SwitchesAreTraced
  <2>5. \A k, j : LastAudited(k, j)' <=> LastAudited(k, j)
    BY <2>3 DEF LastAudited
  <2> QED
    BY <1>0, <2>3, <2>4, <2>5 DEF SwitchesAreTraced
<1>3. CASE Keeps
  <2>1. \A k \in DOMAIN kept : k \in DOMAIN kept' /\ kept'[k] = kept[k]
    BY <1>0, <1>3, Longer DEF Keeps
  <2>2. UNCHANGED <<accepted, audit, switches>>
    BY <1>3 DEF Keeps
  <2> QED
    BY <1>0, <2>1, <2>2 DEF SwitchesAreTraced, LastAudited
<1>4. CASE Switches
  <2> DEFINE new == [operation |-> request.operation, from |-> live, to |-> Replacement]
             j0 == Len(switches) + 1
  <2>1. /\ request \in Request /\ Replacement \in Content /\ new \in Switch
        /\ Restoring => Replacement = accepted[request.id] /\ request.id \in SnapshotId
        /\ RollingBack => Replacement = kept[request.prior] /\ Undoable(request)
        /\ switches' = Append(switches, new)
    BY <1>4, Switched DEF Switches, Replaced
  <2>2. UNCHANGED <<accepted, kept, audit>>
    BY <1>4 DEF Switches
  <2>3. /\ DOMAIN switches' = DOMAIN switches \cup {j0} /\ switches'[j0] = new
        /\ \A j \in DOMAIN switches : switches'[j] = switches[j]
        /\ \A j \in DOMAIN switches : j < j0
    <3> HIDE DEF new
    <3> QED
      BY <1>0, <2>1, Longer
  <2>4. ASSUME NEW j \in DOMAIN switches
        PROVE  /\ switches'[j].operation = "restore" =>
                     /\ \E k \in DOMAIN kept : kept[k] = switches'[j].from
                     /\ \E i \in SnapshotId : accepted[i] = switches'[j].to
               /\ switches'[j].operation = "rollback" =>
                     \E k \in DOMAIN audit : /\ LastAudited(k, j)
                                             /\ audit[k].operation = "restore"
                                             /\ switches'[audit[k].at].from = switches'[j].to
    <3>1. switches'[j] = switches[j] /\ \A k \in DOMAIN audit : switches'[audit[k].at] = switches[audit[k].at]
      BY <1>0, <2>3 DEF AuditIsTrue
    <3> HIDE DEF new, j0
    <3> QED
      BY <1>0, <3>1 DEF SwitchesAreTraced
  <2>5. new.operation = "restore" => /\ \E k \in DOMAIN kept : kept[k] = new.from
                                     /\ \E i \in SnapshotId : accepted[i] = new.to
    BY <1>4, <2>1 DEF Switches, Replace, Restoring, IInv, Validated
  <2>6. ASSUME new.operation = "rollback"
        PROVE  \E k \in DOMAIN audit : /\ LastAudited(k, j0)
                                       /\ audit[k].operation = "restore"
                                       /\ switches'[audit[k].at].from = new.to
    <3> DEFINE k == Len(audit)
    <3>1. /\ k \in DOMAIN audit /\ audit[k].operation = "restore"
          /\ audit[k].prior = request.prior /\ Replacement = kept[request.prior]
      BY <1>0, <2>1, <2>6 DEF Undoable, RollingBack
    <3>2. audit[k].at \in DOMAIN switches /\ switches[audit[k].at].from = kept[audit[k].prior]
      BY <1>0, <3>1 DEF AuditIsTrue
    <3>3. LastAudited(k, j0)
      BY <1>0, <2>3, <3>2 DEF LastAudited
    <3> QED
      BY <2>3, <3>1, <3>2, <3>3
  <2>7. \A k, j : LastAudited(k, j)' <=> LastAudited(k, j)
    BY <2>2 DEF LastAudited
  <2> HIDE DEF new, j0
  <2> QED
    BY <2>2, <2>3, <2>4, <2>5, <2>6, <2>7 DEF SwitchesAreTraced
<1>5. CASE Records
  <2> DEFINE row == [operation |-> request.operation, prior |-> request.prior,
                     at |-> Len(switches)]
  <2>1. row \in AuditRow /\ row.at = Len(switches)
    BY <1>0, <1>5 DEF Records, Audit, Progress, Request, AuditRow, IInv
  <2>2. audit' = Append(audit, row) /\ UNCHANGED <<accepted, kept, switches>>
    BY <1>5 DEF Records, Audit
  <2> HIDE DEF row
  <2>3. /\ DOMAIN audit' = DOMAIN audit \cup {Len(audit) + 1}
        /\ audit'[Len(audit) + 1].at = Len(switches)
        /\ \A i \in DOMAIN audit : audit'[i] = audit[i]
    BY <1>0, <2>1, <2>2, Longer
  <2>4. \A j \in DOMAIN switches : ~(Len(switches) < j)
    BY <1>0
  <2>5. ASSUME NEW j \in DOMAIN switches, NEW k \in DOMAIN audit, LastAudited(k, j)
        PROVE  LastAudited(k, j)'
    BY <2>2, <2>3, <2>4, <2>5 DEF LastAudited
  <2>6. ASSUME NEW j \in DOMAIN switches, switches[j].operation = "rollback"
        PROVE  \E k \in DOMAIN audit' : /\ LastAudited(k, j)'
                                        /\ audit'[k].operation = "restore"
                                        /\ switches[audit'[k].at].from = switches[j].to
    <3>1. PICK k \in DOMAIN audit : /\ LastAudited(k, j)
                                    /\ audit[k].operation = "restore"
                                    /\ switches[audit[k].at].from = switches[j].to
      BY <1>0, <2>6 DEF SwitchesAreTraced
    <3>2. k \in DOMAIN audit' /\ audit'[k] = audit[k]
      BY <2>3
    <3>3. LastAudited(k, j)'
      BY <2>5, <3>1
    <3> QED
      BY <3>1, <3>2, <3>3
  <2> QED
    BY <1>0, <2>2, <2>6 DEF SwitchesAreTraced
<1> QED
  BY <1>0, <1>1, <1>2, <1>3, <1>4, <1>5, TablesStep

-----------------------------------------------------------------------------
(* The invariant holds in every reachable state. *)
THEOREM RecoveryInvariant == Spec => []IInv
<1>1. IInv /\ [Next]_vars => IInv'
  BY TypeStep, ProgressStep, RecordStep, AuditStep, TraceStep DEF IInv
<1> QED
  BY InitInvariant, <1>1, PTL DEF Spec

(* The tables, the server and the request stay well typed: what is live is  *)
(* a valid database and every audit row names a generation that exists.     *)
THEOREM TypeCorrect == Spec => []TypeOK
<1>1. IInv => TypeOK
  BY DEF IInv
<1> QED
  BY RecoveryInvariant, <1>1, PTL

(* prepare_restore and rollback: a restore replaces a kept live file by an  *)
(* accepted snapshot, and a rollback gives back what the last restore on    *)
(* record replaced, whatever was cut off before.                            *)
THEOREM EverySwitchIsTraced == Spec => []SwitchesAreTraced
<1>1. IInv => SwitchesAreTraced
  BY DEF IInv
<1> QED
  BY RecoveryInvariant, <1>1, PTL

(* close_core_modules_for_recovery: no module keeps a connection to a file  *)
(* that was replaced.                                                       *)
THEOREM ConnectionsDoNotSurvive == Spec => []NoConnectionSurvives
<1>1. IInv => NoConnectionSurvives
  BY DEF IInv
<1> QED
  BY RecoveryInvariant, <1>1, PTL

(* The recovery routes: whoever is given a result asked for the last switch *)
(* and finds it on record, and no row is there of a request that was        *)
(* refused, whatever failed between the steps of either.                    *)
THEOREM AnswersAreOnRecord == Spec => []AnsweredAsRecorded
<1>1. IInv => AnsweredAsRecorded
  BY DEF IInv
<1> QED
  BY RecoveryInvariant, <1>1, PTL
=============================================================================
