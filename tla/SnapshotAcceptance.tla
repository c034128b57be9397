------------------------- MODULE SnapshotAcceptance -------------------------
(***************************************************************************)
(* How a snapshot becomes the accepted one (apc_core/snapshot_contract.py, *)
(* by way of certify.py or import_snapshot.py) and how a server comes to   *)
(* serve it (apc_core/server.py).                                          *)
(*                                                                         *)
(* Certifiers copy a snapshot to a temporary file, validate the copy, link *)
(* it under the name its hash gives it, and then replace the manifest that *)
(* names it.  A server reads the manifest, opens the artifact and hashes   *)
(* it, and mounts its modules one after the other, each of which brings    *)
(* its tables of the Core database to the snapshot.  Steps are file        *)
(* operations and transactions: anything may run, or fail, between two.    *)
(* A file is its content, and a hash is the content that has it.           *)
(***************************************************************************)
EXTENDS FiniteSets, Naturals

CONSTANTS
  Certifier,
  Content,    \* the contents of files that may be certified
  Valid,      \* those that pass _validate_snapshot
  Ready,      \* Ready[s]: the modules _snapshot_capabilities verifies
  Damaged,    \* a content that is no snapshot's
  Absent      \* absent

Module == {"customers", "customer_prices"}
ASSUME ContentAssumption ==
  /\ Valid \subseteq Content /\ Ready \in [Content -> SUBSET Module]
  /\ Damaged \notin Content /\ Absent \notin Content \cup {Damaged}

VARIABLES
  artifact,    \* artifact[h]: the content of accepted_snapshot-<h>.sqlite
  manifest,    \* the hash accepted_snapshot.json gives
  certifying,  \* certifying[c]: [at, of, strict], of being the copied content
  store,       \* store[m]: the snapshot the tables of a module are reconciled with
  server,      \* [at, manifest, opened, modules]: opened is the content behind the
               \* descriptor, modules[m] the content a mounted module reads
  spoiled      \* the artifacts damaged since the manifest was replaced (history)

acceptanceVars == <<artifact, manifest, certifying, store, server, spoiled>>

Idle == [at |-> "idle", of |-> Absent, strict |-> FALSE]
Stopped == [at |-> "down", manifest |-> Absent, opened |-> Absent, modules |-> [m \in Module |-> Absent]]

AcceptanceInit ==
  /\ artifact = [h \in Content |-> Absent] /\ manifest = Absent
  /\ certifying = [c \in Certifier |-> Idle]
  /\ store = [m \in Module |-> Absent] /\ server = Stopped /\ spoiled = {}

-----------------------------------------------------------------------------
(* A certifier. *)
At(c, at) == certifying[c].at = at
Goes(c, at) == certifying' = [certifying EXCEPT ![c].at = at]
Ends(c) == certifying' = [certifying EXCEPT ![c] = Idle]

(* _copy_descriptor_to_temporary, customer_ready asking for customers too *)
Copy(c, s, strict) ==
  /\ At(c, "idle")
  /\ certifying' = [certifying EXCEPT ![c] = [at |-> "copied", of |-> s, strict |-> strict]]
  /\ UNCHANGED <<artifact, manifest, store, server, spoiled>>

(* _validate_snapshot of the copy, which is removed when it fails *)
Acceptable(c) ==
  /\ certifying[c].of \in Valid
  /\ certifying[c].strict => "customers" \in Ready[certifying[c].of]

Validate(c) ==
  /\ At(c, "copied")
  /\ IF Acceptable(c) THEN Goes(c, "validated") ELSE Ends(c)
  /\ UNCHANGED <<artifact, manifest, store, server, spoiled>>

(* Mutant of Link: whatever file has the name is taken to be the artifact. *)
LinkOrAssume(c) == LET h == certifying[c].of IN
  /\ At(c, "validated")
  /\ Goes(c, "linked")
  /\ artifact' = [artifact EXCEPT ![h] = IF @ = Absent THEN h ELSE @]
  /\ UNCHANGED <<manifest, store, server, spoiled>>

(* The copy is linked under its hash, or a file there hashed again; then    *)
(* the temporary name is removed.                                           *)
Link(c) == LET h == certifying[c].of IN
  /\ At(c, "validated")
  /\ IF artifact[h] \in {Absent, h} THEN Goes(c, "linked") ELSE Ends(c)
  /\ artifact' = [artifact EXCEPT ![h] = IF @ = Absent THEN h ELSE @]
  /\ UNCHANGED <<manifest, store, server, spoiled>>

(* _publish_manifest, whose replacement of the manifest is the acceptance *)
Publish(c) ==
  /\ At(c, "linked") /\ Ends(c)
  /\ manifest' = certifying[c].of /\ spoiled' = {}
  /\ UNCHANGED <<artifact, store, server>>

(* A certifier fails, or is killed; its temporary file is never looked at    *)
(* again.                                                                   *)
GiveUp(c) ==
  /\ ~At(c, "idle") /\ Ends(c)
  /\ UNCHANGED <<artifact, manifest, store, server, spoiled>>

(* A file is damaged or removed, though not under a certifier's hands; the   *)
(* damage is seen by whoever opens the path, and what a server has opened    *)
(* and hashed stays as it was.                                               *)
Damage(h) ==
  /\ \A c \in Certifier : At(c, "idle")
  /\ artifact[h] # Absent
  /\ artifact' \in {[artifact EXCEPT ![h] = content] : content \in {Damaged, Absent}}
  /\ spoiled' = spoiled \cup {h}
  /\ UNCHANGED <<manifest, certifying, store, server>>

-----------------------------------------------------------------------------
(* A server that starts. *)
Serving(at) == server.at = at

(* _read_accepted_manifest reads the manifest ... *)
ReadManifest ==
  /\ Serving("down") /\ manifest # Absent
  /\ server' = [Stopped EXCEPT !.at = "read", !.manifest = manifest]
  /\ UNCHANGED <<artifact, manifest, certifying, store, spoiled>>

(* ... and opens and hashes the artifact it names, or refuses to start. *)
OpenArtifact ==
  /\ Serving("read")
  /\ server' = IF artifact[server.manifest] = server.manifest
               THEN [server EXCEPT !.at = "customers", !.opened = artifact[server.manifest]] ELSE Stopped
  /\ UNCHANGED <<artifact, manifest, certifying, store, spoiled>>

(* Mutant of Mount: the module is mounted before its import is tried. *)
MountFirst(m, content, next) ==
  /\ IF m \in Ready[server.manifest] /\ content # Absent
     THEN /\ server' = [server EXCEPT !.at = next, !.modules[m] = content]
          /\ store' \in {[store EXCEPT ![m] = content], store}
     ELSE server' = [server EXCEPT !.at = next] /\ UNCHANGED store
  /\ UNCHANGED <<artifact, manifest, certifying, spoiled>>

(* Module m is mounted on a content it reads from now on, once its tables   *)
(* are reconciled with it; unverified, or failing, it stays unmounted.      *)
Mount(m, content, next) ==
  /\ \/ /\ m \in Ready[server.manifest] /\ content # Absent
        /\ server' = [server EXCEPT !.at = next, !.modules[m] = content]
        /\ store' = [store EXCEPT ![m] = content]
     \/ server' = [server EXCEPT !.at = next] /\ UNCHANGED store
  /\ UNCHANGED <<artifact, manifest, certifying, spoiled>>

(* Mutant of MountCustomers: the path is trusted, having been hashed before. *)
MountCustomersTrusting ==
  Serving("customers") /\ Mount("customers", artifact[server.manifest], "customer_prices")

(* CustomerExplorer opens the path again: its hash must be the manifest's. *)
MountCustomers ==
  LET content == artifact[server.manifest] IN
  Serving("customers") /\ Mount("customers", IF content = server.manifest THEN content ELSE Absent, "customer_prices")

(* CustomerPriceModule reads the descriptor that was hashed. *)
MountPrices == Serving("customer_prices") /\ Mount("customer_prices", server.opened, "up")

(* The server stops or is killed, also while it starts. *)
Stop ==
  /\ ~Serving("down") /\ server' = Stopped
  /\ UNCHANGED <<artifact, manifest, certifying, store, spoiled>>

(* A recovery gives back an older database once the modules are closed. *)
Restore(older) ==
  /\ Serving("down") /\ store' = older
  /\ UNCHANGED <<artifact, manifest, certifying, server, spoiled>>

AcceptanceNext ==
  \/ \E c \in Certifier :
       \/ \E s \in Content, strict \in BOOLEAN : Copy(c, s, strict)
       \/ Validate(c) \/ Link(c) \/ Publish(c) \/ GiveUp(c)
  \/ \E h \in Content : Damage(h)
  \/ ReadManifest \/ OpenArtifact \/ MountCustomers \/ MountPrices \/ Stop
  \/ \E older \in [Module -> Valid \cup {Absent}] : Restore(older)

AcceptanceSpec == AcceptanceInit /\ [][AcceptanceNext]_acceptanceVars

-----------------------------------------------------------------------------
(* The type invariant: a certifier is at a step of certify_snapshot_descriptor *)
(* with the content it needs there, a server at one of its start.             *)
AcceptanceTypeOK ==
  /\ artifact \in [Content -> {Absent, Damaged} \cup Content]
  /\ manifest \in Content \cup {Absent}
  /\ certifying \in [Certifier -> {Idle} \cup
       [at : {"copied", "validated", "linked"}, of : Content, strict : BOOLEAN]]
  /\ store \in [Module -> Content \cup {Absent}]
  /\ server.at \in {"down", "read", "customers", "customer_prices", "up"}
  /\ server.at # "down" => server.manifest \in Content
  /\ spoiled \subseteq Content

(* The manifest names an artifact that was validated and is whole, whatever  *)
(* certifiers ran beside each other or were cut off, unless the file was     *)
(* damaged since (certify_snapshot: "atomically accept").                    *)
AcceptedIsWhole == manifest # Absent =>
  /\ manifest \in Valid
  /\ artifact[manifest] = manifest \/ manifest \in spoiled

(* A server and its modules read one accepted content, the one whose hash it *)
(* found in the manifest, although paths are opened more than once and files *)
(* may be damaged in between.                                                *)
ServedIsAccepted ==
  /\ server.opened # Absent => server.opened = server.manifest /\ server.opened \in Valid
  /\ \A m \in Module : server.modules[m] \in {Absent, server.opened}

(* What a mounted module shows is of the snapshot it reads: its tables are   *)
(* reconciled with it, also after an import failed at an earlier start or a  *)
(* recovery gave back a database of another snapshot.                        *)
MountedIsReconciled == \A m \in Module : server.modules[m] # Absent =>
  store[m] = server.modules[m] /\ m \in Ready[server.manifest]
=============================================================================
