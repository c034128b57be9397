--------------------------- MODULE SnapshotProofs ---------------------------
(***************************************************************************)
(* SnapshotAcceptance and ItemCatalog: how a snapshot is accepted and      *)
(* served, and how the item catalogue takes one in.                        *)
(*                                                                         *)
(* Acceptance, for any number of certifiers and contents: what a manifest  *)
(* names was validated and linked whole, and a server reads that and       *)
(* nothing else.                                                           *)
(*                                                                         *)
(* The item catalogue, for any items, processes and snapshots: the         *)
(* invariant says of an import how far along its transactions it is, and   *)
(* that what those behind it did still stands unless another import or     *)
(* staff came in between (Progress, Undisturbed).  What an import does is  *)
(* a concatenation of sequences that SetToSeq numbers, so the lemmas on    *)
(* FlattenSeq come first.                                                  *)
(***************************************************************************)
EXTENDS SnapshotAcceptance, ItemCatalog, Integers, SequenceTheorems, FiniteSetTheorems,
        FunctionTheorems, TLAPS

(* Acceptance: the inductive invariant. *)

(* The server's record, column by column. *)
ServerState == [at : {"down", "read", "customers", "customer_prices", "up"},
                manifest : Content \cup {Absent}, opened : Content \cup {Absent},
                modules : [Module -> Content \cup {Absent}]]

(* What a certifier holds has passed the steps it has taken, and a linked    *)
(* artifact stays whole until its manifest is published.                     *)
Certified == \A c \in Certifier :
  /\ At(c, "validated") => certifying[c].of \in Valid
  /\ At(c, "linked") => certifying[c].of \in Valid /\ artifact[certifying[c].of] = certifying[c].of

(* What a server knows at each step of its start. *)
Started ==
  /\ Serving("down") => server = Stopped
  /\ ~Serving("down") => server.manifest \in Valid
  /\ Serving("read") => server.opened = Absent /\ \A m \in Module : server.modules[m] = Absent
  /\ server.at \in {"customers", "customer_prices", "up"} => server.opened = server.manifest

(* The conjunction is inductive. *)
AcceptanceIInv ==
  /\ AcceptanceTypeOK /\ server \in ServerState
  /\ Certified /\ Started
  /\ AcceptedIsWhole /\ ServedIsAccepted /\ MountedIsReconciled

-----------------------------------------------------------------------------
LEMMA InitAcceptance == AcceptanceInit => AcceptanceIInv
BY ContentAssumption DEF AcceptanceInit, AcceptanceIInv, AcceptanceTypeOK, ServerState, Certified, Started, AcceptedIsWhole,
   ServedIsAccepted, MountedIsReconciled, At, Serving, Idle, Stopped, Module

(* The steps of a certifier touch neither the server nor its tables. *)
Served == Started /\ ServedIsAccepted /\ MountedIsReconciled /\ server \in ServerState

LEMMA CertifiersServeNothing ==
  ASSUME Served, UNCHANGED <<server, store>> PROVE Served'
BY DEF Served, Started, ServedIsAccepted, MountedIsReconciled, Serving

LEMMA CertifierStep ==
  ASSUME AcceptanceIInv, NEW c \in Certifier,
         \/ \E s \in Content, strict \in BOOLEAN : Copy(c, s, strict)
         \/ Validate(c) \/ Link(c) \/ Publish(c) \/ GiveUp(c)
  PROVE  AcceptanceIInv'
<1> USE ContentAssumption
<1>1. CASE \E s \in Content, strict \in BOOLEAN : Copy(c, s, strict)
  <2>1. PICK s \in Content, strict \in BOOLEAN : Copy(c, s, strict) BY <1>1
  <2>2. Served' BY <2>1, CertifiersServeNothing DEF AcceptanceIInv, Served, Copy
  <2>3. AcceptanceTypeOK' BY <2>1 DEF AcceptanceIInv, AcceptanceTypeOK, Copy, Idle
  <2>4. Certified' /\ AcceptedIsWhole' BY <2>1 DEF AcceptanceIInv, AcceptanceTypeOK, Copy, Idle, Certified, AcceptedIsWhole, At
  <2> QED BY <2>2, <2>3, <2>4 DEF AcceptanceIInv, Served
<1>2. CASE Validate(c)
  <2>2. Served' BY <1>2, CertifiersServeNothing DEF AcceptanceIInv, Served, Validate
  <2>3. AcceptanceTypeOK' BY <1>2 DEF AcceptanceIInv, AcceptanceTypeOK, Validate, Idle, At, Goes, Ends
  <2>4. Certified' /\ AcceptedIsWhole'
    BY <1>2 DEF AcceptanceIInv, AcceptanceTypeOK, Validate, Acceptable, Idle, Certified, AcceptedIsWhole, At, Goes, Ends
  <2> QED BY <2>2, <2>3, <2>4 DEF AcceptanceIInv, Served
<1>3. CASE Link(c)
  <2>2. Served' BY <1>3, CertifiersServeNothing DEF AcceptanceIInv, Served, Link
  <2>3. AcceptanceTypeOK' BY <1>3 DEF AcceptanceIInv, AcceptanceTypeOK, Link, Idle, At, Goes, Ends
  <2>4. Certified' BY <1>3 DEF AcceptanceIInv, AcceptanceTypeOK, Link, Idle, Certified, At, Goes, Ends
  <2>5. AcceptedIsWhole' BY <1>3 DEF AcceptanceIInv, AcceptanceTypeOK, Link, Idle, AcceptedIsWhole, At, Goes, Ends
  <2> QED BY <2>2, <2>3, <2>4, <2>5 DEF AcceptanceIInv, Served
<1>4. CASE Publish(c)
  <2>2. Served' BY <1>4, CertifiersServeNothing DEF AcceptanceIInv, Served, Publish
  <2>3. AcceptanceTypeOK' BY <1>4 DEF AcceptanceIInv, AcceptanceTypeOK, Publish, Idle, At, Ends
  <2>4. Certified' /\ AcceptedIsWhole'
    BY <1>4 DEF AcceptanceIInv, AcceptanceTypeOK, Publish, Idle, Certified, AcceptedIsWhole, At, Ends
  <2> QED BY <2>2, <2>3, <2>4 DEF AcceptanceIInv, Served
<1>5. CASE GiveUp(c)
  <2>2. Served' BY <1>5, CertifiersServeNothing DEF AcceptanceIInv, Served, GiveUp
  <2>3. AcceptanceTypeOK' BY <1>5 DEF AcceptanceIInv, AcceptanceTypeOK, GiveUp, Idle, At, Ends
  <2>4. Certified' /\ AcceptedIsWhole'
    BY <1>5 DEF AcceptanceIInv, AcceptanceTypeOK, GiveUp, Idle, Certified, AcceptedIsWhole, At, Ends
  <2> QED BY <2>2, <2>3, <2>4 DEF AcceptanceIInv, Served
<1> QED BY <1>1, <1>2, <1>3, <1>4, <1>5

LEMMA DamageStep == ASSUME AcceptanceIInv, NEW h \in Content, Damage(h) PROVE AcceptanceIInv'
<1> USE ContentAssumption
<1>1. Served' BY CertifiersServeNothing DEF AcceptanceIInv, Served, Damage
<1>2. AcceptanceTypeOK' BY DEF AcceptanceIInv, AcceptanceTypeOK, Damage
<1>3. Certified' BY DEF AcceptanceIInv, AcceptanceTypeOK, Damage, Certified, At
<1>4. AcceptedIsWhole' BY DEF AcceptanceIInv, AcceptanceTypeOK, Damage, AcceptedIsWhole
<1> QED BY <1>1, <1>2, <1>3, <1>4 DEF AcceptanceIInv, Served

-----------------------------------------------------------------------------
(* The steps of a server touch no file. *)
LEMMA ServersChangeNoFile ==
  ASSUME AcceptanceIInv, UNCHANGED <<artifact, manifest, certifying, spoiled>>
  PROVE  Certified' /\ AcceptedIsWhole'
BY DEF AcceptanceIInv, Certified, AcceptedIsWhole, At

LEMMA MountStep ==
  ASSUME AcceptanceIInv, NEW m \in Module, NEW content, NEW next \in {"customer_prices", "up"},
         server.at \in {"customers", "customer_prices"},
         content \in {Absent, server.opened}, Mount(m, content, next)
  PROVE  AcceptanceIInv'
<1> USE ContentAssumption
<1>1. Certified' /\ AcceptedIsWhole' BY ServersChangeNoFile DEF Mount
<1>2. CASE server' = [server EXCEPT !.at = next] /\ UNCHANGED store
  BY <1>1, <1>2 DEF AcceptanceIInv, AcceptanceTypeOK, ServerState, Started, ServedIsAccepted, MountedIsReconciled, Serving, Mount
<1>3. CASE /\ m \in Ready[server.manifest] /\ content # Absent
           /\ server' = [server EXCEPT !.at = next, !.modules[m] = content]
           /\ store' = [store EXCEPT ![m] = content]
  <2>1. content = server.opened /\ server.opened = server.manifest /\ server.manifest \in Valid
    BY <1>3 DEF AcceptanceIInv, Started, Serving
  <2>2. AcceptanceTypeOK' /\ (server \in ServerState)'
    BY <1>3, <2>1 DEF AcceptanceIInv, AcceptanceTypeOK, ServerState, Mount, Module
  <2>3. Started' BY <1>3, <2>1 DEF AcceptanceIInv, ServerState, Started, Serving
  <2>4. ServedIsAccepted' /\ MountedIsReconciled'
    BY <1>3, <2>1 DEF AcceptanceIInv, AcceptanceTypeOK, ServerState, ServedIsAccepted, MountedIsReconciled
  <2> QED BY <1>1, <2>2, <2>3, <2>4 DEF AcceptanceIInv
<1> QED BY <1>2, <1>3 DEF Mount

LEMMA ServerStep ==
  ASSUME AcceptanceIInv,
         \/ ReadManifest \/ OpenArtifact \/ MountCustomers \/ MountPrices \/ Stop
         \/ \E older \in [Module -> Valid \cup {Absent}] : Restore(older)
  PROVE  AcceptanceIInv'
<1> USE ContentAssumption
<1>1. CASE ReadManifest
  <2>1. Certified' /\ AcceptedIsWhole' BY <1>1, ServersChangeNoFile DEF ReadManifest
  <2>2. manifest \in Valid BY <1>1 DEF AcceptanceIInv, AcceptedIsWhole, ReadManifest
  <2> QED BY <1>1, <2>1, <2>2 DEF AcceptanceIInv, AcceptanceTypeOK, ServerState, ReadManifest, Started, ServedIsAccepted,
        MountedIsReconciled, Serving, Stopped
<1>2. CASE OpenArtifact
  <2>1. Certified' /\ AcceptedIsWhole' BY <1>2, ServersChangeNoFile DEF OpenArtifact
  <2>2. CASE artifact[server.manifest] = server.manifest
    BY <1>2, <2>1, <2>2 DEF AcceptanceIInv, AcceptanceTypeOK, ServerState, OpenArtifact, Started, ServedIsAccepted,
       MountedIsReconciled, Serving
  <2>3. CASE artifact[server.manifest] # server.manifest
    BY <1>2, <2>1, <2>3 DEF AcceptanceIInv, AcceptanceTypeOK, ServerState, OpenArtifact, Started, ServedIsAccepted,
       MountedIsReconciled, Serving, Stopped
  <2> QED BY <2>2, <2>3
<1>3. CASE MountCustomers
  <2> DEFINE content == IF artifact[server.manifest] = server.manifest THEN artifact[server.manifest] ELSE Absent
  <2>1. Serving("customers") /\ Mount("customers", content, "customer_prices") BY <1>3 DEF MountCustomers
  <2>2. content \in {Absent, server.opened} BY <2>1 DEF AcceptanceIInv, Started, Serving
  <2> HIDE DEF content
  <2> QED BY <2>1, <2>2, MountStep DEF Serving, Module
<1>4. CASE MountPrices
  BY <1>4, MountStep DEF MountPrices, Serving, Module
<1>5. CASE Stop
  <2>1. Certified' /\ AcceptedIsWhole' BY <1>5, ServersChangeNoFile DEF Stop
  <2> QED BY <1>5, <2>1 DEF AcceptanceIInv, AcceptanceTypeOK, ServerState, Stop, Started, ServedIsAccepted,
        MountedIsReconciled, Serving, Stopped
<1>6. CASE \E older \in [Module -> Valid \cup {Absent}] : Restore(older)
  <2>1. Certified' /\ AcceptedIsWhole' BY <1>6, ServersChangeNoFile DEF Restore
  <2> QED BY <1>6, <2>1 DEF AcceptanceIInv, AcceptanceTypeOK, ServerState, Restore, Started, ServedIsAccepted,
        MountedIsReconciled, Serving, Stopped
<1> QED BY <1>1, <1>2, <1>3, <1>4, <1>5, <1>6

LEMMA StepAcceptance == AcceptanceIInv /\ [AcceptanceNext]_acceptanceVars => AcceptanceIInv'
<1> SUFFICES ASSUME AcceptanceIInv, [AcceptanceNext]_acceptanceVars PROVE AcceptanceIInv' OBVIOUS
<1>1. CASE UNCHANGED acceptanceVars
  BY <1>1 DEF acceptanceVars, AcceptanceIInv, AcceptanceTypeOK, Certified, Started, AcceptedIsWhole, ServedIsAccepted,
     MountedIsReconciled, At, Serving
<1>2. CASE AcceptanceNext BY <1>2, CertifierStep, DamageStep, ServerStep DEF AcceptanceNext
<1> QED BY <1>1, <1>2

-----------------------------------------------------------------------------
(* The inductive invariant holds, however many certifiers are cut off where  *)
(* and whatever becomes of the files afterwards.                             *)
THEOREM AcceptanceInvariant == AcceptanceSpec => []AcceptanceIInv
BY InitAcceptance, StepAcceptance, PTL DEF AcceptanceSpec

(* Manifests name hashes, certifiers hold contents and servers are at one of *)
(* the steps of their start.                                                 *)
THEOREM AcceptanceTyped == AcceptanceSpec => []AcceptanceTypeOK
<1>1. AcceptanceIInv => AcceptanceTypeOK BY DEF AcceptanceIInv
<1> QED BY <1>1, AcceptanceInvariant, PTL

(* The manifest names an artifact that was validated, and whole unless the   *)
(* file was damaged later (certify_snapshot_descriptor links before it       *)
(* publishes, and hashes a file that is already there).                      *)
THEOREM AcceptedArtifactsAreWhole == AcceptanceSpec => []AcceptedIsWhole
<1>1. AcceptanceIInv => AcceptedIsWhole BY DEF AcceptanceIInv
<1> QED BY <1>1, AcceptanceInvariant, PTL

(* A server reads only content whose hash was in the manifest it read.       *)
THEOREM ServersReadWhatWasAccepted == AcceptanceSpec => []ServedIsAccepted
<1>1. AcceptanceIInv => ServedIsAccepted BY DEF AcceptanceIInv
<1> QED BY <1>1, AcceptanceInvariant, PTL

(* A module is mounted only over tables reconciled with what it reads.       *)
THEOREM MountedModulesAreReconciled == AcceptanceSpec => []MountedIsReconciled
<1>1. AcceptanceIInv => MountedIsReconciled BY DEF AcceptanceIInv
<1> QED BY <1>1, AcceptanceInvariant, PTL

-----------------------------------------------------------------------------
(* The item catalogue. *)

(* Among some subsets of a finite set there is one with none below it. *)
LEMMA SmallestSubset ==
  ASSUME NEW S, IsFiniteSet(S), NEW X \in SUBSET SUBSET S, X # {}
  PROVE  \E T \in X : \A U \in X : U \subseteq T => U = T
<1>1. IsWellFoundedOn(StrictSubsetOrdering(S), SUBSET S)
  BY FS_FiniteSubsetsOfFinite, FS_StrictSubsetOrderingWellFounded
<1>2. \E T \in X : \A U \in X : ~ (<<U, T>> \in StrictSubsetOrdering(S))
  BY <1>1, WFMin
<1> QED
  BY <1>2 DEF StrictSubsetOrdering

(* Among some naturals there is a least one. *)
LEMMA LeastNatural ==
  ASSUME NEW X \in SUBSET Nat, X # {}
  PROVE  \E n \in X : \A m \in X : n <= m
<1>1. PICK x \in X : TRUE
  OBVIOUS
<1> DEFINE Y == {1 .. m : m \in {y \in X : y <= x}}
<1>2. Y \in SUBSET SUBSET (1 .. x) /\ Y # {} /\ IsFiniteSet(1 .. x)
  <2>1. \A m \in X : m <= x => 1 .. m \subseteq 1 .. x
    OBVIOUS
  <2>2. x <= x
    BY <1>1
  <2>3. IsFiniteSet(1 .. x)
    BY <1>1, FS_Interval
  <2> QED
    BY <1>1, <2>1, <2>2, <2>3, Zenon
<1>3. PICK T \in Y : \A U \in Y : U \subseteq T => U = T
  <2> DEFINE S == 1 .. x
  <2>1. Y \in SUBSET SUBSET S /\ Y # {} /\ IsFiniteSet(S)
    BY <1>2
  <2> HIDE DEF Y, S
  <2> QED
    BY <2>1, SmallestSubset
<1>4. PICK n \in X : n <= x /\ T = 1 .. n
  OBVIOUS
<1>5. ASSUME NEW m \in X, m < n PROVE FALSE
  <2>1. 1 .. m \in Y /\ 1 .. m \subseteq 1 .. n
    BY <1>4, <1>5
  <2>2. 1 .. m = 1 .. n
    BY <1>3, <1>4, <2>1, Zenon
  <2>3. n \in 1 .. n /\ n \notin 1 .. m
    BY <1>5
  <2> QED
    BY <2>2, <2>3, Zenon
<1> QED
  BY <1>5

-----------------------------------------------------------------------------
(* FlattenSeq *)

Joining(g, f) == g = [i \in 1 .. Len(f) |-> IF i = 1 THEN f[i] ELSE g[i - 1] \o f[i]]

(* The first n sequences of f joined. *)
Joins(g, f, n) == \A i \in 1 .. n : g[i] = IF i = 1 THEN f[i] ELSE g[i - 1] \o f[i]

LEMMA JoiningExists ==
  ASSUME NEW T, NEW f \in Seq(Seq(T)), NEW n \in 1 .. Len(f)
  PROVE  \E g \in [1 .. n -> Seq(T)] : Joins(g, f, n)
<1> DEFINE X == {m \in 1 .. Len(f) : ~ \E g \in [1 .. m -> Seq(T)] : Joins(g, f, m)}
<1>1. SUFFICES ASSUME X # {} PROVE FALSE
  OBVIOUS
<1>2. PICK m \in X : \A u \in X : m <= u
  <2> HIDE DEF X
  <2>1. X \in SUBSET Nat
    BY DEF X
  <2> QED
    BY <1>1, <2>1, LeastNatural
<1>3. Len(f) \in Nat /\ m \in 1 .. Len(f) /\ f[m] \in Seq(T)
  OBVIOUS
<1>4. CASE m = 1
  <2>1. Joins([i \in 1 .. 1 |-> f[1]], f, 1)
    BY DEF Joins
  <2>2. [i \in 1 .. 1 |-> f[1]] \in [1 .. 1 -> Seq(T)]
    BY <1>3, <1>4
  <2> QED
    BY <1>4, <2>1, <2>2
<1>5. CASE m # 1
  <2>1. m - 1 \in 1 .. Len(f) /\ m - 1 \notin X
    <3> HIDE DEF X
    <3>1. m - 1 \in 1 .. Len(f) /\ ~(m <= m - 1)
      BY <1>3, <1>5
    <3> QED
      BY <1>2, <3>1
  <2>2. PICK g \in [1 .. m - 1 -> Seq(T)] : Joins(g, f, m - 1)
    BY <2>1
  <2> DEFINE h == [i \in 1 .. m |-> IF i = m THEN g[m - 1] \o f[m] ELSE g[i]]
  <2>3. g[m - 1] \o f[m] \in Seq(T)
    BY <1>3, <2>1, <2>2
  <2>4. h \in [1 .. m -> Seq(T)] /\ h[m] = g[m - 1] \o f[m] /\ \A i \in 1 .. m - 1 : h[i] = g[i]
    <3>1. ASSUME NEW i \in 1 .. m PROVE (IF i = m THEN g[m - 1] \o f[m] ELSE g[i]) \in Seq(T)
      <4>1. i # m => i \in 1 .. m - 1
        BY <1>3
      <4> QED
        BY <2>2, <2>3, <4>1
    <3>2. m \in 1 .. m /\ \A i \in 1 .. m - 1 : i \in 1 .. m /\ i # m
      BY <1>3
    <3> QED
      BY <3>1, <3>2
  <2> HIDE DEF h
  <2>5. ASSUME NEW i \in 1 .. m PROVE h[i] = IF i = 1 THEN f[i] ELSE h[i - 1] \o f[i]
    <3>1. CASE i = m
      <4>1. h[m - 1] = g[m - 1]
        BY <1>3, <1>5, <2>4
      <4> QED
        BY <1>5, <2>4, <3>1, <4>1
    <3>2. CASE i # m
      <4>1. i \in 1 .. m - 1
        BY <3>2
      <4>2. h[i] = g[i] /\ g[i] = IF i = 1 THEN f[i] ELSE g[i - 1] \o f[i]
        BY <2>2, <2>4, <4>1 DEF Joins
      <4>3. i # 1 => i - 1 \in 1 .. m - 1 /\ h[i - 1] = g[i - 1]
        BY <2>4, <4>1
      <4> QED
        BY <4>2, <4>3
    <3> QED
      BY <3>1, <3>2
  <2>6. Joins(h, f, m)
    BY <2>5 DEF Joins
  <2> QED
    BY <2>4, <2>6
<1> QED
  BY <1>4, <1>5

(* What holds of the joined sequences: they are made of the elements of f,  *)
(* in order, and of all of them.                                            *)
Taken(w, f, n, k) == \E m \in 1 .. n, j \in Nat :
  /\ j \in 1 .. Len(f[m]) /\ w[k] = f[m][j]
  /\ j # 1 => k # 1 /\ w[k - 1] = f[m][j - 1]
Holds(w, f, n) ==
  /\ \A k \in 1 .. Len(w) : Taken(w, f, n, k)
  /\ \A m \in 1 .. n : \A j \in 1 .. Len(f[m]) : \E k \in 1 .. Len(w) : w[k] = f[m][j]

LEMMA JoinHolds ==
  ASSUME NEW T, NEW f \in Seq(Seq(T)), NEW n \in 1 .. Len(f), NEW w \in Seq(T),
         n # 1, Holds(w, f, n - 1)
  PROVE  Holds(w \o f[n], f, n)
<1> DEFINE v == f[n]
<1>1. v \in Seq(T) /\ Len(v) \in Nat /\ Len(w) \in Nat /\ n \in Nat /\ n - 1 \in 1 .. Len(f)
  OBVIOUS
<1> HIDE DEF v
<1>2. /\ w \o v \in Seq(T) /\ Len(w \o v) = Len(w) + Len(v)
      /\ \A k \in 1 .. Len(w) + Len(v) : (w \o v)[k] = IF k <= Len(w) THEN w[k] ELSE v[k - Len(w)]
  BY <1>1, ConcatProperties
<1> DEFINE z == w \o v
<1>3. Len(z) = Len(w) + Len(v) /\ \A k \in 1 .. Len(w) : z[k] = w[k]
  BY <1>1, <1>2
<1>4. \A j \in 1 .. Len(v) : Len(w) + j \in 1 .. Len(z) /\ z[Len(w) + j] = v[j]
  BY <1>1, <1>2
<1> HIDE DEF z
<1>5. ASSUME NEW k \in 1 .. Len(z)
      PROVE  Taken(z, f, n, k)
  <2>1. CASE k <= Len(w)
    <3>1. k \in 1 .. Len(w)
      BY <1>1, <2>1
    <3>2. PICK m \in 1 .. n - 1, j \in Nat :
            /\ j \in 1 .. Len(f[m]) /\ w[k] = f[m][j]
            /\ j # 1 => k # 1 /\ w[k - 1] = f[m][j - 1]
      BY <3>1 DEF Holds, Taken
    <3>3. z[k] = w[k] /\ (k # 1 => z[k - 1] = w[k - 1])
      <4>1. k # 1 => k - 1 \in 1 .. Len(w)
        BY <1>1, <3>1
      <4> QED
        BY <1>3, <3>1, <4>1
    <3>4. m \in 1 .. n
      BY <1>1
    <3>5. j \in 1 .. Len(f[m]) /\ z[k] = f[m][j]
      BY <3>2, <3>3
    <3>6. j # 1 => k # 1 /\ z[k - 1] = f[m][j - 1]
      BY <3>2, <3>3
    <3> QED
      BY <3>4, <3>5, <3>6 DEF Taken
  <2>2. CASE ~(k <= Len(w))
    <3> DEFINE j == k - Len(w)
    <3>1. j \in 1 .. Len(v) /\ k = Len(w) + j
      BY <1>1, <1>3, <2>2
    <3>2. z[k] = v[j]
      BY <1>4, <3>1
    <3>3. ASSUME j # 1 PROVE k # 1 /\ z[k - 1] = v[j - 1]
      <4>1. j - 1 \in 1 .. Len(v) /\ k - 1 = Len(w) + (j - 1)
        BY <1>1, <3>1, <3>3
      <4> QED
        BY <1>1, <1>4, <4>1
    <3>4. n \in 1 .. n /\ j \in Nat
      BY <1>1, <3>1
    <3> QED
      BY <3>1, <3>2, <3>3, <3>4 DEF v, Taken
  <2> QED
    BY <2>1, <2>2
<1>6. ASSUME NEW m \in 1 .. n, NEW j \in 1 .. Len(f[m])
      PROVE  \E k \in 1 .. Len(z) : z[k] = f[m][j]
  <2>1. CASE m = n
    BY <1>4, <2>1 DEF v
  <2>2. CASE m # n
    <3>1. m \in 1 .. n - 1
      BY <1>1, <2>2
    <3>2. PICK k \in 1 .. Len(w) : w[k] = f[m][j]
      BY <3>1 DEF Holds
    <3>3. k \in 1 .. Len(z)
      BY <1>1, <1>3
    <3> QED
      BY <1>3, <3>2, <3>3
  <2> QED
    BY <2>1, <2>2
<1>7. Holds(z, f, n)
  BY <1>5, <1>6 DEF Holds
<1> QED
  BY <1>7 DEF z, v

LEMMA JoinsHold ==
  ASSUME NEW T, NEW f \in Seq(Seq(T)), NEW g \in [1 .. Len(f) -> Seq(T)], Joins(g, f, Len(f)),
         NEW n \in 1 .. Len(f)
  PROVE  Holds(g[n], f, n)
<1> DEFINE X == {m \in 1 .. Len(f) : ~Holds(g[m], f, m)}
<1>1. SUFFICES ASSUME X # {} PROVE FALSE
  OBVIOUS
<1>2. PICK m \in X : \A u \in X : m <= u
  <2> HIDE DEF X
  <2>1. X \in SUBSET Nat
    BY DEF X
  <2> QED
    BY <1>1, <2>1, LeastNatural
<1>3. Len(f) \in Nat /\ m \in 1 .. Len(f) /\ f[m] \in Seq(T)
  OBVIOUS
<1>4. CASE m = 1
  <2>1. g[1] = f[1]
    BY <1>3, <1>4 DEF Joins
  <2>2. ASSUME NEW k \in 1 .. Len(f[1]) PROVE Taken(f[1], f, 1, k)
    <3>1. k \in Nat /\ 1 \in 1 .. 1
      BY <1>3, <1>4
    <3> QED
      BY <3>1 DEF Taken
  <2>3. Holds(f[1], f, 1)
    BY <2>2 DEF Holds
  <2> QED
    BY <1>4, <2>1, <2>3
<1>5. CASE m # 1
  <2>1. m - 1 \in 1 .. Len(f) /\ m - 1 \notin X
    BY <1>2, <1>3, <1>5
  <2>2. g[m] = g[m - 1] \o f[m] /\ g[m - 1] \in Seq(T)
    BY <1>3, <1>5, <2>1 DEF Joins
  <2>3. Holds(g[m - 1], f, m - 1)
    BY <2>1
  <2> QED
    BY <1>3, <1>5, <2>2, <2>3, JoinHolds
<1> QED
  BY <1>4, <1>5

(* FlattenSeq has the elements of the sequences it joins, each right after  *)
(* the one it follows there.                                                *)
LEMMA FlattenFact ==
  ASSUME NEW T, NEW f \in Seq(Seq(T))
  PROVE  FlattenSeq(f) \in Seq(T) /\ Holds(FlattenSeq(f), f, Len(f))
<1>1. Len(f) \in Nat
  OBVIOUS
<1>2. CASE Len(f) = 0
  <2>1. FlattenSeq(f) = f /\ f = <<>>
    BY <1>2 DEF FlattenSeq
  <2>2. <<>> \in Seq(T) /\ Len(<<>>) = 0
    OBVIOUS
  <2>3. Holds(<<>>, <<>>, 0)
    BY <2>2 DEF Holds
  <2> QED
    BY <1>2, <2>1, <2>2, <2>3
<1>3. CASE Len(f) # 0
  <2> DEFINE G == CHOOSE g : Joining(g, f)
  <2>1. FlattenSeq(f) = G[Len(f)]
    BY <1>3 DEF FlattenSeq, Joining
  <2>2. Len(f) \in 1 .. Len(f)
    BY <1>1, <1>3
  <2>3. PICK h \in [1 .. Len(f) -> Seq(T)] : Joins(h, f, Len(f))
    BY <2>2, JoiningExists
  <2>4. Joining(h, f)
    <3>1. h = [i \in 1 .. Len(f) |-> h[i]]
      OBVIOUS
    <3> QED
      BY <2>3, <3>1 DEF Joining, Joins
  <2>5. Joining(G, f)
    BY <2>4
  <2> HIDE DEF G
  <2>6. ASSUME NEW i \in 1 .. Len(f) PROVE G[i] = IF i = 1 THEN f[i] ELSE G[i - 1] \o f[i]
    BY <2>5 DEF Joining
  <2> DEFINE X == {m \in 1 .. Len(f) : G[m] # h[m]}
  <2>7. X = {}
    <3> SUFFICES ASSUME X # {} PROVE FALSE
      OBVIOUS
    <3>1. PICK m \in X : \A u \in X : m <= u
      <4> HIDE DEF X
      <4>1. X \in SUBSET Nat
        BY DEF X
      <4> QED
        BY <4>1, LeastNatural
    <3>2. m \in 1 .. Len(f) /\ h[m] = IF m = 1 THEN f[m] ELSE h[m - 1] \o f[m]
      BY <2>3 DEF Joins
    <3>3. m # 1 => m - 1 \in 1 .. Len(f) /\ m - 1 \notin X
      BY <1>1, <3>1, <3>2
    <3>4. m # 1 => G[m - 1] = h[m - 1]
      BY <3>3
    <3> QED
      BY <2>6, <3>1, <3>2, <3>4
  <2>8. G[Len(f)] = h[Len(f)]
    BY <2>2, <2>7
  <2> QED
    BY <2>1, <2>2, <2>3, <2>8, JoinsHold
<1> QED
  BY <1>2, <1>3

(* SetToSeq lists a finite set. *)
LEMMA SetToSeqFact ==
  ASSUME NEW S, IsFiniteSet(S)
  PROVE  SetToSeq(S) \in Seq(S)
<1>1. Cardinality(S) \in Nat
  BY FS_CardinalityType
<1>2. PICK f : f \in Bijection(1 .. Cardinality(S), S)
  BY FS_CardinalityType DEF ExistsBijection
<1>3. f \in [1 .. Cardinality(S) -> S] /\ IsInjective(f)
  BY <1>2, Fun_BijectionProperties DEF IsInjective, Bijection, Injection
<1>4. SetToSeq(S) \in [1 .. Cardinality(S) -> S]
  BY <1>3 DEF SetToSeq
<1> QED
  BY <1>1, <1>4

-----------------------------------------------------------------------------
(* What an import does, in order. *)

Row == [item : Item \cup {Blank}, data : Value, usa : Value \cup {Blank}, valid : BOOLEAN]

LEMMA UsaTyped ==
  ASSUME NEW s \in Snapshot, NEW i
  PROVE  UsaName(s, i) \in Value \cup {Blank} /\ UsaIssue(s, i) \in Reasons \cup {None}
<1>1. CASE Cardinality(UsaNames(s, i)) = 1
  <2>1. UsaNames(s, i) # {}
    BY <1>1, FS_EmptySet
  <2>2. (CHOOSE n \in UsaNames(s, i) : TRUE) \in UsaNames(s, i)
    BY <2>1
  <2>3. \A n \in UsaNames(s, i) : ChangeName[s][n].name \in Value \cup {Blank}
    <3> DEFINE R == [item : Item \cup {Blank}, name : Value \cup {Blank}]
               c == ChangeName[s]
    <3>1. c \in Seq(R)
      BY SnapshotAssumption
    <3>2. \A r \in R : r.name \in Value \cup {Blank}
      OBVIOUS
    <3>3. UsaNames(s, i) \subseteq DOMAIN c
      BY DEF UsaNames
    <3> HIDE DEF c, R
    <3>4. \A n \in DOMAIN c : c[n] \in R
      BY <3>1
    <3>5. \A n \in UsaNames(s, i) : c[n].name \in Value \cup {Blank}
      BY <3>2, <3>3, <3>4
    <3> QED
      BY <3>5 DEF c
  <2>4. UsaName(s, i) \in Value \cup {Blank}
    BY <1>1, <2>2, <2>3 DEF UsaName
  <2> QED
    BY <2>4 DEF UsaIssue, Reasons
<1>2. CASE Cardinality(UsaNames(s, i)) # 1
  BY <1>2 DEF UsaName, UsaIssue, Reasons
<1> QED
  BY <1>1, <1>2

LEMMA ReasonTyped ==
  ASSUME NEW s \in Snapshot, NEW row \in Row
  PROVE  /\ Reason(s, row) \in Reasons \cup {None}
         /\ Reason(s, row) = None => row.item \in Item
BY AbsenceAssumption DEF Reason, Reasons, Row

(* The transactions for a row: one to insert it if the row is admitted,     *)
(* then perhaps one to fill in its name; a rejected row inserts nothing.    *)
RowMeets(T, s, row) ==
  /\ T \in Seq(Transaction)
  /\ \A j \in 1 .. Len(T) :
       /\ T[j].op \in {"insert", "fill", "quarantine"}
       /\ T[j].op \in {"insert", "fill"} => Reason(s, row) = None /\ T[j].item = row.item
       /\ T[j].op = "fill" => j # 1 /\ T[j - 1].op = "insert" /\ T[j - 1].item = T[j].item
  /\ Reason(s, row) = None => \E j \in 1 .. Len(T) : T[j].op = "insert" /\ T[j].item = row.item
  /\ Reason(s, row) = None /\ Usa(s, row) # Blank /\ UsaIssue(s, row.item) = None =>
       \E j \in 1 .. Len(T) : T[j].op = "fill" /\ T[j].item = row.item

LEMMA ThreeParts ==
  ASSUME NEW a, NEW b
  PROVE  /\ <<a>> \o <<b>> \o <<>> = <<a, b>>
         /\ <<a>> \o <<>> \o <<b>> = <<a, b>>
<1> DEFINE T == {a, b}
<1>1. <<a>> \in Seq(T) /\ <<b>> \in Seq(T) /\ <<a, b>> \in Seq(T)
  OBVIOUS
<1>2. <<a>> \o <<b>> = <<a, b>>
  <2>1. <<a>> \o <<b>> \in Seq(T) /\ Len(<<a>> \o <<b>>) = 2
    BY <1>1
  <2>2. (<<a>> \o <<b>>)[1] = a /\ (<<a>> \o <<b>>)[2] = b
    BY <1>1
  <2> DEFINE x == <<a>> \o <<b>>
  <2>3. x \in Seq(T) /\ Len(x) = 2 /\ x[1] = a /\ x[2] = b
    BY <2>1, <2>2
  <2> HIDE DEF x, T
  <2>4. x = <<a, b>>
    BY <2>3
  <2> QED
    BY <2>4 DEF x
<1> HIDE DEF T
<1>3. <<a, b>> \o <<>> = <<a, b>> /\ <<a>> \o <<>> = <<a>>
  BY <1>1, ConcatEmptySeq
<1> QED
  BY <1>2, <1>3, Zenon

LEMMA TransactionsFact ==
  ASSUME NEW s \in Snapshot, NEW row \in Row
  PROVE  RowMeets(TransactionsOf(s, row), s, row)
<1> DEFINE issue == UsaIssue(s, row.item)
           usa == Usa(s, row)
           ins == [op |-> "insert", item |-> row.item, data |-> row.data, usa |-> usa]
           fil == [op |-> "fill", item |-> row.item, usa |-> usa]
<1>1. /\ issue \in Reasons \cup {None} /\ usa \in Value \cup {Blank}
      /\ row.item \in Item \cup {Blank} /\ row.data \in Value
  BY UsaTyped DEF Usa, Row
<1>2. Reason(s, row) \in Reasons \cup {None} /\ (Reason(s, row) = None => row.item \in Item)
  BY ReasonTyped
<1>3. \A r \in Reasons : Quarantine(row.item, r) \in Transaction /\ Quarantine(row.item, r).op = "quarantine"
  BY <1>1 DEF Quarantine, Transaction
<1>4. CASE Reason(s, row) # None
  <2>1. TransactionsOf(s, row) = <<Quarantine(row.item, Reason(s, row))>>
    BY <1>4 DEF TransactionsOf
  <2>2. Reason(s, row) \in Reasons
    BY <1>2, <1>4
  <2>3. Quarantine(row.item, Reason(s, row)) \in Transaction /\ Quarantine(row.item, Reason(s, row)).op = "quarantine"
    BY <1>3, <2>2
  <2> QED
    BY <1>4, <2>1, <2>3 DEF RowMeets
<1>5. CASE Reason(s, row) = None
  <2>1. ins \in Transaction /\ ins.op = "insert" /\ ins.item = row.item
    BY <1>1, <1>2, <1>5 DEF Transaction
  <2>2. fil.op = "fill" /\ fil.item = row.item
    OBVIOUS
  <2>3. usa # Blank => fil \in Transaction
    BY <1>1, <1>2, <1>5 DEF Transaction
  <2>4. TransactionsOf(s, row) = <<ins>>
          \o (IF usa # Blank /\ issue = None THEN <<fil>> ELSE <<>>)
          \o (IF issue # None THEN <<Quarantine(row.item, issue)>> ELSE <<>>)
    BY <1>5 DEF TransactionsOf
  <2>5. issue # None => Quarantine(row.item, issue) \in Transaction /\ Quarantine(row.item, issue).op = "quarantine"
    BY <1>1, <1>3
  <2> HIDE DEF ins, fil, issue, usa
  <2>6. CASE usa # Blank /\ issue = None
    <3>1. TransactionsOf(s, row) = <<ins, fil>>
      <4>1. TransactionsOf(s, row) = <<ins>> \o <<fil>> \o <<>>
        BY <2>4, <2>6, Zenon
      <4>2. <<ins>> \o <<fil>> \o <<>> = <<ins, fil>>
        BY ThreeParts
      <4> QED
        BY <4>1, <4>2, Zenon
    <3> QED
      BY <1>5, <2>1, <2>2, <2>3, <2>6, <3>1 DEF RowMeets
  <2>7. CASE issue # None
    <3>1. TransactionsOf(s, row) = <<ins, Quarantine(row.item, issue)>>
      <4>1. TransactionsOf(s, row) = <<ins>> \o <<>> \o <<Quarantine(row.item, issue)>>
        BY <2>4, <2>7, Zenon
      <4>2. <<ins>> \o <<>> \o <<Quarantine(row.item, issue)>> = <<ins, Quarantine(row.item, issue)>>
        BY ThreeParts
      <4> QED
        BY <4>1, <4>2, Zenon
    <3> QED
      BY <1>5, <2>1, <2>5, <2>7, <3>1 DEF RowMeets, issue
  <2>8. CASE usa = Blank /\ issue = None
    <3>1. TransactionsOf(s, row) = <<ins>>
      BY <2>4, <2>8
    <3> QED
      BY <1>5, <2>1, <2>8, <3>1 DEF RowMeets, usa
  <2> QED
    BY <2>6, <2>7, <2>8
<1> QED
  BY <1>4, <1>5

RowWork(s) == [n \in DOMAIN Listed[s] |-> TransactionsOf(s, Listed[s][n])]
Orphans(s) == LET unmatched == SetToSeq(Overridden \ ListedItems(s)) IN
  [n \in DOMAIN unmatched |-> Quarantine(unmatched[n], "unmatched_override")]

LEMMA ListedRows ==
  ASSUME NEW s \in Snapshot
  PROVE  /\ Len(Listed[s]) \in Nat /\ DOMAIN Listed[s] = 1 .. Len(Listed[s])
         /\ \A n \in DOMAIN Listed[s] : Listed[s][n] \in Row
<1>1. Listed[s] \in Seq(Row)
  BY SnapshotAssumption DEF Row
<1> QED
  BY <1>1

LEMMA RowWorkFact ==
  ASSUME NEW s \in Snapshot
  PROVE  /\ RowWork(s) \in Seq(Seq(Transaction)) /\ Len(RowWork(s)) = Len(Listed[s])
         /\ \A n \in DOMAIN Listed[s] : RowMeets(RowWork(s)[n], s, Listed[s][n])
<1>1. \A n \in DOMAIN Listed[s] : RowMeets(TransactionsOf(s, Listed[s][n]), s, Listed[s][n])
  BY ListedRows, TransactionsFact
<1>2. \A n \in DOMAIN Listed[s] : TransactionsOf(s, Listed[s][n]) \in Seq(Transaction)
  BY <1>1 DEF RowMeets
<1> QED
  BY <1>1, <1>2, ListedRows DEF RowWork

LEMMA OrphansFact ==
  ASSUME NEW s \in Snapshot
  PROVE  /\ Orphans(s) \in Seq(Transaction)
         /\ \A k \in 1 .. Len(Orphans(s)) : Orphans(s)[k].op = "quarantine"
<1> DEFINE U == Overridden \ ListedItems(s)
           u == SetToSeq(U)
<1>1. IsFiniteSet(U)
  BY OverrideAssumption, FS_Subset DEF Overridden
<1>2. u \in Seq(U)
  BY <1>1, SetToSeqFact
<1>3. \A i \in U : Quarantine(i, "unmatched_override") \in Transaction
  BY DEF Overridden, Quarantine, Transaction, Reasons
<1>4. Orphans(s) = [n \in DOMAIN u |-> Quarantine(u[n], "unmatched_override")]
  BY DEF Orphans
<1> HIDE DEF u, U
<1> QED
  BY <1>2, <1>3, <1>4 DEF Quarantine

(* Where the parts of an import are. *)
LEMMA ImportShape ==
  ASSUME NEW s \in Snapshot
  PROVE  LET F == FlattenSeq(RowWork(s))  U == Orphans(s) IN
         /\ F \in Seq(Transaction) /\ U \in Seq(Transaction)
         /\ Import(s) \in Seq(Transaction) /\ Len(Import(s)) = Len(F) + Len(U) + 2
         /\ Import(s)[1] = [op |-> "clear", of |-> s]
         /\ \A k \in 1 .. Len(F) : Import(s)[k + 1] = F[k]
         /\ \A k \in 1 .. Len(U) : Import(s)[Len(F) + 1 + k] = U[k]
         /\ Import(s)[Len(F) + Len(U) + 2] = [op |-> "done", of |-> s]
<1> DEFINE F == FlattenSeq(RowWork(s))
           U == Orphans(s)
           a == <<[op |-> "clear", of |-> s]>>
           b == <<[op |-> "done", of |-> s]>>
<1>1. F \in Seq(Transaction) /\ U \in Seq(Transaction)
  BY RowWorkFact, FlattenFact, OrphansFact
<1>2. a \in Seq(Transaction) /\ b \in Seq(Transaction) /\ Len(a) = 1 /\ Len(b) = 1
  BY DEF Transaction
<1>3. Import(s) = (a \o F) \o (U \o b)
  <2> HIDE DEF FlattenSeq
  <2>1. Import(s) = a \o F \o (U \o b)
    BY DEF Import, RowWork, Orphans
  <2> QED
    BY <2>1
<1>4. a[1] = [op |-> "clear", of |-> s] /\ b[1] = [op |-> "done", of |-> s]
  OBVIOUS
<1> HIDE DEF F, U, a, b
<1>5. /\ a \o F \in Seq(Transaction) /\ Len(a \o F) = 1 + Len(F)
      /\ (a \o F)[1] = a[1] /\ \A k \in 1 .. Len(F) : (a \o F)[k + 1] = F[k]
  <2>1. /\ a \o F \in Seq(Transaction) /\ Len(a \o F) = Len(a) + Len(F)
        /\ \A i \in 1 .. Len(a) + Len(F) : (a \o F)[i] = IF i <= Len(a) THEN a[i] ELSE F[i - Len(a)]
    BY <1>1, <1>2, ConcatProperties
  <2>2. Len(F) \in Nat
    BY <1>1
  <2> QED
    BY <1>2, <2>1, <2>2
<1>6. /\ U \o b \in Seq(Transaction) /\ Len(U \o b) = Len(U) + 1
      /\ (U \o b)[Len(U) + 1] = b[1] /\ \A k \in 1 .. Len(U) : (U \o b)[k] = U[k]
  <2>1. /\ U \o b \in Seq(Transaction) /\ Len(U \o b) = Len(U) + Len(b)
        /\ \A i \in 1 .. Len(U) + Len(b) : (U \o b)[i] = IF i <= Len(U) THEN U[i] ELSE b[i - Len(U)]
    BY <1>1, <1>2, ConcatProperties
  <2>2. Len(U) \in Nat
    BY <1>1
  <2> QED
    BY <1>2, <2>1, <2>2
<1> DEFINE x == a \o F
           y == U \o b
<1>7. x \in Seq(Transaction) /\ y \in Seq(Transaction) /\ Import(s) = x \o y
  BY <1>3, <1>5, <1>6
<1>8. Len(F) \in Nat /\ Len(U) \in Nat /\ Len(x) = 1 + Len(F) /\ Len(y) = Len(U) + 1
  BY <1>1, <1>5, <1>6
<1>9. /\ x[1] = a[1] /\ \A k \in 1 .. Len(F) : x[k + 1] = F[k]
      /\ y[Len(U) + 1] = b[1] /\ \A k \in 1 .. Len(U) : y[k] = U[k]
  BY <1>5, <1>6
<1> HIDE DEF x, y
<1>10. /\ Import(s) \in Seq(Transaction) /\ Len(Import(s)) = Len(x) + Len(y)
       /\ \A i \in 1 .. Len(x) + Len(y) : Import(s)[i] = IF i <= Len(x) THEN x[i] ELSE y[i - Len(x)]
  BY <1>7, ConcatProperties
<1>11. Import(s)[1] = a[1]
  BY <1>8, <1>9, <1>10
<1>12. ASSUME NEW k \in 1 .. Len(F) PROVE Import(s)[k + 1] = F[k]
  BY <1>8, <1>9, <1>10
<1>13. ASSUME NEW k \in 1 .. Len(U) PROVE Import(s)[Len(F) + 1 + k] = U[k]
  <2>1. Len(F) + 1 + k \in 1 .. Len(x) + Len(y) /\ ~(Len(F) + 1 + k <= Len(x)) /\ Len(F) + 1 + k - Len(x) = k
    BY <1>8
  <2> QED
    BY <1>9, <1>10, <2>1
<1>14. Import(s)[Len(F) + Len(U) + 2] = b[1]
  <2> DEFINE n == Len(F) + Len(U) + 2
  <2>1. n \in 1 .. Len(x) + Len(y) /\ ~(n <= Len(x)) /\ n - Len(x) = Len(U) + 1
    BY <1>8
  <2> QED
    BY <1>9, <1>10, <2>1
<1>15. Len(Import(s)) = Len(F) + Len(U) + 2
  BY <1>8, <1>10
<1> QED
  BY <1>1, <1>4, <1>10, <1>11, <1>12, <1>13, <1>14, <1>15 DEF F, U

(* An import clears the quarantine, takes the rows it lists, and returns.   *)
ImportMeets(w, s) ==
  /\ w \in Seq(Transaction) /\ Len(w) \in Nat /\ Len(w) >= 2
  /\ w[1].op = "clear" /\ w[1].of = s /\ w[Len(w)].op = "done" /\ w[Len(w)].of = s
  /\ \A k \in 2 .. Len(w) - 1 :
       /\ w[k].op \in {"insert", "fill", "quarantine"}
       /\ w[k].op = "insert" => w[k].item \in Admitted(s)
       /\ w[k].op = "fill" => w[k - 1].op = "insert" /\ w[k - 1].item = w[k].item
  /\ \A n \in DOMAIN Listed[s] : LET row == Listed[s][n] IN Reason(s, row) = None =>
       /\ \E k \in 1 .. Len(w) : w[k].op = "insert" /\ w[k].item = row.item
       /\ Usa(s, row) # Blank /\ UsaIssue(s, row.item) = None =>
            \E k \in 1 .. Len(w) : w[k].op = "fill" /\ w[k].item = row.item

LEMMA AdmittedRow ==
  ASSUME NEW s \in Snapshot, NEW n \in DOMAIN Listed[s], Reason(s, Listed[s][n]) = None
  PROVE  Listed[s][n].item \in Admitted(s)
<1> DEFINE i == Listed[s][n].item
           S == {m \in DOMAIN Listed[s] : Listed[s][m].item = i}
<1>1. i \in Item
  BY ListedRows, ReasonTyped
<1>2. n \in S /\ IsFiniteSet(S)
  <2>1. IsFiniteSet(1 .. Len(Listed[s]))
    BY ListedRows, FS_Interval
  <2> QED
    BY <2>1, ListedRows, FS_Subset
<1>3. Cardinality(S) \in Nat /\ Cardinality(S) # 0
  BY <1>2, FS_EmptySet, FS_CardinalityType
<1>4. Listings(s, i) = Cardinality(S)
  BY DEF Listings
<1> HIDE DEF i, S
<1>5. i \in ListedItems(s)
  BY <1>1, <1>3, <1>4 DEF ListedItems
<1> QED
  BY <1>5 DEF Admitted, i

LEMMA ImportFact == ASSUME NEW s \in Snapshot PROVE ImportMeets(Import(s), s)
<1> DEFINE w == Import(s)
           F == FlattenSeq(RowWork(s))
           U == Orphans(s)
           f == RowWork(s)
<1>1. /\ F \in Seq(Transaction) /\ U \in Seq(Transaction)
      /\ w \in Seq(Transaction) /\ Len(w) = Len(F) + Len(U) + 2
      /\ w[1] = [op |-> "clear", of |-> s]
      /\ \A k \in 1 .. Len(F) : w[k + 1] = F[k]
      /\ \A k \in 1 .. Len(U) : w[Len(F) + 1 + k] = U[k]
      /\ w[Len(F) + Len(U) + 2] = [op |-> "done", of |-> s]
  BY ImportShape
<1>2. f \in Seq(Seq(Transaction)) /\ Len(f) = Len(Listed[s]) /\ Len(f) \in Nat
      /\ \A n \in 1 .. Len(f) : n \in DOMAIN Listed[s] /\ RowMeets(f[n], s, Listed[s][n])
  BY RowWorkFact, ListedRows
<1>3. Holds(F, f, Len(f))
  BY <1>2, FlattenFact
<1>4. \A k \in 1 .. Len(U) : U[k].op = "quarantine"
  BY OrphansFact
<1>5. Len(F) \in Nat /\ Len(U) \in Nat /\ DOMAIN Listed[s] = 1 .. Len(f)
  BY <1>1, <1>2, ListedRows
<1> HIDE DEF w, F, U, f
<1>6. ASSUME NEW k \in 1 .. Len(F)
      PROVE  /\ F[k].op \in {"insert", "fill", "quarantine"}
             /\ F[k].op = "insert" => F[k].item \in Admitted(s)
             /\ F[k].op = "fill" => k # 1 /\ F[k - 1].op = "insert" /\ F[k - 1].item = F[k].item
  <2>1. PICK m \in 1 .. Len(f), j \in Nat :
          /\ j \in 1 .. Len(f[m]) /\ F[k] = f[m][j]
          /\ j # 1 => k # 1 /\ F[k - 1] = f[m][j - 1]
    BY <1>3 DEF Holds, Taken
  <2>2. m \in DOMAIN Listed[s] /\ RowMeets(f[m], s, Listed[s][m])
    BY <1>2
  <2> DEFINE t == f[m][j]
  <2>3. /\ t.op \in {"insert", "fill", "quarantine"}
        /\ t.op \in {"insert", "fill"} => Reason(s, Listed[s][m]) = None /\ t.item = Listed[s][m].item
        /\ t.op = "fill" => j # 1 /\ f[m][j - 1].op = "insert" /\ f[m][j - 1].item = t.item
    BY <2>1, <2>2 DEF RowMeets
  <2>4. F[k] = t
    BY <2>1
  <2> HIDE DEF t
  <2>5. t.op = "insert" => t.item \in Admitted(s)
    BY <2>2, <2>3, AdmittedRow
  <2> QED
    BY <2>1, <2>3, <2>4, <2>5
<1>7. ASSUME NEW k \in 2 .. Len(w) - 1
      PROVE  /\ w[k].op \in {"insert", "fill", "quarantine"}
             /\ w[k].op = "insert" => w[k].item \in Admitted(s)
             /\ w[k].op = "fill" => w[k - 1].op = "insert" /\ w[k - 1].item = w[k].item
  <2>1. CASE k - 1 <= Len(F)
    <3>1. k - 1 \in 1 .. Len(F) /\ (k - 1) + 1 = k /\ k \in Int
      BY <1>1, <1>5, <2>1
    <3>2. w[k] = F[k - 1]
      BY <1>1, <3>1
    <3>3. k - 1 # 1 => (k - 1) - 1 \in 1 .. Len(F) /\ ((k - 1) - 1) + 1 = k - 1
      BY <1>5, <3>1
    <3>4. k - 1 # 1 => w[k - 1] = F[(k - 1) - 1]
      BY <1>1, <3>3
    <3> DEFINE j == k - 1
    <3>5. /\ F[j].op \in {"insert", "fill", "quarantine"}
          /\ F[j].op = "insert" => F[j].item \in Admitted(s)
          /\ F[j].op = "fill" => j # 1 /\ F[j - 1].op = "insert" /\ F[j - 1].item = F[j].item
      BY <1>6, <3>1
    <3>6. w[k] = F[j] /\ (j # 1 => w[k - 1] = F[j - 1])
      BY <3>2, <3>4
    <3> HIDE DEF j
    <3> QED
      BY <3>5, <3>6
  <2>2. CASE ~(k - 1 <= Len(F))
    <3> DEFINE j == k - 1 - Len(F)
    <3>1. j \in 1 .. Len(U) /\ Len(F) + 1 + j = k
      BY <1>1, <1>5, <2>2
    <3>2. w[k] = U[j]
      BY <1>1, <3>1
    <3> QED
      BY <1>4, <3>1, <3>2
  <2> QED
    BY <2>1, <2>2
<1>8. ASSUME NEW n \in DOMAIN Listed[s], NEW j \in 1 .. Len(f[n])
      PROVE  \E k \in 1 .. Len(w) : w[k] = f[n][j]
  <2>1. PICK k \in 1 .. Len(F) : F[k] = f[n][j]
    BY <1>3, <1>5 DEF Holds
  <2>2. k + 1 \in 1 .. Len(w) /\ w[k + 1] = F[k]
    BY <1>1, <1>5
  <2> QED
    BY <2>1, <2>2
<1>9. ASSUME NEW n \in DOMAIN Listed[s], Reason(s, Listed[s][n]) = None
      PROVE  /\ \E k \in 1 .. Len(w) : w[k].op = "insert" /\ w[k].item = Listed[s][n].item
             /\ Usa(s, Listed[s][n]) # Blank /\ UsaIssue(s, Listed[s][n].item) = None =>
                  \E k \in 1 .. Len(w) : w[k].op = "fill" /\ w[k].item = Listed[s][n].item
  <2>1. RowMeets(f[n], s, Listed[s][n])
    BY <1>2, <1>5
  <2>2. PICK j \in 1 .. Len(f[n]) : f[n][j].op = "insert" /\ f[n][j].item = Listed[s][n].item
    BY <1>9, <2>1 DEF RowMeets
  <2>3. \E k \in 1 .. Len(w) : w[k].op = "insert" /\ w[k].item = Listed[s][n].item
    BY <1>8, <2>2
  <2>4. ASSUME Usa(s, Listed[s][n]) # Blank, UsaIssue(s, Listed[s][n].item) = None
        PROVE  \E k \in 1 .. Len(w) : w[k].op = "fill" /\ w[k].item = Listed[s][n].item
    <3>1. PICK j2 \in 1 .. Len(f[n]) : f[n][j2].op = "fill" /\ f[n][j2].item = Listed[s][n].item
      BY <1>9, <2>1, <2>4 DEF RowMeets
    <3> QED
      BY <1>8, <3>1
  <2> QED
    BY <2>3, <2>4
<1>10. w \in Seq(Transaction) /\ Len(w) \in Nat /\ Len(w) >= 2
  BY <1>1, <1>5
<1>11. w[1].op = "clear" /\ w[1].of = s /\ w[Len(w)].op = "done" /\ w[Len(w)].of = s
  BY <1>1
<1> QED
  BY <1>7, <1>9, <1>10, <1>11 DEF ImportMeets, w


-----------------------------------------------------------------------------
(* Where a process stands in its work. *)

(* What a committed transaction of an import has left behind. *)
Titled(i) == items[i] # None /\ (items[i].created \/ items[i].usa # Blank)
Named(i) == items[i] # None /\ (Override[i] = None => Titled(i))
Left(t) == /\ t.op = "insert" => items[t.item] # None
           /\ t.op = "fill" => Named(t.item)

(* An import of s and the change, if any, it was run for. *)
Work(s, rest) == Import(s) \o rest
Rests(p) == {<<>>} \cup (IF p = "server" THEN {<<change>> : change \in Changes} ELSE {})

(* What an import has quarantined before its k-th transaction. *)
RejectedBefore(s, k) ==
  {[item |-> Import(s)[n].item, reason |-> Import(s)[n].reason] :
     n \in {m \in 1 .. k - 1 : Import(s)[m].op = "quarantine"}}

(* A process that imports s, its next transaction the k-th. *)
Importing(p, s, rest, k) ==
  /\ pending[p] = SubSeq(Work(s, rest), k, Len(Work(s, rest)))
  /\ \A n \in 1 .. Len(Import(s)) : n < k => Left(Import(s)[n])
  /\ k # 1 => swept # None
  /\ k # 1 /\ k <= Len(Import(s)) /\ swept.by = p =>
       /\ swept.of = s /\ ~swept.done
       /\ RejectedBefore(s, k) \subseteq quarantine
       /\ swept.alone => quarantine = RejectedBefore(s, k)

(* Every process is somewhere in its work, or has none. *)
Progress(p) == pending[p] = <<>> \/ \E s \in Snapshot, rest \in Rests(p) :
  \E k \in 1 .. Len(Work(s, rest)) : Importing(p, s, rest, k)
InProgress == \A p \in Process : Progress(p)

(* The transaction t is the k-th that a process p importing s commits. *)
Stands(t, p, s, rest, k) ==
  /\ t = Work(s, rest)[k] /\ t \in Transaction
  /\ t.op = "clear" => k = 1 /\ t.of = s
  /\ t.op = "done" => k = Len(Import(s)) /\ t.of = s
  /\ t.op \in {"insert", "fill", "quarantine"} => k \in 2 .. Len(Import(s)) - 1 /\ t = Import(s)[k]
  /\ t.op \in {"edit", "create", "archive"} => k = Len(Work(s, rest)) /\ k > Len(Import(s)) /\ p = "server"
  /\ k > Len(Import(s)) => t \in Changes
  /\ k = 1 => t.op = "clear"

LEMMA WorkFact ==
  ASSUME NEW s \in Snapshot, NEW p \in Process, NEW rest \in Rests(p)
  PROVE  /\ Work(s, rest) \in Seq(Transaction) /\ Len(Work(s, rest)) \in Nat
         /\ Len(Import(s)) \in Nat /\ Len(Import(s)) >= 2 /\ Len(Import(s)) <= Len(Work(s, rest))
         /\ \A k \in 1 .. Len(Import(s)) : Work(s, rest)[k] = Import(s)[k]
         /\ \A k \in 1 .. Len(Work(s, rest)) : k > Len(Import(s)) =>
              k = Len(Work(s, rest)) /\ p = "server" /\ Work(s, rest)[k] \in Changes
<1> DEFINE x == Import(s)
<1>1. x \in Seq(Transaction) /\ Len(x) \in Nat /\ Len(x) >= 2
  BY ImportFact DEF ImportMeets
<1>2. \/ rest = <<>>
      \/ p = "server" /\ \E change \in Changes : rest = <<change>>
  BY DEF Rests
<1>3. CASE rest = <<>>
  <2>1. Work(s, rest) = x
    BY <1>1, <1>3, ConcatEmptySeq DEF Work
  <2> HIDE DEF x
  <2> QED
    BY <1>1, <2>1 DEF x
<1>4. CASE p = "server" /\ \E change \in Changes : rest = <<change>>
  <2>1. PICK change \in Changes : rest = <<change>>
    BY <1>4
  <2>2. change \in Transaction
    BY ChangesAssumption DEF Transaction
  <2> DEFINE y == <<change>>
  <2>3. y \in Seq(Transaction) /\ Len(y) = 1 /\ y[1] = change
    BY <2>2
  <2>4. Work(s, rest) = x \o y
    BY <2>1 DEF Work
  <2> HIDE DEF x, y
  <2>5. /\ x \o y \in Seq(Transaction) /\ Len(x \o y) = Len(x) + Len(y)
        /\ \A k \in 1 .. Len(x) + Len(y) : (x \o y)[k] = IF k <= Len(x) THEN x[k] ELSE y[k - Len(x)]
    BY <1>1, <2>3, ConcatProperties
  <2> DEFINE z == x \o y
  <2>6. z \in Seq(Transaction) /\ Len(z) = Len(x) + 1 /\ z[Len(x) + 1] = change
        /\ \A k \in 1 .. Len(x) : z[k] = x[k]
    BY <1>1, <2>3, <2>5
  <2>7. Work(s, rest) = z
    BY <2>4
  <2> HIDE DEF z
  <2>8. ASSUME NEW k \in 1 .. Len(z), k > Len(x) PROVE k = Len(z) /\ z[k] \in Changes
    BY <1>1, <2>6, <2>8
  <2> QED
    BY <1>1, <1>4, <2>6, <2>7, <2>8 DEF x
<1> QED
  BY <1>2, <1>3, <1>4

LEMMA StandsFact ==
  ASSUME NEW s \in Snapshot, NEW p \in Process, NEW rest \in Rests(p), NEW k \in 1 .. Len(Work(s, rest))
  PROVE  Stands(Work(s, rest)[k], p, s, rest, k)
<1> DEFINE w == Work(s, rest)
           x == Import(s)
           t == w[k]
<1>1. /\ w \in Seq(Transaction) /\ Len(w) \in Nat /\ Len(x) \in Nat /\ Len(x) >= 2 /\ Len(x) <= Len(w)
      /\ \A n \in 1 .. Len(x) : w[n] = x[n]
      /\ \A n \in 1 .. Len(w) : n > Len(x) => n = Len(w) /\ p = "server" /\ w[n] \in Changes
  BY WorkFact
<1>2. /\ x[1].op = "clear" /\ x[1].of = s /\ x[Len(x)].op = "done" /\ x[Len(x)].of = s
      /\ \A n \in 2 .. Len(x) - 1 : x[n].op \in {"insert", "fill", "quarantine"}
  BY ImportFact DEF ImportMeets
<1>3. \A change \in Changes : change.op \in {"edit", "create", "archive"}
  BY ChangesAssumption DEF Change
<1> SUFFICES Stands(t, p, s, rest, k)
  OBVIOUS
<1>4. k \in Nat /\ k >= 1 /\ k <= Len(w) /\ t \in Transaction /\ t = Work(s, rest)[k]
  BY <1>1
<1>5. t = w[k]
  OBVIOUS
<1>6. Len(w) = Len(Work(s, rest)) /\ x = Import(s)
  OBVIOUS
<1> HIDE DEF w, x, t
<1>7. CASE k = 1
  <2>1. t.op = "clear" /\ t.of = s /\ ~(k > Len(x))
    BY <1>1, <1>2, <1>5, <1>7
  <2> QED
    BY <1>4, <1>6, <1>7, <2>1 DEF Stands
<1>8. CASE k \in 2 .. Len(x) - 1
  <2>1. t = x[k] /\ t.op \in {"insert", "fill", "quarantine"} /\ ~(k > Len(x)) /\ k # 1
    BY <1>1, <1>2, <1>5, <1>8
  <2> QED
    BY <1>4, <1>6, <1>8, <2>1 DEF Stands
<1>9. CASE k = Len(x)
  <2>1. t.op = "done" /\ t.of = s /\ ~(k > Len(x)) /\ k # 1
    BY <1>1, <1>2, <1>5, <1>9
  <2> QED
    BY <1>4, <1>6, <1>9, <2>1 DEF Stands
<1>10. CASE k > Len(x)
  <2>1. t \in Changes /\ k = Len(w) /\ p = "server" /\ k # 1
    BY <1>1, <1>4, <1>5, <1>10
  <2>2. t.op \in {"edit", "create", "archive"}
    BY <1>3, <2>1
  <2> QED
    BY <1>4, <1>6, <1>10, <2>1, <2>2 DEF Stands
<1> QED
  BY <1>1, <1>4, <1>7, <1>8, <1>9, <1>10

LEMMA CurrentFact ==
  ASSUME NEW p \in Process, Progress(p), pending[p] # <<>>
  PROVE  \E s \in Snapshot, rest \in Rests(p) : \E k \in 1 .. Len(Work(s, rest)) :
           /\ Importing(p, s, rest, k) /\ Stands(Head(pending[p]), p, s, rest, k)
           /\ Tail(pending[p]) = SubSeq(Work(s, rest), k + 1, Len(Work(s, rest)))
           /\ k = Len(Work(s, rest)) => Tail(pending[p]) = <<>>
<1>1. PICK s \in Snapshot, rest \in Rests(p) : \E k \in 1 .. Len(Work(s, rest)) : Importing(p, s, rest, k)
  BY DEF Progress
<1>2. PICK k \in 1 .. Len(Work(s, rest)) : Importing(p, s, rest, k)
  BY <1>1
<1> DEFINE w == Work(s, rest)
<1>3. w \in Seq(Transaction) /\ Len(w) \in Nat /\ pending[p] = SubSeq(w, k, Len(w)) /\ k \in 1 .. Len(w)
  BY <1>2, WorkFact DEF Importing
<1>4. Stands(w[k], p, s, rest, k)
  BY StandsFact
<1> HIDE DEF w
<1>5. Len(w) \in k .. Len(w)
  BY <1>3
<1>6. Head(pending[p]) = w[k] /\ Tail(pending[p]) = SubSeq(w, k + 1, Len(w))
  BY <1>3, <1>5, HeadTailOfSubSeq
<1>7. ASSUME k = Len(w) PROVE SubSeq(w, k + 1, Len(w)) = <<>>
  <2>1. k + 1 \in Int /\ Len(w) \in Int /\ Len(w) < k + 1
    BY <1>3, <1>7
  <2> QED
    BY <2>1, SubSeqEmpty
<1>8. Stands(Head(pending[p]), p, s, rest, k)
  BY <1>4, <1>6
<1> QED
  BY <1>2, <1>6, <1>7, <1>8 DEF w

(* A process that starts an import has all of it before it. *)
LEMMA StartFact ==
  ASSUME NEW s \in Snapshot, NEW p \in Process, NEW rest \in Rests(p), pending'[p] = Work(s, rest)
  PROVE  /\ Progress(p)' /\ pending'[p] \in Seq(Transaction)
         /\ pending'[p] # <<>> /\ Head(pending'[p]).op = "clear"
<1> DEFINE w == Work(s, rest)
<1>1. w \in Seq(Transaction) /\ Len(w) \in Nat /\ Len(w) >= 2 /\ pending'[p] = w
  BY WorkFact
<1>2. Stands(w[1], p, s, rest, 1)
  <2>1. 1 \in 1 .. Len(Work(s, rest))
    BY <1>1
  <2> QED
    BY <2>1, StandsFact
<1>3. w[1].op = "clear"
  BY <1>2 DEF Stands
<1>4. SubSeq(w, 1, Len(w)) = w
  BY <1>1, SubSeqFull
<1>5. pending'[p] = SubSeq(Work(s, rest), 1, Len(Work(s, rest)))
  BY <1>1, <1>4, Zenon
<1>6. Importing(p, s, rest, 1)'
  BY <1>5, WorkFact DEF Importing
<1>7. 1 \in 1 .. Len(Work(s, rest))
  BY <1>1
<1>8. Progress(p)'
  BY <1>6, <1>7 DEF Progress
<1> HIDE DEF w
<1> QED
  BY <1>1, <1>3, <1>8

-----------------------------------------------------------------------------
(* What no step undoes. *)
Grows == \A i \in Item :
  /\ items[i] # None => items'[i] # None
  /\ Titled(i) => Titled(i)'

LEMMA LeftStays ==
  ASSUME Grows, NEW t \in Transaction, Left(t)
  PROVE  Left(t)'
<1>1. t.op \in {"insert", "fill"} => t.item \in Item
  BY DEF Transaction, Change
<1>2. CASE t.op = "insert"
  BY <1>1, <1>2 DEF Left, Grows
<1>3. CASE t.op = "fill"
  <2>1. t.item \in Item
    BY <1>1, <1>3
  <2>2. Named(t.item)
    BY <1>3 DEF Left
  <2>3. Named(t.item)'
    BY <2>1, <2>2 DEF Named, Grows
  <2> QED
    BY <1>3, <2>3 DEF Left
<1> QED
  BY <1>2, <1>3 DEF Left

(* A process that another's step leaves where it stands. *)
LEMMA OthersStay ==
  ASSUME NEW q \in Process, Progress(q), pending'[q] = pending[q], Grows,
         swept # None => swept' # None,
         \/ swept' # None /\ swept'.by # q
         \/ /\ swept' = swept
            /\ quarantine \subseteq quarantine'
            /\ quarantine' = quarantine \/ (swept # None /\ swept.by = q => ~swept.alone)
  PROVE  Progress(q)'
<1>1. CASE pending[q] = <<>>
  BY <1>1 DEF Progress
<1>2. CASE pending[q] # <<>>
  <2>1. PICK s \in Snapshot, rest \in Rests(q) : \E k \in 1 .. Len(Work(s, rest)) : Importing(q, s, rest, k)
    BY <1>2 DEF Progress
  <2>2. PICK k \in 1 .. Len(Work(s, rest)) : Importing(q, s, rest, k)
    BY <2>1
  <2>3. pending'[q] = SubSeq(Work(s, rest), k, Len(Work(s, rest)))
    <3>1. pending[q] = SubSeq(Work(s, rest), k, Len(Work(s, rest)))
      BY <2>2 DEF Importing
    <3> QED
      BY <3>1, Zenon
  <2>4. ASSUME NEW n \in 1 .. Len(Import(s)), n < k PROVE Left(Import(s)[n])'
    <3>1. Left(Import(s)[n])
      BY <2>2, <2>4 DEF Importing
    <3>2. Import(s)[n] \in Transaction
      <4> DEFINE x == Import(s)
      <4>1. x \in Seq(Transaction)
        BY ImportFact DEF ImportMeets
      <4> HIDE DEF x
      <4>2. \A j \in 1 .. Len(x) : x[j] \in Transaction
        BY <4>1
      <4> QED
        BY <4>2 DEF x
    <3> QED
      BY <3>1, <3>2, LeftStays
  <2>5. k # 1 => swept' # None
    BY <2>2 DEF Importing
  <2>6. ASSUME k # 1, k <= Len(Import(s)), swept'.by = q
        PROVE  /\ swept'.of = s /\ ~swept'.done
               /\ RejectedBefore(s, k) \subseteq quarantine'
               /\ swept'.alone => quarantine' = RejectedBefore(s, k)
    <3>1. swept' = swept /\ swept # None /\ swept.by = q
      BY <2>2, <2>5, <2>6 DEF Importing
    <3>2. /\ swept.of = s /\ ~swept.done
          /\ RejectedBefore(s, k) \subseteq quarantine
          /\ swept.alone => quarantine = RejectedBefore(s, k)
      BY <2>2, <2>6, <3>1 DEF Importing
    <3>3. quarantine \subseteq quarantine' /\ (quarantine' = quarantine \/ ~swept.alone)
      BY <2>6, <3>1
    <3> HIDE DEF RejectedBefore
    <3> QED
      BY <3>1, <3>2, <3>3
  <2>7. Importing(q, s, rest, k)'
    BY <2>3, <2>4, <2>5, <2>6 DEF Importing, RejectedBefore
  <2> QED
    BY <2>7 DEF Progress
<1> QED
  BY <1>1, <1>2

(* A process that commits the transaction it stands at. *)
LEMMA Advance ==
  ASSUME NEW p \in Process, NEW s \in Snapshot, NEW rest \in Rests(p), NEW k \in 1 .. Len(Work(s, rest)),
         Importing(p, s, rest, k), Stands(Head(pending[p]), p, s, rest, k),
         Tail(pending[p]) = SubSeq(Work(s, rest), k + 1, Len(Work(s, rest))),
         k = Len(Work(s, rest)) => Tail(pending[p]) = <<>>,
         pending'[p] = Tail(pending[p]), Grows,
         k <= Len(Import(s)) => Left(Import(s)[k])' /\ swept' # None,
         k < Len(Import(s)) /\ swept'.by = p =>
           /\ swept'.of = s /\ ~swept'.done
           /\ RejectedBefore(s, k + 1) \subseteq quarantine'
           /\ swept'.alone => quarantine' = RejectedBefore(s, k + 1)
  PROVE  Progress(p)'
<1>1. CASE k = Len(Work(s, rest))
  BY <1>1 DEF Progress
<1>2. CASE k # Len(Work(s, rest))
  <2>1. k + 1 \in 1 .. Len(Work(s, rest)) /\ k \in Nat /\ k <= Len(Import(s)) /\ Len(Import(s)) \in Nat
    BY <1>2, WorkFact
  <2>2. pending'[p] = SubSeq(Work(s, rest), k + 1, Len(Work(s, rest)))
    BY Zenon
  <2>3. ASSUME NEW n \in 1 .. Len(Import(s)), n < k + 1 PROVE Left(Import(s)[n])'
    <3>1. CASE n = k
      BY <2>1, <3>1
    <3>2. CASE n # k
      <4>1. n < k
        BY <2>1, <2>3, <3>2
      <4>2. Left(Import(s)[n])
        BY <4>1 DEF Importing
      <4>3. Import(s)[n] \in Transaction
        <5> DEFINE x == Import(s)
        <5>1. x \in Seq(Transaction)
          BY ImportFact DEF ImportMeets
        <5> HIDE DEF x
        <5>2. \A j \in 1 .. Len(x) : x[j] \in Transaction
          BY <5>1
        <5> QED
          BY <5>2 DEF x
      <4> QED
        BY <4>2, <4>3, LeftStays
    <3> QED
      BY <3>1, <3>2
  <2>4. swept' # None
    BY <2>1
  <2>5. k + 1 <= Len(Import(s)) => k < Len(Import(s))
    BY <2>1
  <2>6. Importing(p, s, rest, k + 1)'
    <3> DEFINE j == k + 1
    <3>1. /\ pending'[p] = SubSeq(Work(s, rest), j, Len(Work(s, rest)))
          /\ \A n \in 1 .. Len(Import(s)) : n < j => Left(Import(s)[n])'
      BY <2>2, <2>3
    <3>2. j <= Len(Import(s)) /\ swept'.by = p =>
            /\ swept'.of = s /\ ~swept'.done
            /\ RejectedBefore(s, j) \subseteq quarantine'
            /\ swept'.alone => quarantine' = RejectedBefore(s, j)
      BY <2>5
    <3> HIDE DEF j
    <3>3. Importing(p, s, rest, j)'
      BY <2>4, <3>1, <3>2 DEF Importing, RejectedBefore
    <3> QED
      BY <3>3 DEF j
  <2> QED
    BY <2>1, <2>6 DEF Progress
<1> QED
  BY <1>1, <1>2

-----------------------------------------------------------------------------
(* The inductive invariant. *)

(* A process that has nothing to do, or an import it has not begun. *)
Waits(p) == pending[p] = <<>> \/ Head(pending[p]).op = "clear"

(* While no other import came in between, the others wait; and who returned  *)
(* from the last import waits, or is about to make the change it was run for. *)
Undisturbed == swept # None =>
  /\ swept.alone => \A q \in Process \ {swept.by} : Waits(q)
  /\ swept.done => Waits(swept.by) \/ Head(pending[swept.by]) \in Changes

(* An item whose name staff edited is their own or has a name, so that no     *)
(* import fills one in; what the activity log tells, it tells of an item.     *)
NamesStand == \A i \in Item : activity[<<i, "usa">>] # <<>> => Titled(i)
ActivityIsOfItems == \A k \in Item \X Part : activity[k] # <<>> => items[k[1]] # None

(* The conjunction is inductive. *)
ItemIInv ==
  /\ TypeOK /\ InProgress /\ Undisturbed
  /\ ImportsAreWhole /\ QuarantineTells
  /\ NamesStand /\ ActivityIsOfItems

Sweep == [by : Process, of : Snapshot, done : BOOLEAN, alone : BOOLEAN]

LEMMA CommitFact ==
  ASSUME TypeOK, NEW p \in Process, NEW op, Due(p, op), Committed(p)
  PROVE  /\ pending[p] # <<>> /\ Head(pending[p]).op = op /\ Head(pending[p]) \in Transaction
         /\ pending'[p] = Tail(pending[p]) /\ \A q \in Process \ {p} : pending'[q] = pending[q]
         /\ pending' \in [Process -> Seq(Transaction)]
<1>1. pending \in [Process -> Seq(Transaction)] /\ pending[p] # <<>> /\ Head(pending[p]).op = op
  BY DEF TypeOK, Due
<1>2. Head(pending[p]) \in Transaction /\ Tail(pending[p]) \in Seq(Transaction)
  <2> DEFINE T == Transaction
             x == pending[p]
  <2>1. x \in Seq(T) /\ x # <<>>
    BY <1>1
  <2> HIDE DEF T, x
  <2>2. Head(x) \in T /\ Tail(x) \in Seq(T)
    BY <2>1, HeadTailProperties
  <2> QED
    BY <2>2 DEF T, x
<1> HIDE DEF Transaction
<1> QED
  BY <1>1, <1>2 DEF Committed

LEMMA RejectedFact ==
  ASSUME NEW s \in Snapshot
  PROVE  /\ RejectedBefore(s, 2) = {}
         /\ \A k \in 2 .. Len(Import(s)) - 1 : RejectedBefore(s, k + 1) =
              IF Import(s)[k].op = "quarantine"
              THEN RejectedBefore(s, k) \cup {[item |-> Import(s)[k].item, reason |-> Import(s)[k].reason]}
              ELSE RejectedBefore(s, k)
         /\ RejectedBefore(s, Len(Import(s))) = Rejections(s)
<1> DEFINE w == Import(s)
           rec(n) == [item |-> w[n].item, reason |-> w[n].reason]
           N(k) == {m \in 1 .. k - 1 : w[m].op = "quarantine"}
<1>1. w \in Seq(Transaction) /\ Len(w) \in Nat /\ w[1].op = "clear" /\ w[Len(w)].op = "done" /\ Len(w) >= 2
  BY ImportFact DEF ImportMeets
<1>2. DOMAIN w = 1 .. Len(w)
  BY <1>1
<1>3. \A k : RejectedBefore(s, k) = {rec(n) : n \in N(k)}
  BY DEF RejectedBefore
<1>4. Rejections(s) = {rec(n) : n \in {m \in 1 .. Len(w) : w[m].op = "quarantine"}}
  BY <1>2 DEF Rejections
<1>5. N(2) = {}
  BY <1>1
<1>6. N(Len(w)) = {m \in 1 .. Len(w) : w[m].op = "quarantine"}
  <2> HIDE DEF w
  <2>1. ASSUME NEW m \in 1 .. Len(w), w[m].op = "quarantine" PROVE m \in 1 .. Len(w) - 1
    <3>1. m # Len(w)
      BY <1>1, <2>1
    <3> QED
      BY <1>1, <3>1
  <2> QED
    BY <1>1, <2>1
<1>7. ASSUME NEW k \in 2 .. Len(w) - 1
      PROVE  N(k + 1) = IF w[k].op = "quarantine" THEN N(k) \cup {k} ELSE N(k)
  <2> HIDE DEF w
  <2>1. 1 .. (k + 1) - 1 = (1 .. k - 1) \cup {k} /\ k \notin 1 .. k - 1
    BY <1>1
  <2> QED
    BY <2>1
<1>8. RejectedBefore(s, 2) = {}
  BY <1>3, <1>5
<1>9. RejectedBefore(s, Len(w)) = Rejections(s)
  BY <1>3, <1>4, <1>6, Zenon
<1>10. ASSUME NEW k \in 2 .. Len(w) - 1
       PROVE  RejectedBefore(s, k + 1) =
                IF w[k].op = "quarantine" THEN RejectedBefore(s, k) \cup {rec(k)} ELSE RejectedBefore(s, k)
  <2> DEFINE j == k + 1
  <2>1. /\ RejectedBefore(s, j) = {rec(n) : n \in N(j)}
        /\ RejectedBefore(s, k) = {rec(n) : n \in N(k)}
    BY <1>3
  <2>2. N(j) = IF w[k].op = "quarantine" THEN N(k) \cup {k} ELSE N(k)
    BY <1>7
  <2> HIDE DEF j, N, rec, w, RejectedBefore
  <2>3. CASE w[k].op = "quarantine"
    <3>1. RejectedBefore(s, j) = {rec(n) : n \in N(k) \cup {k}}
      BY <2>1, <2>2, <2>3, Zenon
    <3>2. RejectedBefore(s, j) = RejectedBefore(s, k) \cup {rec(k)}
      BY <2>1, <3>1
    <3> QED
      BY <2>3, <3>2 DEF j
  <2>4. CASE w[k].op # "quarantine"
    <3>1. RejectedBefore(s, j) = RejectedBefore(s, k)
      BY <2>1, <2>2, <2>4, Zenon
    <3> QED
      BY <2>4, <3>1 DEF j
  <2> QED
    BY <2>3, <2>4
<1> QED
  BY <1>8, <1>9, <1>10

LEMMA NotAlone ==
  ASSUME TypeOK, Undisturbed, NEW p \in Process, swept # None, swept.by # p,
         pending[p] # <<>>, Head(pending[p]).op # "clear"
  PROVE  ~swept.alone
BY DEF Undisturbed, Waits

LEMMA NotDone ==
  ASSUME TypeOK, Undisturbed, NEW p \in Process, swept # None, swept.by = p,
         pending[p] # <<>>, Head(pending[p]).op \in {"quarantine", "insert", "fill", "done"}
  PROVE  ~swept.done
<1>1. \A change \in Changes : change.op \in {"edit", "create", "archive"}
  BY ChangesAssumption DEF Change
<1> QED
  BY <1>1 DEF Undisturbed, Waits

(* A committed transaction, not the first of an import, disturbs no sweep.  *)
LEMMA StaysUndisturbed ==
  ASSUME TypeOK, Undisturbed, NEW p \in Process, Progress(p), pending[p] # <<>>, Head(pending[p]).op # "clear",
         pending'[p] = Tail(pending[p]), \A q \in Process \ {p} : pending'[q] = pending[q],
         \/ swept' = swept
         \/ /\ swept # None /\ swept.by = p /\ swept' = [swept EXCEPT !.done = TRUE]
            /\ Head(pending[p]).op = "done"
  PROVE  Undisturbed'
<1> DEFINE W(q) == pending'[q] = <<>> \/ Head(pending'[q]).op = "clear"
<1> SUFFICES ASSUME swept' # None
             PROVE  /\ swept'.alone => \A q \in Process \ {swept'.by} : W(q)
                    /\ swept'.done => W(swept'.by) \/ Head(pending'[swept'.by]) \in Changes
  BY DEF Undisturbed, Waits
<1>1. swept # None /\ swept \in Sweep
  BY DEF TypeOK, Sweep
<1>2. swept'.by = swept.by /\ swept'.alone = swept.alone
  BY <1>1 DEF Sweep
<1>3. PICK s \in Snapshot, rest \in Rests(p) : \E k \in 1 .. Len(Work(s, rest)) :
           /\ Importing(p, s, rest, k) /\ Stands(Head(pending[p]), p, s, rest, k)
           /\ Tail(pending[p]) = SubSeq(Work(s, rest), k + 1, Len(Work(s, rest)))
           /\ k = Len(Work(s, rest)) => Tail(pending[p]) = <<>>
  BY CurrentFact
<1>4. PICK k \in 1 .. Len(Work(s, rest)) :
           /\ Importing(p, s, rest, k) /\ Stands(Head(pending[p]), p, s, rest, k)
           /\ Tail(pending[p]) = SubSeq(Work(s, rest), k + 1, Len(Work(s, rest)))
           /\ k = Len(Work(s, rest)) => Tail(pending[p]) = <<>>
  BY <1>3
<1>5. CASE swept.by = p
  <2>1. swept'.alone => \A q \in Process \ {swept'.by} : W(q)
    BY <1>1, <1>2, <1>5 DEF Undisturbed, Waits
  <2>2. CASE k = Len(Work(s, rest))
    BY <1>2, <1>4, <1>5, <2>1, <2>2 DEF Waits
  <2>3. CASE k # Len(Work(s, rest)) /\ Head(pending[p]).op = "done"
    <3> DEFINE w == Work(s, rest)
    <3>1. k = Len(Import(s)) /\ Len(Import(s)) \in Nat /\ w \in Seq(Transaction) /\ Len(w) \in Nat
      BY <1>4, <2>3, WorkFact DEF Stands
    <3>2. k + 1 \in 1 .. Len(w) /\ k + 1 > Len(Import(s))
      BY <2>3, <3>1
    <3>3. w[k + 1] \in Changes
      BY <3>2, WorkFact
    <3>4. pending'[p] = SubSeq(w, k + 1, Len(w))
      BY <1>4
    <3> HIDE DEF w
    <3>5. Len(w) \in k + 1 .. Len(w)
      BY <3>1, <3>2
    <3>6. Head(SubSeq(w, k + 1, Len(w))) = w[k + 1]
      BY <3>1, <3>2, <3>5, HeadTailOfSubSeq
    <3>7. Head(pending'[p]) \in Changes
      BY <3>3, <3>4, <3>6, Zenon
    <3> QED
      BY <1>2, <1>5, <2>1, <3>7
  <2>4. CASE k # Len(Work(s, rest)) /\ Head(pending[p]).op # "done"
    <3>1. Head(pending[p]).op \in {"quarantine", "insert", "fill", "done"}
      BY <1>4, <2>4 DEF Stands, Transaction, Change
    <3>2. ~swept.done /\ swept' = swept
      BY <1>1, <1>5, <2>4, <3>1, NotDone
    <3> QED
      BY <2>1, <3>2
  <2> QED
    BY <2>2, <2>3, <2>4
<1>6. CASE swept.by # p
  <2>1. swept' = swept /\ ~swept.alone
    BY <1>1, <1>6, NotAlone
  <2>2. swept.by \in Process \ {p}
    BY <1>1, <1>6 DEF Sweep
  <2> QED
    BY <1>1, <2>1, <2>2 DEF Undisturbed, Waits
<1> QED
  BY <1>5, <1>6

-----------------------------------------------------------------------------
(* What a transaction finds, and what it leaves. *)

LEMMA TransactionFact ==
  ASSUME NEW t \in Transaction
  PROVE  /\ t.op \in {"clear", "done"} => t.of \in Snapshot
         /\ t.op = "quarantine" => t.item \in Item \cup {Blank} /\ t.reason \in Reasons
         /\ t.op = "insert" => t.item \in Item /\ t.data \in Value /\ t.usa \in Value \cup {Blank}
         /\ t.op = "fill" => t.item \in Item /\ t.usa \in Value
         /\ t.op \in {"edit", "create", "archive"} => t \in Change
BY DEF Transaction, Change

LEMMA ImportTyped == ASSUME NEW s \in Snapshot, NEW n \in 1 .. Len(Import(s)) PROVE Import(s)[n] \in Transaction
<1> DEFINE x == Import(s)
<1>1. x \in Seq(Transaction)
  BY ImportFact DEF ImportMeets
<1> HIDE DEF x
<1>2. \A j \in 1 .. Len(x) : x[j] \in Transaction
  BY <1>1
<1> QED
  BY <1>2 DEF x

LEMMA Found ==
  ASSUME ItemIInv, NEW p \in Process, pending[p] # <<>>, NEW t, t = Head(pending[p])
  PROVE  /\ t.op = "insert" => \E s \in Snapshot : t.item \in Admitted(s)
         /\ t.op = "done" => \A n \in DOMAIN Listed[t.of] : LET row == Listed[t.of][n] IN Reason(t.of, row) = None =>
              /\ row.item \in Item /\ items[row.item] # None
              /\ Usa(t.of, row) # Blank /\ UsaIssue(t.of, row.item) = None => Named(row.item)
<1>1. Progress(p)
  BY DEF ItemIInv, InProgress
<1>2. PICK s \in Snapshot, rest \in Rests(p) : \E k \in 1 .. Len(Work(s, rest)) :
           Importing(p, s, rest, k) /\ Stands(t, p, s, rest, k)
  BY <1>1, CurrentFact
<1>3. PICK k \in 1 .. Len(Work(s, rest)) : Importing(p, s, rest, k) /\ Stands(t, p, s, rest, k)
  BY <1>2
<1> DEFINE w == Import(s)
<1>4. ImportMeets(w, s) /\ Len(w) \in Nat /\ Len(w) >= 2
  BY ImportFact DEF ImportMeets
<1>5. ASSUME t.op = "insert" PROVE t.item \in Admitted(s)
  <2>1. k \in 2 .. Len(w) - 1 /\ t = w[k]
    BY <1>3, <1>5 DEF Stands
  <2> QED
    BY <1>4, <1>5, <2>1 DEF ImportMeets
<1>6. ASSUME t.op = "done", NEW n \in DOMAIN Listed[s], Reason(s, Listed[s][n]) = None
      PROVE  /\ Listed[s][n].item \in Item /\ items[Listed[s][n].item] # None
             /\ Usa(s, Listed[s][n]) # Blank /\ UsaIssue(s, Listed[s][n].item) = None => Named(Listed[s][n].item)
  <2> DEFINE row == Listed[s][n]
  <2>1. k = Len(w) /\ row.item \in Item
    BY <1>3, <1>6, ListedRows, ReasonTyped DEF Stands
  <2>2. ASSUME NEW j \in 1 .. Len(w), w[j].op # "done" PROVE Left(w[j])
    <3>1. w[Len(w)].op = "done"
      BY <1>4 DEF ImportMeets
    <3>2. j < k
      BY <1>4, <2>1, <2>2, <3>1
    <3> QED
      BY <1>3, <3>2 DEF Importing
  <2>3. PICK j \in 1 .. Len(w) : w[j].op = "insert" /\ w[j].item = row.item
    BY <1>4, <1>6 DEF ImportMeets
  <2>4. items[row.item] # None
    BY <2>2, <2>3 DEF Left
  <2>5. ASSUME Usa(s, row) # Blank, UsaIssue(s, row.item) = None PROVE Named(row.item)
    <3>1. PICK j2 \in 1 .. Len(w) : w[j2].op = "fill" /\ w[j2].item = row.item
      BY <1>4, <1>6, <2>5 DEF ImportMeets
    <3> QED
      BY <2>2, <3>1 DEF Left
  <2> QED
    BY <2>1, <2>4, <2>5
<1>7. t.op = "done" => t.of = s
  BY <1>3 DEF Stands
<1> QED
  BY <1>5, <1>6, <1>7

(* No transaction that fills in a name runs before its item is there. *)
LEMMA FillReady ==
  ASSUME InProgress', NEW p \in Process, pending'[p] # <<>>, Head(pending'[p]).op = "fill"
  PROVE  items'[Head(pending'[p]).item] # None
<1>1. PICK s \in Snapshot, rest \in Rests(p) : \E k \in 1 .. Len(Work(s, rest)) : Importing(p, s, rest, k)'
  BY DEF InProgress, Progress
<1>2. PICK k \in 1 .. Len(Work(s, rest)) : Importing(p, s, rest, k)'
  BY <1>1
<1> DEFINE w == Work(s, rest)
           x == Import(s)
<1>3. w \in Seq(Transaction) /\ Len(w) \in Nat /\ pending'[p] = SubSeq(w, k, Len(w)) /\ k \in 1 .. Len(w)
  BY <1>2, WorkFact DEF Importing
<1>4. Stands(w[k], p, s, rest, k)
  BY StandsFact
<1> HIDE DEF w
<1>5. Head(pending'[p]) = w[k]
  <2>1. Len(w) \in k .. Len(w)
    BY <1>3
  <2>2. Head(SubSeq(w, k, Len(w))) = w[k]
    BY <1>3, <2>1, HeadTailOfSubSeq
  <2> QED
    BY <1>3, <2>2, Zenon
<1>6. k \in 2 .. Len(x) - 1 /\ w[k] = x[k] /\ x[k].op = "fill"
  BY <1>4, <1>5 DEF Stands
<1>7. x[k - 1].op = "insert" /\ x[k - 1].item = x[k].item /\ Len(x) \in Nat
  BY <1>6, ImportFact DEF ImportMeets
<1>8. k - 1 \in 1 .. Len(x) /\ k - 1 < k
  BY <1>6, <1>7
<1>9. Left(x[k - 1])'
  BY <1>2, <1>8 DEF Importing
<1>10. items'[x[k - 1].item] # None
  BY <1>7, <1>9 DEF Left
<1> QED
  BY <1>5, <1>6, <1>7, <1>10

(* What every transaction but the clearing of the quarantine keeps. *)
LEMMA Commits ==
  ASSUME ItemIInv, NEW p \in Process, NEW op, op # "clear", Due(p, op), Committed(p), Grows,
         NEW t, t = Head(pending[p]),
         op = "insert" => items'[t.item] # None,
         op = "fill" => Named(t.item)',
         quarantine' = IF op = "quarantine" THEN quarantine \cup {[item |-> t.item, reason |-> t.reason]}
                       ELSE quarantine,
         swept' = IF op = "done" /\ swept.by = p THEN [swept EXCEPT !.done = TRUE] ELSE swept
  PROVE  /\ InProgress' /\ Undisturbed' /\ QuarantineTells'
         /\ quarantine' \subseteq [item : Item \cup {Blank}, reason : Reasons]
         /\ swept' \in Sweep \cup {None}
         /\ pending' \in [Process -> Seq(Transaction)]
         /\ \A q \in Process : Due(q, "fill")' => items'[Head(pending'[q]).item] # None
<1> TypeOK /\ InProgress /\ Undisturbed /\ QuarantineTells
  BY DEF ItemIInv
<1>1. /\ pending[p] # <<>> /\ t.op = op /\ t \in Transaction
      /\ pending'[p] = Tail(pending[p]) /\ \A q \in Process \ {p} : pending'[q] = pending[q]
      /\ pending' \in [Process -> Seq(Transaction)]
  BY CommitFact
<1>2. Progress(p) /\ swept \in Sweep \cup {None}
      /\ quarantine \subseteq [item : Item \cup {Blank}, reason : Reasons]
  BY DEF InProgress, TypeOK, Sweep
<1>3. PICK s \in Snapshot, rest \in Rests(p) : \E k \in 1 .. Len(Work(s, rest)) :
           /\ Importing(p, s, rest, k) /\ Stands(t, p, s, rest, k)
           /\ Tail(pending[p]) = SubSeq(Work(s, rest), k + 1, Len(Work(s, rest)))
           /\ k = Len(Work(s, rest)) => Tail(pending[p]) = <<>>
  BY <1>1, <1>2, CurrentFact
<1>4. PICK k \in 1 .. Len(Work(s, rest)) :
           /\ Importing(p, s, rest, k) /\ Stands(t, p, s, rest, k)
           /\ Tail(pending[p]) = SubSeq(Work(s, rest), k + 1, Len(Work(s, rest)))
           /\ k = Len(Work(s, rest)) => Tail(pending[p]) = <<>>
  BY <1>3
<1>5. k # 1 /\ swept # None
  BY <1>1, <1>4 DEF Stands, Importing
<1>6. swept \in Sweep
  BY <1>2, <1>5
<1>7. /\ swept' \in Sweep /\ swept'.by = swept.by /\ swept'.of = swept.of /\ swept'.alone = swept.alone
      /\ swept'.done = IF op = "done" /\ swept.by = p THEN TRUE ELSE swept.done
      /\ swept' # None
  BY <1>6, AbsenceAssumption DEF Sweep
<1>8. ASSUME swept.by # p PROVE ~swept.alone
  BY <1>1, <1>5, <1>8, NotAlone
<1>9. Len(Import(s)) \in Nat /\ k \in Nat /\ Len(Import(s)) >= 2
  BY <1>4, WorkFact
<1>10. Progress(p)'
  <2>1. ASSUME k <= Len(Import(s)) PROVE Left(Import(s)[k])'
    <3>1. CASE t.op \in {"insert", "fill", "quarantine"}
      <4>1. Import(s)[k] = t
        BY <1>4, <3>1 DEF Stands
      <4> QED
        BY <1>1, <4>1 DEF Left
    <3>2. CASE t.op = "done"
      <4>1. k = Len(Import(s)) /\ Import(s)[k].op = "done"
        BY <1>4, <3>2, ImportFact DEF Stands, ImportMeets
      <4> QED
        BY <4>1 DEF Left
    <3> QED
      BY <1>1, <1>4, <1>9, <2>1, <3>1, <3>2, TransactionFact DEF Stands, Transaction, Change
  <2>2. ASSUME k < Len(Import(s)), swept'.by = p
        PROVE  /\ swept'.of = s /\ ~swept'.done
               /\ RejectedBefore(s, k + 1) \subseteq quarantine'
               /\ swept'.alone => quarantine' = RejectedBefore(s, k + 1)
    <3>1. swept.by = p /\ k <= Len(Import(s))
      BY <1>7, <1>9, <2>2
    <3>2. /\ swept.of = s /\ ~swept.done
          /\ RejectedBefore(s, k) \subseteq quarantine
          /\ swept.alone => quarantine = RejectedBefore(s, k)
      BY <1>4, <1>5, <3>1 DEF Importing
    <3>3. op # "done" /\ k \in 2 .. Len(Import(s)) - 1 /\ swept' = swept
      BY <1>1, <1>4, <1>5, <1>9, <2>2 DEF Stands
    <3>4. t = Import(s)[k]
      <4>1. Work(s, rest)[k] = Import(s)[k]
        BY <1>9, <3>3, WorkFact
      <4> QED
        BY <1>4, <4>1 DEF Stands
    <3>5. RejectedBefore(s, k + 1) =
            IF op = "quarantine" THEN RejectedBefore(s, k) \cup {[item |-> t.item, reason |-> t.reason]}
            ELSE RejectedBefore(s, k)
      BY <1>1, <3>3, <3>4, RejectedFact
    <3> DEFINE A == RejectedBefore(s, k)
               B == RejectedBefore(s, k + 1)
               r == [item |-> t.item, reason |-> t.reason]
    <3>6. /\ A \subseteq quarantine /\ (swept.alone => quarantine = A)
          /\ B = IF op = "quarantine" THEN A \cup {r} ELSE A
          /\ quarantine' = IF op = "quarantine" THEN quarantine \cup {r} ELSE quarantine
      BY <3>2, <3>5
    <3> HIDE DEF A, B, r
    <3>7. B \subseteq quarantine' /\ (swept.alone => quarantine' = B)
      BY <3>6
    <3> QED
      BY <1>7, <3>2, <3>3, <3>7 DEF B
  <2> QED
    BY <1>1, <1>4, <1>7, <2>1, <2>2, Advance
<1>11. ASSUME NEW q \in Process, q # p PROVE Progress(q)'
  <2>1. Progress(q) /\ pending'[q] = pending[q]
    BY <1>1, <1>11 DEF InProgress
  <2>2. CASE swept.by = p
    <3>1. swept' # None /\ swept'.by # q
      BY <1>7, <1>11, <2>2
    <3> QED
      BY <2>1, <3>1, OthersStay
  <2>3. CASE swept.by # p
    <3>1. swept' = swept /\ quarantine \subseteq quarantine' /\ ~swept.alone
      BY <1>8, <2>3
    <3> QED
      BY <1>7, <2>1, <3>1, OthersStay
  <2> QED
    BY <2>2, <2>3
<1>12. InProgress'
  BY <1>10, <1>11 DEF InProgress
<1>13. Undisturbed'
  <2>1. \/ swept' = swept
        \/ /\ swept # None /\ swept.by = p /\ swept' = [swept EXCEPT !.done = TRUE]
           /\ t.op = "done"
    BY <1>1, <1>5
  <2> QED
    BY <1>1, <1>2, <2>1, StaysUndisturbed
<1>14. QuarantineTells'
  <2> SUFFICES ASSUME swept'.done
               PROVE  /\ Rejections(swept'.of) \subseteq quarantine'
                      /\ swept'.alone => quarantine' = Rejections(swept'.of)
    BY DEF QuarantineTells, Rejections
  <2>1. CASE op = "done" /\ swept.by = p
    <3>1. k = Len(Import(s)) /\ quarantine' = quarantine
      BY <1>1, <1>4, <2>1 DEF Stands
    <3>2. /\ swept.of = s
          /\ RejectedBefore(s, k) \subseteq quarantine
          /\ swept.alone => quarantine = RejectedBefore(s, k)
      BY <1>4, <1>5, <1>9, <2>1, <3>1 DEF Importing
    <3>3. RejectedBefore(s, k) = Rejections(s)
      BY <3>1, RejectedFact
    <3> HIDE DEF RejectedBefore, Rejections
    <3> QED
      BY <1>7, <3>1, <3>2, <3>3
  <2>2. CASE ~(op = "done" /\ swept.by = p)
    <3>1. swept' = swept /\ swept.done
      BY <1>7, <2>2
    <3>2. Rejections(swept.of) \subseteq quarantine /\ (swept.alone => quarantine = Rejections(swept.of))
      BY <1>5, <3>1 DEF QuarantineTells
    <3>3. op = "quarantine" => ~swept.alone
      <4>1. op = "quarantine" => swept.by # p
        BY <1>1, <1>5, <3>1, NotDone
      <4> QED
        BY <1>8, <4>1
    <3> HIDE DEF Rejections
    <3> QED
      BY <3>1, <3>2, <3>3
  <2> QED
    BY <2>1, <2>2
<1>15. quarantine' \subseteq [item : Item \cup {Blank}, reason : Reasons]
  <2>1. op = "quarantine" => t.item \in Item \cup {Blank} /\ t.reason \in Reasons
    BY <1>1, TransactionFact
  <2> QED
    BY <1>2, <2>1
<1>16. ASSUME NEW q \in Process, Due(q, "fill")' PROVE items'[Head(pending'[q]).item] # None
  <2>1. pending'[q] # <<>> /\ Head(pending'[q]).op = "fill"
    BY <1>16 DEF Due
  <2> QED
    BY <1>12, <2>1, FillReady
<1> QED
  BY <1>1, <1>7, <1>12, <1>13, <1>14, <1>15, <1>16

-----------------------------------------------------------------------------
(* Every step keeps the invariant. *)

LEMMA SameItemsGrow == ASSUME items' = items PROVE Grows
BY DEF Grows, Titled

LEMMA WholeStays ==
  ASSUME ImportsAreWhole, TypeOK, Grows, imported' = imported,
         \A i \in Item : items'[i] # None /\ ~items'[i].created =>
           \/ items[i] # None /\ ~items[i].created
           \/ \E s \in Snapshot : i \in Admitted(s)
  PROVE  ImportsAreWhole'
<1>1. ASSUME NEW s \in imported, NEW n \in DOMAIN Listed[s], Reason(s, Listed[s][n]) = None
      PROVE  /\ items'[Listed[s][n].item] # None
             /\ Usa(s, Listed[s][n]) # Blank /\ UsaIssue(s, Listed[s][n].item) = None /\ Override[Listed[s][n].item] = None
                  => items'[Listed[s][n].item].created \/ items'[Listed[s][n].item].usa # Blank
  <2> DEFINE i == Listed[s][n].item
             B == Usa(s, Listed[s][n]) # Blank /\ UsaIssue(s, Listed[s][n].item) = None /\ Override[Listed[s][n].item] = None
  <2>1. s \in Snapshot
    BY DEF TypeOK
  <2>2. i \in Item
    BY <1>1, <2>1, ListedRows, ReasonTyped
  <2>3. items[i] # None /\ (B => items[i].created \/ items[i].usa # Blank)
    BY <1>1 DEF ImportsAreWhole
  <2> HIDE DEF i, B
  <2>4. items'[i] # None /\ (B => items'[i].created \/ items'[i].usa # Blank)
    BY <2>2, <2>3 DEF Grows, Titled
  <2> QED
    BY <2>4 DEF i, B
<1>2. ASSUME NEW i \in Item, items'[i] # None, ~items'[i].created
      PROVE  \E s \in Snapshot : i \in Admitted(s)
  BY <1>2 DEF ImportsAreWhole
<1>3. imported' = imported
  OBVIOUS
<1> QED
  BY <1>1, <1>2, <1>3 DEF ImportsAreWhole

LEMMA RejectStep == ASSUME ItemIInv, NEW p \in Process, Reject(p) PROVE ItemIInv'
<1> DEFINE t == Head(pending[p])
<1>1. /\ Due(p, "quarantine") /\ Committed(p) /\ UNCHANGED <<items, activity, source, imported, swept>>
      /\ quarantine' = quarantine \cup {[item |-> t.item, reason |-> t.reason]}
  BY DEF Reject
<1>2. Grows
  BY <1>1, SameItemsGrow
<1> TypeOK /\ ImportsAreWhole /\ NamesStand /\ ActivityIsOfItems
  BY DEF ItemIInv
<1>3. /\ InProgress' /\ Undisturbed' /\ QuarantineTells'
      /\ quarantine' \subseteq [item : Item \cup {Blank}, reason : Reasons]
      /\ swept' \in Sweep \cup {None}
      /\ pending' \in [Process -> Seq(Transaction)]
      /\ \A q \in Process : Due(q, "fill")' => items'[Head(pending'[q]).item] # None
  <2> DEFINE op == "quarantine"
  <2>1. op # "clear" /\ op = "quarantine" /\ Due(p, op)
    BY <1>1
  <2> HIDE DEF op
  <2> QED
    BY <1>1, <1>2, <2>1, Commits
<1>4. ImportsAreWhole'
  BY <1>1, <1>2, WholeStays
<1>5. NamesStand' /\ ActivityIsOfItems'
  BY <1>1 DEF NamesStand, ActivityIsOfItems, Titled
<1>6. TypeOK'
  BY <1>1, <1>3 DEF TypeOK, Sweep
<1> QED
  BY <1>3, <1>4, <1>5, <1>6 DEF ItemIInv

LEMMA DoneStep == ASSUME ItemIInv, NEW p \in Process, Done(p) PROVE ItemIInv'
<1> DEFINE t == Head(pending[p])
<1>1. /\ Due(p, "done") /\ Committed(p) /\ UNCHANGED <<items, quarantine, activity, source>>
      /\ imported' = imported \cup {t.of}
      /\ swept' = IF swept.by = p THEN [swept EXCEPT !.done = TRUE] ELSE swept
  BY DEF Done
<1>2. Grows
  BY <1>1, SameItemsGrow
<1> TypeOK /\ ImportsAreWhole /\ NamesStand /\ ActivityIsOfItems
  BY DEF ItemIInv
<1>3. /\ InProgress' /\ Undisturbed' /\ QuarantineTells'
      /\ quarantine' \subseteq [item : Item \cup {Blank}, reason : Reasons]
      /\ swept' \in Sweep \cup {None}
      /\ pending' \in [Process -> Seq(Transaction)]
      /\ \A q \in Process : Due(q, "fill")' => items'[Head(pending'[q]).item] # None
  <2> DEFINE op == "done"
  <2>1. op # "clear" /\ op # "insert" /\ op # "fill" /\ Due(p, op)
    BY <1>1
  <2>2. quarantine' = IF op = "quarantine" THEN quarantine \cup {[item |-> t.item, reason |-> t.reason]}
                      ELSE quarantine
    BY <1>1
  <2>3. swept' = IF op = "done" /\ swept.by = p THEN [swept EXCEPT !.done = TRUE] ELSE swept
    BY <1>1
  <2>4. t = Head(pending[p])
    OBVIOUS
  <2> HIDE DEF op, t
  <2> QED
    BY <1>1, <1>2, <2>1, <2>2, <2>3, <2>4, Commits
<1>4. pending[p] # <<>> /\ t.op = "done" /\ t \in Transaction
  <2> DEFINE op == "done"
  <2>1. Due(p, op) /\ Committed(p)
    BY <1>1
  <2> HIDE DEF op
  <2>2. pending[p] # <<>> /\ t.op = op /\ t \in Transaction
    BY <2>1, CommitFact
  <2> QED
    BY <2>2 DEF op
<1>5. t.of \in Snapshot
  BY <1>4, TransactionFact
<1>6. \A n \in DOMAIN Listed[t.of] : LET row == Listed[t.of][n] IN Reason(t.of, row) = None =>
        /\ row.item \in Item /\ items[row.item] # None
        /\ Usa(t.of, row) # Blank /\ UsaIssue(t.of, row.item) = None => Named(row.item)
  BY <1>4, Found
<1>7. ImportsAreWhole'
  <2> HIDE DEF t
  <2>1. \A s \in imported \cup {t.of} : \A n \in DOMAIN Listed[s] :
          LET row == Listed[s][n] IN Reason(s, row) = None =>
            /\ items[row.item] # None
            /\ Usa(s, row) # Blank /\ UsaIssue(s, row.item) = None /\ Override[row.item] = None
                 => items[row.item].created \/ items[row.item].usa # Blank
    BY <1>6 DEF ImportsAreWhole, Named, Titled
  <2> QED
    BY <1>1, <2>1 DEF ImportsAreWhole
<1>8. NamesStand' /\ ActivityIsOfItems'
  BY <1>1 DEF NamesStand, ActivityIsOfItems, Titled
<1>9. TypeOK'
  BY <1>1, <1>3, <1>5 DEF TypeOK, Sweep
<1> QED
  BY <1>3, <1>7, <1>8, <1>9 DEF ItemIInv

(* Inserting an item, unless it is there. *)
LEMMA InsertGives ==
  ASSUME ItemIInv, NEW p \in Process, Insert(p), NEW t, t = Head(pending[p])
  PROVE  /\ t.item \in Item /\ t.op = "insert" /\ pending[p] # <<>>
         /\ items' \in [Item -> ItemRow \cup {None}]
         /\ \A i \in Item : items'[i] = items[i] \/ (i = t.item /\ items[i] = None /\ ~items'[i].created)
         /\ items'[t.item] # None
<1>1. Due(p, "insert") /\ Committed(p) /\ TypeOK
  BY DEF Insert, ItemIInv
<1>2. pending[p] # <<>> /\ t.op = "insert" /\ t \in Transaction
  <2> DEFINE op == "insert"
  <2>1. Due(p, op)
    BY <1>1
  <2> HIDE DEF op
  <2>2. pending[p] # <<>> /\ t.op = op /\ t \in Transaction
    BY <1>1, <2>1, CommitFact
  <2> QED
    BY <2>2 DEF op
<1>3. t.item \in Item /\ t.data \in Value /\ t.usa \in Value \cup {Blank}
  BY <1>2, TransactionFact
<1> DEFINE legacy == Override[t.item]
           row == [created |-> FALSE, archived |-> FALSE,
                   data |-> IF legacy = None THEN t.data ELSE legacy.data,
                   usa |-> IF legacy = None \/ legacy.usa = None THEN t.usa ELSE legacy.usa]
<1>4. items' = IF items[t.item] # None THEN items ELSE [items EXCEPT ![t.item] = row]
  BY DEF Insert
<1>5. legacy # None => legacy \in [data : Value, usa : Value \cup {Blank, None}]
  BY <1>3, OverrideAssumption
<1>6. row \in ItemRow /\ ~row.created
  <2>1. (IF legacy = None THEN t.data ELSE legacy.data) \in Value
    BY <1>3, <1>5
  <2>2. (IF legacy = None \/ legacy.usa = None THEN t.usa ELSE legacy.usa) \in Value \cup {Blank}
    BY <1>3, <1>5
  <2> HIDE DEF legacy
  <2> QED
    BY <2>1, <2>2 DEF ItemRow
<1> HIDE DEF row, legacy
<1>7. row # None
  BY <1>6, AbsenceAssumption
<1>8. items \in [Item -> ItemRow \cup {None}]
  BY <1>1 DEF TypeOK
<1> QED
  BY <1>2, <1>3, <1>4, <1>6, <1>7, <1>8

LEMMA InsertStep == ASSUME ItemIInv, NEW p \in Process, Insert(p) PROVE ItemIInv'
<1> DEFINE t == Head(pending[p])
<1>1. /\ Due(p, "insert") /\ Committed(p) /\ UNCHANGED <<quarantine, activity, source, imported, swept>>
  BY DEF Insert
<1>2. /\ t.item \in Item /\ t.op = "insert" /\ pending[p] # <<>>
      /\ items' \in [Item -> ItemRow \cup {None}]
      /\ \A i \in Item : items'[i] = items[i] \/ (i = t.item /\ items[i] = None /\ ~items'[i].created)
      /\ items'[t.item] # None
  BY InsertGives
<1> TypeOK /\ ImportsAreWhole /\ NamesStand /\ ActivityIsOfItems
  BY DEF ItemIInv
<1>3. \E s \in Snapshot : t.item \in Admitted(s)
  BY <1>2, Found
<1> HIDE DEF t
<1>4. Grows
  <2> SUFFICES ASSUME NEW i \in Item, items[i] # None PROVE items'[i] = items[i]
    BY DEF Grows, Titled
  <2> QED
    BY <1>2
<1>5. /\ InProgress' /\ Undisturbed' /\ QuarantineTells'
      /\ quarantine' \subseteq [item : Item \cup {Blank}, reason : Reasons]
      /\ swept' \in Sweep \cup {None}
      /\ pending' \in [Process -> Seq(Transaction)]
      /\ \A q \in Process : Due(q, "fill")' => items'[Head(pending'[q]).item] # None
  <2> DEFINE op == "insert"
  <2>1. op # "clear" /\ op = "insert" /\ Due(p, op)
    BY <1>1
  <2> HIDE DEF op
  <2>2. t = Head(pending[p])
    BY DEF t
  <2> QED
    BY <1>1, <1>2, <1>4, <2>1, <2>2, Commits
<1>6. ImportsAreWhole'
  <2>1. ASSUME NEW i \in Item, items'[i] # None, ~items'[i].created
        PROVE  \/ items[i] # None /\ ~items[i].created
               \/ \E s \in Snapshot : i \in Admitted(s)
    BY <1>2, <1>3, <2>1
  <2> QED
    BY <1>1, <1>4, <2>1, WholeStays
<1>7. NamesStand' /\ ActivityIsOfItems'
  <2>1. ActivityIsOfItems'
    BY <1>1, <1>4 DEF ActivityIsOfItems, Grows
  <2>2. NamesStand'
    BY <1>1, <1>4 DEF NamesStand, Grows
  <2> QED
    BY <2>1, <2>2
<1>8. TypeOK'
  BY <1>1, <1>2, <1>5 DEF TypeOK, Sweep
<1> QED
  BY <1>5, <1>6, <1>7, <1>8 DEF ItemIInv

(* Filling in a name, unless it has one or the legacy override has one. *)
LEMMA FillGives ==
  ASSUME ItemIInv, NEW p \in Process, Fill(p), NEW t, t = Head(pending[p])
  PROVE  /\ t.item \in Item /\ t.op = "fill" /\ pending[p] # <<>> /\ items[t.item] # None
         /\ items' \in [Item -> ItemRow \cup {None}]
         /\ \A i \in Item \ {t.item} : items'[i] = items[i]
         /\ items'[t.item] # None
         /\ items'[t.item].created = items[t.item].created
         /\ items'[t.item].archived = items[t.item].archived
         /\ items'[t.item].data = items[t.item].data
         /\ items[t.item].created \/ items[t.item].usa # Blank => items'[t.item].usa = items[t.item].usa
         /\ Named(t.item)'
<1>1. Due(p, "fill") /\ Committed(p) /\ TypeOK
  BY DEF Fill, ItemIInv
<1>2. pending[p] # <<>> /\ t.op = "fill" /\ t \in Transaction
  <2> DEFINE op == "fill"
  <2>1. Due(p, op)
    BY <1>1
  <2> HIDE DEF op
  <2>2. pending[p] # <<>> /\ t.op = op /\ t \in Transaction
    BY <1>1, <2>1, CommitFact
  <2> QED
    BY <2>2 DEF op
<1>3. t.item \in Item /\ t.usa \in Value
  BY <1>2, TransactionFact
<1>4. items \in [Item -> ItemRow \cup {None}] /\ items[t.item] # None
  BY <1>1 DEF TypeOK
<1> DEFINE legacy == Override[t.item]
           old == items[t.item]
           name == IF ~old.created /\ old.usa = Blank /\ (legacy = None \/ legacy.usa \in {None, Blank})
                   THEN t.usa ELSE old.usa
           new == [old EXCEPT !.usa = name]
<1>5. old \in ItemRow
  BY <1>3, <1>4
<1>6. items' = [items EXCEPT ![t.item] = new]
  BY DEF Fill
<1>7. name \in Value \cup {Blank}
  BY <1>3, <1>5 DEF ItemRow
<1>8. t.usa # Blank
  BY <1>3, AbsenceAssumption
<1>9. (old.created \/ old.usa # Blank => name = old.usa) /\ (legacy = None => old.created \/ name # Blank)
  BY <1>8
<1>10. old = items[t.item] /\ legacy = Override[t.item]
  OBVIOUS
<1> HIDE DEF name, old, legacy
<1>11. new \in ItemRow /\ new.created = old.created /\ new.archived = old.archived /\ new.data = old.data /\ new.usa = name
  BY <1>5, <1>7 DEF ItemRow
<1> HIDE DEF new
<1>12. new # None
  BY <1>11, AbsenceAssumption
<1>13. items'[t.item] = new /\ \A i \in Item \ {t.item} : items'[i] = items[i]
  BY <1>3, <1>4, <1>6
<1>14. items' \in [Item -> ItemRow \cup {None}]
  BY <1>3, <1>4, <1>6, <1>11
<1>15. Named(t.item)'
  BY <1>9, <1>10, <1>11, <1>12, <1>13 DEF Named, Titled
<1> QED
  BY <1>2, <1>3, <1>4, <1>9, <1>10, <1>11, <1>12, <1>13, <1>14, <1>15

LEMMA FillStep == ASSUME ItemIInv, NEW p \in Process, Fill(p) PROVE ItemIInv'
<1>0. PICK t : t = Head(pending[p])
  OBVIOUS
<1>1. /\ Due(p, "fill") /\ Committed(p) /\ UNCHANGED <<quarantine, activity, source, imported, swept>>
  BY DEF Fill
<1>2. /\ t.item \in Item /\ t.op = "fill" /\ pending[p] # <<>> /\ items[t.item] # None
      /\ items' \in [Item -> ItemRow \cup {None}]
      /\ \A i \in Item \ {t.item} : items'[i] = items[i]
      /\ items'[t.item] # None
      /\ items'[t.item].created = items[t.item].created
      /\ items[t.item].created \/ items[t.item].usa # Blank => items'[t.item].usa = items[t.item].usa
      /\ Named(t.item)'
  BY <1>0, FillGives
<1> TypeOK /\ ImportsAreWhole /\ NamesStand /\ ActivityIsOfItems
  BY DEF ItemIInv
<1>3. Grows
  <2> SUFFICES ASSUME NEW i \in Item, items[i] # None
               PROVE  items'[i] # None /\ (items[i].created \/ items[i].usa # Blank => items'[i].created \/ items'[i].usa # Blank)
    BY DEF Grows, Titled
  <2>1. CASE i = t.item
    BY <1>2, <2>1
  <2>2. CASE i # t.item
    BY <1>2, <2>2
  <2> QED
    BY <2>1, <2>2
<1>4. /\ InProgress' /\ Undisturbed' /\ QuarantineTells'
      /\ quarantine' \subseteq [item : Item \cup {Blank}, reason : Reasons]
      /\ swept' \in Sweep \cup {None}
      /\ pending' \in [Process -> Seq(Transaction)]
      /\ \A q \in Process : Due(q, "fill")' => items'[Head(pending'[q]).item] # None
  <2> DEFINE op == "fill"
  <2>1. op # "clear" /\ op # "insert" /\ Due(p, op)
    BY <1>1
  <2>2. quarantine' = IF op = "quarantine" THEN quarantine \cup {[item |-> t.item, reason |-> t.reason]}
                      ELSE quarantine
    BY <1>1
  <2>3. swept' = IF op = "done" /\ swept.by = p THEN [swept EXCEPT !.done = TRUE] ELSE swept
    BY <1>1
  <2>4. t = Head(pending[p])
    BY <1>0
  <2> HIDE DEF op
  <2> QED
    BY <1>1, <1>2, <1>3, <2>1, <2>2, <2>3, <2>4, Commits
<1>5. ImportsAreWhole'
  <2>1. ASSUME NEW i \in Item, items'[i] # None, ~items'[i].created
        PROVE  items[i] # None /\ ~items[i].created
    <3>1. CASE i = t.item
      BY <1>2, <2>1, <3>1
    <3>2. CASE i # t.item
      BY <1>2, <2>1, <3>2
    <3> QED
      BY <3>1, <3>2
  <2> QED
    BY <1>1, <1>3, <2>1, WholeStays
<1>6. NamesStand' /\ ActivityIsOfItems'
  <2>1. ActivityIsOfItems'
    BY <1>1, <1>3 DEF ActivityIsOfItems, Grows
  <2>2. NamesStand'
    BY <1>1, <1>3 DEF NamesStand, Grows
  <2> QED
    BY <2>1, <2>2
<1>7. TypeOK'
  BY <1>1, <1>2, <1>4 DEF TypeOK, Sweep
<1> QED
  BY <1>4, <1>5, <1>6, <1>7 DEF ItemIInv

-----------------------------------------------------------------------------
(* The changes staff ask for. *)

Said == Value \cup {Blank, "created", "archived"}

LEMMA LoggedFact ==
  ASSUME TypeOK, NEW i \in Item, NEW after, \A q \in DOMAIN after : after[q] \in Said, Logged(i, after)
  PROVE  /\ activity' \in [Item \X Part -> Seq(Said)]
         /\ \A k \in Item \X Part : activity'[k] =
              IF k[1] = i /\ k[2] \in DOMAIN after THEN Append(activity[k], after[k[2]]) ELSE activity[k]
<1>1. activity \in [Item \X Part -> Seq(Said)]
  BY DEF TypeOK, Said
<1>2. activity' = [k \in Item \X Part |->
    IF k[1] = i /\ k[2] \in DOMAIN after THEN Append(activity[k], after[k[2]]) ELSE activity[k]]
  BY DEF Logged
<1>3. \A k \in Item \X Part :
    (IF k[1] = i /\ k[2] \in DOMAIN after THEN Append(activity[k], after[k[2]]) ELSE activity[k]) \in Seq(Said)
  BY <1>1, AppendProperties
<1> HIDE DEF Said
<1> QED
  BY <1>2, <1>3

(* What a change of an item does: nothing, or it changes the parts it names *)
(* of one item, and logs them.                                              *)
ChangesPart(i, after) ==
  /\ i \in Item /\ items' \in [Item -> ItemRow \cup {None}]
  /\ \A j \in Item \ {i} : items'[j] = items[j]
  /\ items'[i] \in ItemRow /\ items'[i] # None
  /\ items[i] # None => items'[i].created = items[i].created
  /\ items[i] = None => items'[i].created /\ "usa" \in DOMAIN after
  /\ items[i] # None /\ "usa" \in DOMAIN after => items'[i].usa # Blank
  /\ items[i] # None => \A q \in Part \ DOMAIN after : items'[i][q] = items[i][q]
  /\ \A q \in DOMAIN after : after[q] \in Said
  /\ items[i] # None => \A q \in DOMAIN after \cap {"data", "usa"} : after[q] = items'[i][q]
  /\ "archived" \in DOMAIN after => items'[i].archived /\ after["archived"] = "archived"
  /\ Logged(i, after)

LEMMA ChangeGives ==
  ASSUME TypeOK, Edit \/ Create \/ Archive
  PROVE  UNCHANGED <<items, activity>> \/ \E i, after : ChangesPart(i, after)
<1> DEFINE t == Head(pending["server"])
<1>1. items \in [Item -> ItemRow \cup {None}] /\ "server" \in Process
  BY DEF TypeOK, Process
<1>2. t \in Change /\ t.op \in {"edit", "create", "archive"}
  <2>1. PICK op \in {"edit", "create", "archive"} : Due("server", op) /\ Committed("server")
    BY DEF Edit, Create, Archive
  <2>2. t \in Transaction /\ t.op = op
    BY <1>1, <2>1, CommitFact
  <2> QED
    BY <2>1, <2>2, TransactionFact
<1> HIDE DEF t
<1>3. t.item \in Item
  BY <1>2 DEF Change
<1>4. CASE Edit
  <2>1. t.op = "edit"
    BY <1>4 DEF Edit, Due, t
  <2>2. t.part \in {"data", "usa"} /\ t.value \in Value /\ t.value # Blank
    BY <1>2, <2>1, AbsenceAssumption DEF Change
  <2> DEFINE after == [q \in {t.part} |-> t.value]
             old == items[t.item]
             new == IF t.part = "data" THEN [old EXCEPT !.data = t.value] ELSE [old EXCEPT !.usa = t.value]
  <2>3. CASE items[t.item] = None
    BY <1>4, <2>3 DEF Edit, t
  <2>4. CASE items[t.item] # None
    <3>1. items' = [items EXCEPT ![t.item] = new] /\ Logged(t.item, after)
      BY <1>4, <2>4 DEF Edit, t
    <3>2. old \in ItemRow /\ old = items[t.item]
      BY <1>1, <1>3, <2>4
    <3> HIDE DEF old
    <3>3. /\ new \in ItemRow /\ new.created = old.created /\ new.archived = old.archived
          /\ t.part = "data" => new.data = t.value /\ new.usa = old.usa
          /\ t.part = "usa" => new.usa = t.value /\ new.data = old.data
      BY <2>2, <3>2 DEF ItemRow
    <3> HIDE DEF new
    <3>4. new # None
      BY <3>3, AbsenceAssumption
    <3>5. /\ items'[t.item] = new /\ \A j \in Item \ {t.item} : items'[j] = items[j]
          /\ items' \in [Item -> ItemRow \cup {None}]
      BY <1>1, <1>3, <3>1, <3>3
    <3>6. \A q \in Part \ {t.part} : new[q] = old[q]
      BY <2>2, <3>3 DEF Part
    <3>7. DOMAIN after = {t.part} /\ after[t.part] = t.value /\ "archived" \notin DOMAIN after
      BY <2>2
    <3>8. t.value \in Said /\ new[t.part] = t.value
      BY <2>2, <3>3 DEF Said
    <3> HIDE DEF after
    <3>9. ChangesPart(t.item, after)
      BY <1>3, <2>2, <2>4, <3>1, <3>2, <3>3, <3>4, <3>5, <3>6, <3>7, <3>8 DEF ChangesPart
    <3> QED
      BY <3>9
  <2> QED
    BY <2>3, <2>4
<1>5. CASE Create
  <2>1. t.op = "create"
    BY <1>5 DEF Create, Due, t
  <2>2. t.data \in Value /\ t.usa \in Value \cup {Blank}
    BY <1>2, <2>1 DEF Change
  <2> DEFINE after == [q \in {"data", "usa"} |-> "created"]
             new == [created |-> TRUE, archived |-> FALSE, data |-> t.data, usa |-> t.usa]
  <2>3. CASE items[t.item] # None
    BY <1>5, <2>3 DEF Create, t
  <2>4. CASE items[t.item] = None
    <3>1. items' = [items EXCEPT ![t.item] = new] /\ Logged(t.item, after)
      BY <1>5, <2>4 DEF Create, t
    <3>2. new \in ItemRow /\ new.created
      BY <2>2 DEF ItemRow
    <3> HIDE DEF new
    <3>3. new # None
      BY <3>2, AbsenceAssumption
    <3>4. /\ items'[t.item] = new /\ \A j \in Item \ {t.item} : items'[j] = items[j]
          /\ items' \in [Item -> ItemRow \cup {None}]
      BY <1>1, <1>3, <3>1, <3>2
    <3>5. DOMAIN after = {"data", "usa"} /\ \A q \in DOMAIN after : after[q] \in Said
      BY DEF Said
    <3> HIDE DEF after
    <3>6. ChangesPart(t.item, after)
      BY <1>3, <2>4, <3>1, <3>2, <3>3, <3>4, <3>5 DEF ChangesPart
    <3> QED
      BY <3>6
  <2> QED
    BY <2>3, <2>4
<1>6. CASE Archive
  <2> DEFINE after == [q \in {"archived"} |-> "archived"]
             old == items[t.item]
             new == [old EXCEPT !.archived = TRUE]
  <2>3. CASE items[t.item] = None
    BY <1>6, <2>3 DEF Archive, t
  <2>4. CASE items[t.item] # None
    <3>1. items' = [items EXCEPT ![t.item] = new] /\ Logged(t.item, after)
      BY <1>6, <2>4 DEF Archive, t
    <3>2. old \in ItemRow /\ old = items[t.item]
      BY <1>1, <1>3, <2>4
    <3> HIDE DEF old
    <3>3. new \in ItemRow /\ new.created = old.created /\ new.data = old.data /\ new.usa = old.usa /\ new.archived
      BY <3>2 DEF ItemRow
    <3> HIDE DEF new
    <3>4. new # None
      BY <3>3, AbsenceAssumption
    <3>5. /\ items'[t.item] = new /\ \A j \in Item \ {t.item} : items'[j] = items[j]
          /\ items' \in [Item -> ItemRow \cup {None}]
      BY <1>1, <1>3, <3>1, <3>3
    <3>6. \A q \in Part \ {"archived"} : new[q] = old[q]
      BY <3>3 DEF Part
    <3>7. DOMAIN after = {"archived"} /\ after["archived"] = "archived" /\ "archived" \in Said
      BY DEF Said
    <3> HIDE DEF after
    <3>9. ChangesPart(t.item, after)
      BY <1>3, <2>4, <3>1, <3>2, <3>3, <3>4, <3>5, <3>6, <3>7 DEF ChangesPart
    <3> QED
      BY <3>9
  <2> QED
    BY <2>3, <2>4
<1> QED
  BY <1>4, <1>5, <1>6

LEMMA ChangeGrows ==
  ASSUME TypeOK, NEW i, NEW after, ChangesPart(i, after)
  PROVE  Grows
<1>1. i \in Item
  BY DEF ChangesPart
<1>2. items[i] # None /\ "usa" \notin DOMAIN after => items'[i].usa = items[i].usa
  BY DEF ChangesPart, Part
<1>3. ASSUME NEW j \in Item, items[j] # None
      PROVE  items'[j] # None /\ (items[j].created \/ items[j].usa # Blank => items'[j].created \/ items'[j].usa # Blank)
  <2>1. CASE j = i
    BY <1>2, <1>3, <2>1 DEF ChangesPart
  <2>2. CASE j # i
    BY <1>3, <2>2 DEF ChangesPart
  <2> QED
    BY <2>1, <2>2
<1> QED
  BY <1>3 DEF Grows, Titled

LEMMA ChangeStep == ASSUME ItemIInv, Edit \/ Create \/ Archive PROVE ItemIInv'
<1>0. PICK t : t = Head(pending["server"])
  OBVIOUS
<1>1. PICK op \in {"edit", "create", "archive"} : Due("server", op) /\ Committed("server")
  BY DEF Edit, Create, Archive
<1>2. UNCHANGED <<quarantine, source, imported, swept>>
  BY DEF Edit, Create, Archive
<1> TypeOK /\ ImportsAreWhole /\ NamesStand /\ ActivityIsOfItems
  BY DEF ItemIInv
<1>3. /\ Grows
      /\ items' \in [Item -> ItemRow \cup {None}]
      /\ activity' \in [Item \X Part -> Seq(Said)]
      /\ \A i \in Item : items'[i] # None /\ ~items'[i].created => items[i] # None /\ ~items[i].created
      /\ NamesStand' /\ ActivityIsOfItems'
  <2>1. CASE UNCHANGED <<items, activity>>
    <3>1. Grows
      BY <2>1, SameItemsGrow
    <3> QED
      BY <2>1, <3>1 DEF TypeOK, NamesStand, ActivityIsOfItems, Titled, Said
  <2>2. ASSUME NEW i, NEW after, ChangesPart(i, after)
        PROVE  /\ Grows
               /\ items' \in [Item -> ItemRow \cup {None}]
               /\ activity' \in [Item \X Part -> Seq(Said)]
               /\ \A j \in Item : items'[j] # None /\ ~items'[j].created => items[j] # None /\ ~items[j].created
               /\ NamesStand' /\ ActivityIsOfItems'
    <3>1. Grows
      BY <2>2, ChangeGrows
    <3>2. /\ activity' \in [Item \X Part -> Seq(Said)]
          /\ \A k \in Item \X Part : activity'[k] =
               IF k[1] = i /\ k[2] \in DOMAIN after THEN Append(activity[k], after[k[2]]) ELSE activity[k]
      BY <2>2, LoggedFact DEF ChangesPart
    <3>3. ASSUME NEW j \in Item, items'[j] # None, ~items'[j].created
          PROVE  items[j] # None /\ ~items[j].created
      <4>1. CASE j = i
        BY <2>2, <3>3, <4>1 DEF ChangesPart
      <4>2. CASE j # i
        BY <2>2, <3>3, <4>2 DEF ChangesPart
      <4> QED
        BY <4>1, <4>2
    <3>4. ASSUME NEW j \in Item, activity'[<<j, "usa">>] # <<>> PROVE Titled(j)'
      <4>1. <<j, "usa">> \in Item \X Part
        BY DEF Part
      <4>2. CASE j = i /\ "usa" \in DOMAIN after
        BY <2>2, <4>2 DEF ChangesPart, Titled
      <4>3. CASE ~(j = i /\ "usa" \in DOMAIN after)
        <5>1. activity'[<<j, "usa">>] = activity[<<j, "usa">>]
          BY <3>2, <4>1, <4>3
        <5> QED
          BY <3>1, <3>4, <5>1 DEF NamesStand, Grows
      <4> QED
        BY <4>2, <4>3
    <3>5. ASSUME NEW k \in Item \X Part, activity'[k] # <<>> PROVE items'[k[1]] # None
      <4>1. CASE k[1] = i
        BY <2>2, <4>1 DEF ChangesPart
      <4>2. CASE k[1] # i
        <5>1. activity'[k] = activity[k]
          BY <3>2, <4>2
        <5> QED
          BY <3>1, <3>5, <5>1 DEF ActivityIsOfItems, Grows
      <4> QED
        BY <4>1, <4>2
    <3>6. items' \in [Item -> ItemRow \cup {None}]
      BY <2>2 DEF ChangesPart
    <3> QED
      BY <3>1, <3>2, <3>3, <3>4, <3>5, <3>6 DEF NamesStand, ActivityIsOfItems
  <2> QED
    BY <2>1, <2>2, ChangeGives
<1>4. /\ InProgress' /\ Undisturbed' /\ QuarantineTells'
      /\ quarantine' \subseteq [item : Item \cup {Blank}, reason : Reasons]
      /\ swept' \in Sweep \cup {None}
      /\ pending' \in [Process -> Seq(Transaction)]
      /\ \A q \in Process : Due(q, "fill")' => items'[Head(pending'[q]).item] # None
  <2>1. op # "clear" /\ op # "insert" /\ op # "fill" /\ op # "quarantine" /\ op # "done" /\ "server" \in Process
    BY DEF Process
  <2>2. quarantine' = IF op = "quarantine" THEN quarantine \cup {[item |-> t.item, reason |-> t.reason]}
                      ELSE quarantine
    BY <1>2, <2>1
  <2>3. swept' = IF op = "done" /\ swept.by = "server" THEN [swept EXCEPT !.done = TRUE] ELSE swept
    BY <1>2, <2>1
  <2> QED
    BY <1>0, <1>1, <1>2, <1>3, <2>1, <2>2, <2>3, Commits
<1>5. ImportsAreWhole'
  BY <1>2, <1>3, WholeStays
<1>6. TypeOK'
  BY <1>2, <1>3, <1>4 DEF TypeOK, Sweep, Said
<1> QED
  BY <1>3, <1>4, <1>5, <1>6 DEF ItemIInv

LEMMA ClearStep == ASSUME ItemIInv, NEW p \in Process, Clear(p) PROVE ItemIInv'
<1> DEFINE t == Head(pending[p])
           alone == \A q \in Process \ {p} : Waits(q)
<1>1. /\ Due(p, "clear") /\ Committed(p) /\ UNCHANGED <<items, activity, source, imported>>
      /\ quarantine' = {}
      /\ swept' = [by |-> p, of |-> t.of, done |-> FALSE, alone |-> alone]
  BY DEF Clear, Waits
<1> TypeOK /\ InProgress /\ ImportsAreWhole /\ NamesStand /\ ActivityIsOfItems
  BY DEF ItemIInv
<1>2. Grows
  BY <1>1, SameItemsGrow
<1>3. /\ pending[p] # <<>> /\ t.op = "clear" /\ t \in Transaction
      /\ pending'[p] = Tail(pending[p]) /\ \A q \in Process \ {p} : pending'[q] = pending[q]
      /\ pending' \in [Process -> Seq(Transaction)]
  <2> DEFINE op == "clear"
  <2>1. Due(p, op)
    BY <1>1
  <2> HIDE DEF op
  <2>2. /\ pending[p] # <<>> /\ t.op = op /\ t \in Transaction
        /\ pending'[p] = Tail(pending[p]) /\ \A q \in Process \ {p} : pending'[q] = pending[q]
        /\ pending' \in [Process -> Seq(Transaction)]
    BY <1>1, <2>1, CommitFact
  <2> QED
    BY <2>2 DEF op
<1>4. t.of \in Snapshot
  BY <1>3, TransactionFact
<1>5. /\ swept' \in Sweep /\ swept'.by = p /\ ~swept'.done /\ swept'.of = t.of
      /\ swept'.alone = alone /\ swept' # None
  <2>1. swept' \in Sweep
    BY <1>1, <1>4 DEF Sweep
  <2> HIDE DEF alone, t
  <2> QED
    BY <1>1, <2>1, AbsenceAssumption DEF Sweep
<1>6. Undisturbed'
  BY <1>3, <1>5 DEF Undisturbed, Waits
<1>7. QuarantineTells'
  BY <1>5 DEF QuarantineTells
<1>8. Progress(p)'
  <2>1. Progress(p)
    BY DEF InProgress
  <2>2. PICK s \in Snapshot, rest \in Rests(p) : \E k \in 1 .. Len(Work(s, rest)) :
           /\ Importing(p, s, rest, k) /\ Stands(t, p, s, rest, k)
           /\ Tail(pending[p]) = SubSeq(Work(s, rest), k + 1, Len(Work(s, rest)))
           /\ k = Len(Work(s, rest)) => Tail(pending[p]) = <<>>
    BY <1>3, <2>1, CurrentFact
  <2>3. PICK k \in 1 .. Len(Work(s, rest)) :
           /\ Importing(p, s, rest, k) /\ Stands(t, p, s, rest, k)
           /\ Tail(pending[p]) = SubSeq(Work(s, rest), k + 1, Len(Work(s, rest)))
           /\ k = Len(Work(s, rest)) => Tail(pending[p]) = <<>>
    BY <2>2
  <2>4. k = 1 /\ t.of = s /\ t = Import(s)[k]
    <3>1. k = 1 /\ t.of = s /\ t = Work(s, rest)[k]
      BY <1>3, <2>3 DEF Stands
    <3> QED
      BY <3>1, WorkFact
  <2>5. RejectedBefore(s, k + 1) = {}
    BY <2>4, RejectedFact
  <2>6. Left(Import(s)[k])'
    BY <1>3, <2>4 DEF Left
  <2> HIDE DEF t, alone, RejectedBefore
  <2>7. k < Len(Import(s)) /\ swept'.by = p =>
           /\ swept'.of = s /\ ~swept'.done
           /\ RejectedBefore(s, k + 1) \subseteq quarantine'
           /\ swept'.alone => quarantine' = RejectedBefore(s, k + 1)
    BY <1>1, <1>5, <2>4, <2>5
  <2>8. Stands(Head(pending[p]), p, s, rest, k)
    BY <2>3 DEF t
  <2> QED
    BY <1>2, <1>3, <1>5, <2>3, <2>6, <2>7, <2>8, Advance
<1>9. ASSUME NEW q \in Process, q # p PROVE Progress(q)'
  <2>1. Progress(q) /\ pending'[q] = pending[q]
    BY <1>3, <1>9 DEF InProgress
  <2>2. swept' # None /\ swept'.by # q
    BY <1>5, <1>9
  <2> QED
    BY <1>2, <2>1, <2>2, OthersStay
<1>10. InProgress'
  BY <1>8, <1>9 DEF InProgress
<1>11. ImportsAreWhole'
  BY <1>1, <1>2, WholeStays
<1>12. NamesStand' /\ ActivityIsOfItems'
  BY <1>1 DEF NamesStand, ActivityIsOfItems, Titled
<1>13. ASSUME NEW q \in Process, Due(q, "fill")' PROVE items'[Head(pending'[q]).item] # None
  <2>1. pending'[q] # <<>> /\ Head(pending'[q]).op = "fill"
    BY <1>13 DEF Due
  <2> QED
    BY <1>10, <2>1, FillReady
<1>14. TypeOK'
  BY <1>1, <1>3, <1>5, <1>13 DEF TypeOK, Sweep
<1> QED
  BY <1>6, <1>7, <1>10, <1>11, <1>12, <1>14 DEF ItemIInv

(* A process starts an import, fails, or is started again. *)
LEMMA ResetStep ==
  ASSUME ItemIInv, NEW p \in Process, NEW x \in Seq(Transaction), pending' = [pending EXCEPT ![p] = x],
         x = <<>> \/ Head(x).op = "clear", Progress(p)',
         UNCHANGED <<items, quarantine, activity, imported, swept>>, source' \in Snapshot
  PROVE  ItemIInv'
<1> TypeOK /\ InProgress /\ Undisturbed /\ ImportsAreWhole /\ QuarantineTells /\ NamesStand /\ ActivityIsOfItems
  BY DEF ItemIInv
<1>1. Grows
  BY SameItemsGrow
<1>2. /\ pending' \in [Process -> Seq(Transaction)] /\ pending'[p] = x
      /\ \A q \in Process \ {p} : pending'[q] = pending[q]
  <2>1. pending \in [Process -> Seq(Transaction)]
    BY DEF TypeOK
  <2> HIDE DEF Transaction
  <2> QED
    BY <2>1
<1>3. InProgress'
  <2>1. ASSUME NEW q \in Process, q # p PROVE Progress(q)'
    <3>1. Progress(q) /\ pending'[q] = pending[q]
      BY <1>2, <2>1 DEF InProgress
    <3> QED
      BY <1>1, <3>1, OthersStay
  <2> QED
    BY <2>1 DEF InProgress
<1>4. Undisturbed'
  <2>1. \A q \in Process : Waits(q) => pending'[q] = <<>> \/ Head(pending'[q]).op = "clear"
    BY <1>2 DEF Waits
  <2>2. swept # None => swept.by \in Process
    BY DEF TypeOK
  <2>3. swept # None /\ swept.by # p => pending'[swept.by] = pending[swept.by]
    BY <1>2, <2>2
  <2>4. pending'[p] = <<>> \/ Head(pending'[p]).op = "clear"
    BY <1>2
  <2> QED
    BY <2>1, <2>2, <2>3, <2>4 DEF Undisturbed, Waits
<1>5. ImportsAreWhole'
  BY <1>1, WholeStays
<1>6. QuarantineTells' /\ NamesStand' /\ ActivityIsOfItems'
  BY DEF QuarantineTells, Rejections, NamesStand, ActivityIsOfItems, Titled
<1>7. ASSUME NEW q \in Process, Due(q, "fill")' PROVE items'[Head(pending'[q]).item] # None
  <2>1. pending'[q] # <<>> /\ Head(pending'[q]).op = "fill"
    BY <1>7 DEF Due
  <2> QED
    BY <1>3, <2>1, FillReady
<1>8. TypeOK'
  BY <1>2, <1>7 DEF TypeOK
<1> QED
  BY <1>3, <1>4, <1>5, <1>6, <1>8 DEF ItemIInv

LEMMA RequestStep ==
  ASSUME ItemIInv, NEW p \in Process, NEW s \in Snapshot, NEW rest \in Rests(p),
         pending' = [pending EXCEPT ![p] = Work(s, rest)],
         UNCHANGED <<items, quarantine, activity, source, imported, swept>>
  PROVE  ItemIInv'
<1>1. pending \in [Process -> Seq(Transaction)] /\ source \in Snapshot
  BY DEF ItemIInv, TypeOK
<1>2. pending'[p] = Work(s, rest)
  BY <1>1
<1>3. Progress(p)' /\ pending'[p] \in Seq(Transaction) /\ pending'[p] # <<>> /\ Head(pending'[p]).op = "clear"
  BY <1>2, StartFact
<1> DEFINE x == Work(s, rest)
<1>4. x \in Seq(Transaction) /\ Head(x).op = "clear" /\ pending' = [pending EXCEPT ![p] = x]
  BY <1>2, <1>3
<1> HIDE DEF x
<1> QED
  BY <1>1, <1>3, <1>4, ResetStep

LEMMA DropStep ==
  ASSUME ItemIInv, NEW p \in Process, pending' = [pending EXCEPT ![p] = <<>>],
         UNCHANGED <<items, quarantine, activity, imported, swept>>, source' \in Snapshot
  PROVE  ItemIInv'
<1>1. pending'[p] = <<>>
  BY DEF ItemIInv, TypeOK
<1>2. Progress(p)'
  BY <1>1 DEF Progress
<1>3. <<>> \in Seq(Transaction)
  OBVIOUS
<1> QED
  BY <1>2, <1>3, ResetStep

LEMMA WholeImport == ASSUME NEW s \in Snapshot, NEW p \in Process PROVE <<>> \in Rests(p) /\ Work(s, <<>>) = Import(s)
<1> DEFINE x == Import(s)
<1>1. x \in Seq(Transaction)
  BY ImportFact DEF ImportMeets
<1> HIDE DEF x
<1>2. x \o <<>> = x
  BY <1>1, ConcatEmptySeq
<1> QED
  BY <1>2 DEF Work, Rests, x

LEMMA InitItems == Init => ItemIInv
<1> SUFFICES ASSUME Init PROVE ItemIInv
  OBVIOUS
<1>1. TypeOK
  <2>1. <<>> \in Seq(Transaction) /\ <<>> \in Seq(Value \cup {Blank, "created", "archived"})
    OBVIOUS
  <2>2. \A p \in Process : ~Due(p, "fill")
    BY DEF Init, Due
  <2> HIDE DEF Transaction
  <2> QED
    BY <2>1, <2>2 DEF Init, TypeOK
<1>2. InProgress
  BY DEF Init, InProgress, Progress
<1>3. Undisturbed /\ QuarantineTells
  BY DEF Init, Undisturbed, QuarantineTells
<1>4. ImportsAreWhole
  BY DEF Init, ImportsAreWhole
<1>5. NamesStand /\ ActivityIsOfItems
  BY DEF Init, NamesStand, ActivityIsOfItems, Part
<1> QED
  BY <1>1, <1>2, <1>3, <1>4, <1>5 DEF ItemIInv

LEMMA StepItems == ASSUME ItemIInv, [Next]_vars PROVE ItemIInv'
<1>1. source \in Snapshot /\ "server" \in Process /\ "importer" \in Process
  BY DEF ItemIInv, TypeOK, Process
<1>2. ASSUME NEW change \in Changes, Ask(change) PROVE ItemIInv'
  <2>1. <<change>> \in Rests("server") /\ Import(source) \o <<change>> = Work(source, <<change>>)
    BY DEF Rests, Work
  <2>2. pending' = [pending EXCEPT !["server"] = Work(source, <<change>>)]
    BY <1>2, <2>1 DEF Ask, Requested
  <2>3. UNCHANGED <<items, quarantine, activity, source, imported, swept>>
    BY <1>2 DEF Ask, Requested
  <2> QED
    BY <1>1, <2>1, <2>2, <2>3, RequestStep
<1>3. CASE Duplicate \/ Search
  <2>1. <<>> \in Rests("server") /\ Work(source, <<>>) = Import(source)
    BY <1>1, WholeImport
  <2>2. pending' = [pending EXCEPT !["server"] = Import(source)]
        /\ UNCHANGED <<items, quarantine, activity, source, imported, swept>>
    BY <1>3 DEF Duplicate, Search, Requested
  <2>3. pending' = [pending EXCEPT !["server"] = Work(source, <<>>)]
    BY <2>1, <2>2, Zenon
  <2> QED
    BY <1>1, <2>1, <2>2, <2>3, RequestStep
<1>4. ASSUME NEW s \in Snapshot, RunImporter(s) PROVE ItemIInv'
  <2>1. <<>> \in Rests("importer") /\ Work(s, <<>>) = Import(s)
    BY <1>1, WholeImport
  <2>2. pending' = [pending EXCEPT !["importer"] = Import(s)]
        /\ UNCHANGED <<items, quarantine, activity, source, imported, swept>>
    BY <1>4 DEF RunImporter
  <2>3. pending' = [pending EXCEPT !["importer"] = Work(s, <<>>)]
    BY <2>1, <2>2, Zenon
  <2> QED
    BY <1>1, <2>1, <2>2, <2>3, RequestStep
<1>5. ASSUME NEW s \in Snapshot, Restart(s) PROVE ItemIInv'
  BY <1>1, <1>5, DropStep DEF Restart
<1>6. ASSUME NEW p \in Process, Fail(p) PROVE ItemIInv'
  BY <1>1, <1>6, DropStep DEF Fail
<1>7. CASE UNCHANGED vars
  <2>1. UNCHANGED <<items, quarantine, activity, source, pending, imported, swept>>
    BY <1>7 DEF vars
  <2>2. Grows
    BY <2>1, SameItemsGrow
  <2>3. InProgress'
    <3> SUFFICES ASSUME NEW p \in Process PROVE Progress(p)'
      BY DEF InProgress
    <3>1. Progress(p) /\ pending'[p] = pending[p]
      BY <2>1 DEF ItemIInv, InProgress
    <3> QED
      BY <2>1, <2>2, <3>1, OthersStay
  <2>4. TypeOK'
    BY <2>1 DEF ItemIInv, TypeOK, Due
  <2>5. Undisturbed'
    BY <2>1 DEF ItemIInv, Undisturbed, Waits
  <2>6. QuarantineTells'
    BY <2>1 DEF ItemIInv, QuarantineTells, Rejections
  <2>7. ImportsAreWhole'
    BY <2>1, <2>2, WholeStays DEF ItemIInv
  <2>8. NamesStand' /\ ActivityIsOfItems'
    BY <2>1 DEF ItemIInv, NamesStand, ActivityIsOfItems, Titled
  <2> QED
    BY <2>3, <2>4, <2>5, <2>6, <2>7, <2>8 DEF ItemIInv
<1> QED
  BY <1>2, <1>3, <1>4, <1>5, <1>6, <1>7, ClearStep, RejectStep, InsertStep, FillStep, DoneStep, ChangeStep DEF Next

(* The inductive invariant of the catalogue: a process that imports has left *)
(* behind what the transactions it committed say, in the order of            *)
(* backfill_from_snapshot, and the last sweep is what the process it is of   *)
(* has still to do.                                                          *)
THEOREM ItemsInvariant == Spec => []ItemIInv
<1>1. ItemIInv /\ [Next]_vars => ItemIInv'
  BY StepItems
<1> QED
  BY <1>1, InitItems, PTL DEF Spec

(* The tables of CoreStore hold what their columns and checks admit, and no  *)
(* name is filled in for an item that is not there.                          *)
THEOREM ItemsTyped == Spec => []TypeOK
<1>1. ItemIInv => TypeOK
  BY DEF ItemIInv
<1> QED
  BY <1>1, ItemsInvariant, PTL

(* Every import that returns has left all the items it admits in the         *)
(* catalogue, over any imports, failures and restarts                        *)
(* (backfill_from_snapshot).                                                 *)
THEOREM ImportsWhole == Spec => []ImportsAreWhole
<1>1. ItemIInv => ImportsAreWhole
  BY DEF ItemIInv
<1> QED
  BY <1>1, ItemsInvariant, PTL

(* The quarantine tells what the last import to clear it rejected, once that *)
(* import returns (clear_active_quarantines, quarantine).                    *)
THEOREM QuarantinesTell == Spec => []QuarantineTells
<1>1. ItemIInv => QuarantineTells
  BY DEF ItemIInv
<1> QED
  BY <1>1, ItemsInvariant, PTL

-----------------------------------------------------------------------------
(* What staff decided stays. *)

(* The value of a part as StaffDecisions has it, whether it is decided, and   *)
(* the two things a step can do to it.                                        *)
Current(k) == IF items[k[1]] = None THEN None
              ELSE IF k[2] = "archived" THEN IF items[k[1]].archived THEN "archived" ELSE "active"
              ELSE items[k[1]][k[2]]
Stays(k) == items[k[1]] # None /\ (items[k[1]].created \/ activity[k] # <<>>)
LeftAlone(k) ==
  /\ activity'[k] = activity[k]
  /\ Stays(k) => items'[k[1]] # None /\ items'[k[1]].created = items[k[1]].created
                 /\ items'[k[1]][k[2]] = items[k[1]][k[2]]
Decided(k) ==
  /\ items'[k[1]] # None
  /\ \E e \in Said : activity'[k] = Append(activity[k], e) /\ (items[k[1]] = None \/ e = Current(k)')

LEMMA UnchangedLeavesAlone ==
  ASSUME NEW k \in Item \X Part, UNCHANGED <<items, activity>>
  PROVE  LeftAlone(k)
<1>1. items' = items /\ activity' = activity
  OBVIOUS
<1> QED
  BY <1>1 DEF LeftAlone, Stays

LEMMA KeyStep == ASSUME ItemIInv, ItemIInv', [Next]_vars, NEW k \in Item \X Part PROVE LeftAlone(k) \/ Decided(k)
<1> TypeOK BY DEF ItemIInv
<1>0. k[1] \in Item /\ k[2] \in Part /\ k = <<k[1], k[2]>>
  OBVIOUS
<1>1. ASSUME NEW p \in Process, Insert(p) PROVE LeftAlone(k)
  <2>1. PICK t : t = Head(pending[p])
    OBVIOUS
  <2>2. \A i \in Item : items'[i] = items[i] \/ (i = t.item /\ items[i] = None /\ ~items'[i].created)
    BY <1>1, <2>1, InsertGives
  <2>3. activity' = activity
    BY <1>1 DEF Insert
  <2> QED
    BY <1>0, <2>2, <2>3 DEF LeftAlone, Stays
<1>2. ASSUME NEW p \in Process, Fill(p) PROVE LeftAlone(k)
  <2>1. PICK t : t = Head(pending[p])
    OBVIOUS
  <2>2. /\ t.item \in Item
        /\ \A i \in Item \ {t.item} : items'[i] = items[i]
        /\ items'[t.item] # None
        /\ items'[t.item].created = items[t.item].created
        /\ items'[t.item].archived = items[t.item].archived
        /\ items'[t.item].data = items[t.item].data
        /\ items[t.item].created \/ items[t.item].usa # Blank => items'[t.item].usa = items[t.item].usa
    BY <1>2, <2>1, FillGives
  <2>3. activity' = activity
    BY <1>2 DEF Fill
  <2>4. CASE k[1] # t.item
    BY <1>0, <2>2, <2>3, <2>4 DEF LeftAlone, Stays
  <2>5. CASE k[1] = t.item
    <3>1. Stays(k) /\ k[2] = "usa" => items[t.item].created \/ items[t.item].usa # Blank
      BY <1>0, <2>5 DEF ItemIInv, NamesStand, Titled, Stays
    <3>2. Stays(k) => items'[k[1]][k[2]] = items[k[1]][k[2]]
      BY <1>0, <2>2, <2>5, <3>1 DEF Part
    <3> QED
      BY <2>2, <2>3, <2>5, <3>2 DEF LeftAlone
  <2> QED
    BY <2>4, <2>5
<1>3. ASSUME NEW i, NEW after, ChangesPart(i, after) PROVE LeftAlone(k) \/ Decided(k)
  <2>1. activity'[k] = IF k[1] = i /\ k[2] \in DOMAIN after THEN Append(activity[k], after[k[2]]) ELSE activity[k]
    BY <1>3, LoggedFact DEF ChangesPart
  <2>2. CASE k[1] # i
    BY <1>0, <1>3, <2>1, <2>2 DEF LeftAlone, Stays, ChangesPart
  <2>3. CASE k[1] = i /\ k[2] \in DOMAIN after
    <3>1. items'[i] # None /\ after[k[2]] \in Said /\ activity'[k] = Append(activity[k], after[k[2]])
      BY <1>3, <2>1, <2>3 DEF ChangesPart
    <3>2. items[i] # None => after[k[2]] = Current(k)'
      <4>1. CASE k[2] = "archived"
        BY <1>3, <2>3, <3>1, <4>1 DEF ChangesPart, Current
      <4>2. CASE k[2] # "archived"
        BY <1>0, <1>3, <2>3, <3>1, <4>2 DEF ChangesPart, Current, Part
      <4> QED
        BY <4>1, <4>2
    <3> QED
      BY <2>3, <3>1, <3>2 DEF Decided
  <2>4. CASE k[1] = i /\ k[2] \notin DOMAIN after
    <3>1. activity'[k] = activity[k]
      BY <2>1, <2>4
    <3>2. ASSUME items[i] # None PROVE items'[i] # None /\ items'[i].created = items[i].created
              /\ items'[i][k[2]] = items[i][k[2]]
      BY <1>0, <1>3, <2>4, <3>2 DEF ChangesPart
    <3> QED
      BY <1>0, <1>3, <2>4, <3>1, <3>2 DEF LeftAlone, Stays, ChangesPart
  <2> QED
    BY <2>2, <2>3, <2>4
<1>4. CASE Edit \/ Create \/ Archive
  BY <1>3, <1>4, ChangeGives, UnchangedLeavesAlone
<1>5. CASE UNCHANGED <<items, activity>>
  BY <1>5, UnchangedLeavesAlone
<1>6. ASSUME NEW p \in Process, Clear(p) \/ Reject(p) \/ Done(p) \/ Fail(p) PROVE UNCHANGED <<items, activity>>
  BY <1>6 DEF Clear, Reject, Done, Fail
<1>7. ASSUME NEW s \in Snapshot, RunImporter(s) \/ Restart(s) PROVE UNCHANGED <<items, activity>>
  BY <1>7 DEF RunImporter, Restart
<1>8. ASSUME (\E change \in Changes : Ask(change)) \/ Duplicate \/ Search PROVE UNCHANGED <<items, activity>>
  BY <1>8 DEF Ask, Duplicate, Search, Requested
<1> QED
  BY <1>1, <1>2, <1>4, <1>5, <1>6, <1>7, <1>8 DEF Next, vars

(* The values and the decisions that a state stands for. *)
ValueNow == [k \in Item \X Part |-> ValueOf(k[1], k[2])]
DecidedNow == {k \in Item \X Part : items[k[1]] # None /\ (items[k[1]].created \/ activity[k] # <<>>)}

LEMMA InitDecisions == Init => Decisions!Init
<1> SUFFICES ASSUME Init, NEW k \in Item \X Part PROVE activity[k] = <<>>
  BY DEF Decisions!Init
<1> QED
  BY DEF Init

LEMMA NowFact ==
  ASSUME NEW k \in Item \X Part
  PROVE  ValueNow[k] = Current(k) /\ (k \in DecidedNow <=> Stays(k))
<1>1. ValueNow[k] = ValueOf(k[1], k[2])
  BY DEF ValueNow
<1>2. ValueOf(k[1], k[2]) = Current(k)
  BY DEF ValueOf, Current
<1> QED
  BY <1>1, <1>2 DEF DecidedNow, Stays

LEMMA NextFact ==
  ASSUME NEW k \in Item \X Part
  PROVE  ValueNow'[k] = Current(k)' /\ (k \in DecidedNow' <=> Stays(k)')
<1>1. ValueNow'[k] = ValueOf(k[1], k[2])'
  BY DEF ValueNow
<1>2. ValueOf(k[1], k[2])' = Current(k)'
  BY DEF ValueOf, Current
<1> QED
  BY <1>1, <1>2 DEF DecidedNow, Stays

LEMMA StepDecisions == ItemIInv /\ ItemIInv' /\ [Next]_vars => Decisions!Next
<1> SUFFICES ASSUME ItemIInv, ItemIInv', [Next]_vars, NEW k \in Item \X Part
             PROVE  Decisions!Kept(k) \/ Decisions!Decide(k)
  BY DEF Decisions!Next
<1>1. activity[k] \in Seq(Said) /\ Len(activity[k]) \in Nat
  BY DEF ItemIInv, TypeOK, Said
<1>2. CASE LeftAlone(k)
  <2>1. activity'[k] = activity[k]
    BY <1>2 DEF LeftAlone
  <2>2. Stays(k) => Stays(k)' /\ Current(k)' = Current(k)
    BY <1>2 DEF LeftAlone, Stays, Current
  <2>3. k \in DecidedNow => k \in DecidedNow' /\ ValueNow'[k] = ValueNow[k]
    BY <2>2, NowFact, NextFact
  <2> QED
    BY <2>1, <2>3 DEF Decisions!Kept, DecidedNow, ValueNow
<1>3. CASE Decided(k)
  <2>1. PICK e \in Said : activity'[k] = Append(activity[k], e) /\ (items[k[1]] = None \/ e = Current(k)')
    BY <1>3 DEF Decided
  <2> DEFINE n == Len(activity[k]) + 1
             S == Said
             x == activity[k]
             y == activity'[k]
  <2>2. x \in Seq(S) /\ e \in S /\ y = Append(x, e) /\ n = Len(x) + 1 /\ Len(x) \in Nat
    BY <1>1, <2>1
  <2> HIDE DEF S, x, y, n
  <2>3. /\ Len(y) = n /\ y[n] = e /\ y # <<>>
        /\ \A i \in 1 .. Len(x) : y[i] = x[i]
    BY <2>2, AppendProperties
  <2>4. SubSeq(y, 1, n - 1) = x
    <3>1. y \in Seq(S)
      BY <2>2, AppendProperties
    <3>2. n - 1 = Len(x)
      BY <2>2
    <3>3. SubSeq(y, 1, Len(x)) = [i \in 1 .. Len(x) |-> y[i]]
      BY <2>2, <2>3, <3>1
    <3>4. x = [i \in 1 .. Len(x) |-> x[i]]
      BY <2>2
    <3>5. SubSeq(y, 1, Len(x)) = x
      BY <2>3, <3>3, <3>4
    <3> QED
      BY <3>2, <3>5
  <2>5. k \in DecidedNow'
    BY <1>3, <2>3 DEF Decided, DecidedNow, y
  <2>6. ValueNow[k] = None \/ y[n] = ValueNow'[k]
    BY <2>1, <2>3, NowFact, NextFact DEF Current
  <2>7. /\ Len(activity'[k]) = Len(activity[k]) + 1
        /\ SubSeq(activity'[k], 1, (Len(activity[k]) + 1) - 1) = activity[k]
        /\ ValueNow[k] = None \/ activity'[k][Len(activity[k]) + 1] = ValueNow'[k]
        /\ k \in DecidedNow'
    BY <2>3, <2>4, <2>5, <2>6 DEF x, y, n
  <2> QED
    BY <2>7 DEF Decisions!Decide, DecidedNow, ValueNow
<1> QED
  BY <1>2, <1>3, KeyStep

(* The catalogue implements StaffDecisions: what staff decided of an item    *)
(* stays, and is what the activity log says, over any imports, also those    *)
(* between a request and its change (backfill_from_snapshot).                *)
THEOREM StaffDecideItems == Spec => DecisionsStand
<1>1. ItemIInv /\ ItemIInv' /\ [Next]_vars => [Decisions!Next]_(Decisions!catalogue)
  BY StepDecisions
<1> QED
  BY <1>1, InitDecisions, ItemsInvariant, PTL DEF Spec, DecisionsStand, Decisions!Spec
=============================================================================
