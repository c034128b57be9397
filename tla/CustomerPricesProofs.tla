------------------------ MODULE CustomerPricesProofs ------------------------
(***************************************************************************)
(* CustomerPrices for any number of customers, items, snapshots, previews  *)
(* and audit rows.  A row that was audited is overridden, so that imports  *)
(* keep its price, and previews live only while no import can run.         *)
(***************************************************************************)
EXTENDS CustomerPrices, SequenceTheorems, FiniteSetTheorems, TLAPS

-----------------------------------------------------------------------------
(* The inductive invariant. *)
AuditedIsOverridden == \A k \in Key : audit[k] # <<>> => rows[k] # None /\ rows[k].override
PreviewsOfServer == source = None => DOMAIN previews = {}

IInv ==
  /\ TypeOK
  /\ AuditedIsOverridden /\ PreviewsOfServer
  /\ AuditIsAChain /\ PreviewsStayApplicable /\ ReadyMeansImported

-----------------------------------------------------------------------------
(* What imports make of a snapshot. *)
LEMMA ListingsAreFew ==
  ASSUME NEW s \in Snapshot, NEW k \in Key
  PROVE  Cardinality(Listings(s, k)) \in Nat
<1>1. Listed[s] \in Seq([key : Key, price : Price \cup {None}]) BY ListedAssumption
<1>2. DOMAIN Listed[s] = 1 .. Len(Listed[s]) /\ Len(Listed[s]) \in Nat BY <1>1
<1>3. IsFiniteSet(1 .. Len(Listed[s])) BY <1>2, FS_Interval
<1>4. Listings(s, k) \subseteq 1 .. Len(Listed[s]) BY <1>2 DEF Listings
<1>5. IsFiniteSet(Listings(s, k)) BY <1>3, <1>4, FS_Subset
<1> QED BY <1>5, FS_CardinalityType

LEMMA AdmittedIsPriced ==
  ASSUME NEW s \in Snapshot, NEW k \in Admitted(s)
  PROVE  k \in Key /\ PriceIn(s, k) \in Price
<1>1. k \in Key /\ Reason(s, k) = "none" BY DEF Admitted, ListedKeys
<1>2. Cardinality(Listings(s, k)) \in Nat BY <1>1, ListingsAreFew
<1> QED BY <1>1, <1>2 DEF Reason

LEMMA RejectedIsTyped ==
  ASSUME NEW s \in Snapshot
  PROVE  Rejected(s) \subseteq [key : Key, reason : Reasons, rows : Nat]
<1>1. SUFFICES ASSUME NEW k \in ListedKeys(s) \ Admitted(s)
               PROVE  k \in Key /\ Reason(s, k) \in Reasons /\ Cardinality(Listings(s, k)) \in Nat
  BY DEF Rejected
<1>2. k \in Key BY DEF ListedKeys
<1>3. Cardinality(Listings(s, k)) \in Nat BY <1>2, ListingsAreFew
<1>4. Reason(s, k) # "none" BY DEF Admitted
<1>5. Reason(s, k) \in Reasons BY <1>3, <1>4 DEF Reason, Reasons
<1> QED BY <1>2, <1>3, <1>5

LEMMA ImportedRow ==
  ASSUME rows \in [Key -> Row \cup {None}], NEW s \in Snapshot, NEW k \in Admitted(s)
  PROVE  /\ Imported(s, k) \in Row /\ Imported(s, k) # None
         /\ Imported(s, k).source = s /\ Imported(s, k).active
         /\ Imported(s, k).override \/ Imported(s, k).price = PriceIn(s, k)
         /\ rows[k] # None /\ rows[k].override =>
              Imported(s, k).override /\ Imported(s, k).price = rows[k].price
<1>1. k \in Key /\ PriceIn(s, k) \in Price BY AdmittedIsPriced
<1>2. CASE rows[k] # None /\ rows[k].override
  <2>1. rows[k].price \in Price BY <1>1, <1>2 DEF Row
  <2>2. Imported(s, k) = [price |-> rows[k].price, source |-> s, override |-> TRUE, active |-> TRUE]
    BY <1>2 DEF Imported
  <2>3. Imported(s, k) \in Row BY <2>1, <2>2 DEF Row
  <2>4. /\ Imported(s, k).source = s /\ Imported(s, k).active
        /\ Imported(s, k).override /\ Imported(s, k).price = rows[k].price
    BY <2>2
  <2> QED BY <2>3, <2>4, NoneAssumption
<1>3. CASE ~(rows[k] # None /\ rows[k].override)
  <2>1. Imported(s, k) = [price |-> PriceIn(s, k), source |-> s, override |-> FALSE, active |-> TRUE]
    BY <1>3 DEF Imported
  <2>2. Imported(s, k) \in Row BY <1>1, <2>1 DEF Row
  <2>3. Imported(s, k).source = s /\ Imported(s, k).active /\ Imported(s, k).price = PriceIn(s, k)
    BY <2>1
  <2> QED BY <1>3, <2>2, <2>3, NoneAssumption
<1> QED BY <1>2, <1>3

(* An import leaves rows, and leaves what was overridden.                  *)
LEMMA ImportFact ==
  ASSUME rows \in [Key -> Row \cup {None}], NEW s \in Snapshot, Import(s)
  PROVE  /\ rows' \in [Key -> Row \cup {None}]
         /\ quarantine' \subseteq [key : Key, reason : Reasons, rows : Nat]
         /\ reconciled' = s /\ ImportedWhole(s)'
         /\ \A k \in Key : rows[k] # None => rows'[k] # None
         /\ \A k \in Key : rows[k] # None /\ rows[k].override =>
              rows'[k].override /\ rows'[k].price = rows[k].price
<1>1. \A k \in Admitted(s) : k \in Key /\ rows'[k] = Imported(s, k)
  BY AdmittedIsPriced DEF Import
<1>2. \A k \in Key \ Admitted(s) :
        rows'[k] = IF rows[k] = None THEN None ELSE [rows[k] EXCEPT !.active = FALSE]
  BY DEF Import
<1>3. \A k \in Key \ Admitted(s) : rows[k] # None =>
        /\ rows'[k] \in Row /\ rows'[k] # None /\ ~rows'[k].active
        /\ rows'[k].override = rows[k].override /\ rows'[k].price = rows[k].price
  <2> SUFFICES ASSUME NEW k \in Key \ Admitted(s), rows[k] # None
               PROVE  /\ rows'[k] \in Row /\ rows'[k] # None /\ ~rows'[k].active
                      /\ rows'[k].override = rows[k].override /\ rows'[k].price = rows[k].price
    OBVIOUS
  <2>1. rows[k] \in Row /\ rows'[k] = [rows[k] EXCEPT !.active = FALSE] BY <1>2
  <2> QED BY <2>1, NoneAssumption DEF Row
<1>4. \A k \in Admitted(s) : /\ rows'[k] \in Row /\ rows'[k] # None
                             /\ rows'[k].source = s /\ rows'[k].active
                             /\ rows'[k].override \/ rows'[k].price = PriceIn(s, k)
                             /\ rows[k] # None /\ rows[k].override =>
                                  rows'[k].override /\ rows'[k].price = rows[k].price
  BY <1>1, ImportedRow
<1>5. rows' \in [Key -> Row \cup {None}]
  <2>1. rows' = [k \in Key |-> rows'[k]] BY DEF Import
  <2>2. \A k \in Key : rows'[k] \in Row \cup {None} BY <1>2, <1>3, <1>4
  <2> QED BY <2>1, <2>2
<1>6. ActiveKeys' = Admitted(s)
  BY <1>1, <1>2, <1>3, <1>4 DEF ActiveKeys, IsActive
<1>7. ImportedWhole(s)' BY <1>4, <1>6 DEF ImportedWhole, Import
<1>8. quarantine' \subseteq [key : Key, reason : Reasons, rows : Nat] BY RejectedIsTyped DEF Import
<1>9. \A k \in Key : rows[k] # None => rows'[k] # None BY <1>3, <1>4
<1>10. \A k \in Key : rows[k] # None /\ rows[k].override => rows'[k].override /\ rows'[k].price = rows[k].price
  BY <1>3, <1>4
<1> QED BY <1>5, <1>7, <1>8, <1>9, <1>10 DEF Import

-----------------------------------------------------------------------------
(* What giving new prices does to rows and audit. *)
Given(prices, action, actor) ==
  /\ DOMAIN prices \subseteq Key /\ \A k \in DOMAIN prices : prices[k] \in Price /\ IsActive(k)
  /\ Overridden(prices) /\ Audited(prices, action, actor)

LEMMA GivenRows ==
  ASSUME TypeOK, NEW prices, NEW action, NEW actor, Given(prices, action, actor)
  PROVE  /\ rows' \in [Key -> Row \cup {None}]
         /\ \A k \in Key \ DOMAIN prices : rows'[k] = rows[k]
         /\ \A k \in DOMAIN prices :
              /\ rows[k] # None /\ rows'[k] # None
              /\ rows'[k].price = prices[k] /\ rows'[k].source = rows[k].source
              /\ rows'[k].override /\ rows'[k].active
<1>1. \A k \in DOMAIN prices : rows[k] # None /\ rows[k] \in Row /\ rows[k].active
  BY DEF Given, IsActive, TypeOK
<1>2. \A k \in DOMAIN prices : rows'[k] = [rows[k] EXCEPT !.price = prices[k], !.override = TRUE]
  BY DEF Given, Overridden
<1>3. ASSUME NEW k \in DOMAIN prices
      PROVE  rows'[k] = [price |-> prices[k], source |-> rows[k].source, override |-> TRUE, active |-> TRUE]
  BY <1>1, <1>2 DEF Row
<1>4. ASSUME NEW k \in DOMAIN prices PROVE rows'[k] \in Row
  <2>1. prices[k] \in Price BY DEF Given
  <2>2. rows[k].source \in Snapshot BY <1>1 DEF Row
  <2>3. rows'[k] = [price |-> prices[k], source |-> rows[k].source, override |-> TRUE, active |-> TRUE]
    BY <1>3
  <2> QED BY <2>1, <2>2, <2>3 DEF Row
<1>5. \A k \in Key \ DOMAIN prices : rows'[k] = rows[k] BY DEF Given, Overridden
<1>6. rows' \in [Key -> Row \cup {None}]
  <2>1. rows' = [k \in Key |-> rows'[k]] BY DEF Given, Overridden
  <2>2. \A k \in Key : rows'[k] \in Row \cup {None} BY <1>4, <1>5 DEF TypeOK
  <2> QED BY <2>1, <2>2
<1>7. ASSUME NEW k \in DOMAIN prices
      PROVE  /\ rows'[k].price = prices[k] /\ rows'[k].source = rows[k].source
             /\ rows'[k].override /\ rows'[k].active
  <2>1. rows'[k] = [price |-> prices[k], source |-> rows[k].source, override |-> TRUE, active |-> TRUE]
    BY <1>3
  <2> QED BY <2>1
<1> QED BY <1>1, <1>4, <1>5, <1>6, <1>7, NoneAssumption

LEMMA GivenAudit ==
  ASSUME TypeOK, NEW prices, NEW action \in {"price_edited", "price_bulk_applied"},
         NEW actor \in Active, Given(prices, action, actor)
  PROVE  /\ audit' \in [Key -> Seq(AuditRow)]
         /\ \A k \in Key \ DOMAIN prices : audit'[k] = audit[k]
         /\ \A k \in DOMAIN prices : \E e \in AuditRow :
              audit'[k] = Append(audit[k], e) /\ e.before = rows[k].price /\ e.after = prices[k]
<1>1. \A k \in Key \ DOMAIN prices : audit'[k] = audit[k] BY DEF Given, Audited
<1>2. ASSUME NEW k \in DOMAIN prices
      PROVE  \E e \in AuditRow : audit'[k] = Append(audit[k], e) /\ e.before = rows[k].price /\ e.after = prices[k]
  <2> DEFINE e == [action |-> action, before |-> rows[k].price, after |-> prices[k], actor |-> actor]
  <2>1. k \in Key /\ prices[k] \in Price /\ rows[k] \in Row BY DEF Given, IsActive, TypeOK
  <2>2. e \in AuditRow BY <2>1 DEF AuditRow, Row
  <2>3. audit'[k] = Append(audit[k], e) BY <2>1 DEF Given, Audited
  <2>4. e.before = rows[k].price /\ e.after = prices[k] OBVIOUS
  <2> HIDE DEF e
  <2> QED BY <2>2, <2>3, <2>4
<1>3. audit' \in [Key -> Seq(AuditRow)]
  <2>1. audit' = [k \in Key |-> audit'[k]] BY DEF Given, Audited
  <2>2. ASSUME NEW k \in Key PROVE audit'[k] \in Seq(AuditRow)
    <3>1. audit[k] \in Seq(AuditRow) BY DEF TypeOK
    <3>2. CASE k \notin DOMAIN prices BY <1>1, <3>1, <3>2
    <3>3. CASE k \in DOMAIN prices
      <4>1. PICK e \in AuditRow : audit'[k] = Append(audit[k], e) BY <1>2, <3>3
      <4> QED BY <3>1, <4>1
    <3> QED BY <3>2, <3>3
  <2> QED BY <2>1, <2>2
<1> QED BY <1>1, <1>2, <1>3

(* Active rows stay active, the chain is one entry longer, and a store that *)
(* was reconciled still is: what changed is now overridden.                 *)
LEMMA GivenInvariant ==
  ASSUME IInv, NEW prices, NEW action \in {"price_edited", "price_bulk_applied"},
         NEW actor \in Active, Given(prices, action, actor), UNCHANGED <<quarantine, reconciled>>
  PROVE  /\ \A k \in Key : IsActive(k) <=> IsActive(k)'
         /\ AuditedIsOverridden' /\ AuditIsAChain' /\ ReadyMeansImported'
<1> TypeOK BY DEF IInv
<1>1. /\ \A k \in Key \ DOMAIN prices : rows'[k] = rows[k]
      /\ \A k \in DOMAIN prices :
           /\ rows[k] # None /\ rows'[k] # None
           /\ rows'[k].price = prices[k] /\ rows'[k].source = rows[k].source
           /\ rows'[k].override /\ rows'[k].active
  BY GivenRows
<1>2. /\ \A k \in Key \ DOMAIN prices : audit'[k] = audit[k]
      /\ \A k \in DOMAIN prices : \E e \in AuditRow :
           audit'[k] = Append(audit[k], e) /\ e.before = rows[k].price /\ e.after = prices[k]
  BY GivenAudit
<1>3. ASSUME NEW k \in Key PROVE IsActive(k) <=> IsActive(k)'
  <2>1. CASE k \notin DOMAIN prices BY <1>1, <2>1 DEF IsActive
  <2>2. CASE k \in DOMAIN prices
    <3>1. IsActive(k) BY <2>2 DEF Given
    <3>2. rows'[k] # None /\ rows'[k].active BY <1>1, <2>2
    <3> QED BY <3>1, <3>2 DEF IsActive
  <2> QED BY <2>1, <2>2
<1>4. AuditedIsOverridden'
  <2> SUFFICES ASSUME NEW k \in Key, audit'[k] # <<>> PROVE rows'[k] # None /\ rows'[k].override
    BY DEF AuditedIsOverridden
  <2>1. CASE k \notin DOMAIN prices BY <1>1, <1>2, <2>1 DEF IInv, AuditedIsOverridden
  <2>2. CASE k \in DOMAIN prices BY <1>1, <2>2
  <2> QED BY <2>1, <2>2
<1>5. AuditIsAChain'
  <2> SUFFICES ASSUME NEW k \in Key
               PROVE  /\ \A i \in 1 .. Len(audit'[k]) - 1 : audit'[k][i].after = audit'[k][i + 1].before
                      /\ audit'[k] # <<>> => rows'[k] # None /\ rows'[k].price = audit'[k][Len(audit'[k])].after
    BY DEF AuditIsAChain
  <2>1. CASE k \notin DOMAIN prices
    <3>1. rows'[k] = rows[k] /\ audit'[k] = audit[k] BY <2>1, <1>1, <1>2
    <3> QED BY <3>1 DEF IInv, AuditIsAChain
  <2>2. CASE k \in DOMAIN prices
    <3>1. PICK e \in AuditRow : audit'[k] = Append(audit[k], e) /\ e.before = rows[k].price /\ e.after = prices[k]
      BY <2>2, <1>2
    <3>2. audit[k] \in Seq(AuditRow) BY DEF TypeOK
    <3>3. /\ \A i \in 1 .. Len(audit[k]) - 1 : audit[k][i].after = audit[k][i + 1].before
          /\ audit[k] # <<>> => rows[k].price = audit[k][Len(audit[k])].after
      BY DEF IInv, AuditIsAChain
    <3>4. /\ Len(audit'[k]) = Len(audit[k]) + 1 /\ Len(audit[k]) \in Nat
          /\ \A i \in 1 .. Len(audit[k]) : audit'[k][i] = audit[k][i]
          /\ audit'[k][Len(audit[k]) + 1] = e
      BY <3>1, <3>2
    <3>5. \A i \in 1 .. Len(audit'[k]) - 1 : audit'[k][i].after = audit'[k][i + 1].before
      <4> SUFFICES ASSUME NEW i \in 1 .. Len(audit[k]) PROVE audit'[k][i].after = audit'[k][i + 1].before
        BY <3>4
      <4>1. CASE i < Len(audit[k])
        <5>1. i \in 1 .. Len(audit[k]) - 1 /\ i + 1 \in 1 .. Len(audit[k]) BY <4>1, <3>4
        <5> QED BY <5>1, <3>3, <3>4
      <4>2. CASE i = Len(audit[k])
        <5>1. audit[k] # <<>> BY <3>2, <4>2, <3>4
        <5> QED BY <5>1, <4>2, <3>1, <3>3, <3>4
      <4> QED BY <4>1, <4>2, <3>4
    <3>6. rows'[k] # None /\ rows'[k].price = audit'[k][Len(audit'[k])].after
      <4>1. rows'[k] # None /\ rows'[k].price = prices[k] BY <2>2, <1>1
      <4>2. audit'[k][Len(audit'[k])] = e BY <3>4
      <4> QED BY <3>1, <4>1, <4>2
    <3> QED BY <3>5, <3>6
  <2> QED BY <2>1, <2>2
<1>6. ReadyMeansImported'
  <2> SUFFICES ASSUME reconciled # None PROVE ImportedWhole(reconciled)' BY DEF ReadyMeansImported
  <2>1. ImportedWhole(reconciled) BY DEF IInv, ReadyMeansImported
  <2>2. ActiveKeys' = ActiveKeys BY <1>3 DEF ActiveKeys
  <2>3. \A k \in ActiveKeys : rows'[k].source = rows[k].source /\
          (rows'[k].override \/ (rows'[k].price = rows[k].price /\ rows'[k].override = rows[k].override))
    <3> SUFFICES ASSUME NEW k \in Key
                 PROVE  rows'[k].source = rows[k].source /\
                   (rows'[k].override \/ (rows'[k].price = rows[k].price /\ rows'[k].override = rows[k].override))
      BY DEF ActiveKeys
    <3>1. CASE k \notin DOMAIN prices BY <1>1, <3>1
    <3>2. CASE k \in DOMAIN prices BY <1>1, <3>2
    <3> QED BY <3>1, <3>2
  <2> QED BY <2>1, <2>2, <2>3 DEF ImportedWhole
<1> QED BY <1>3, <1>4, <1>5, <1>6

-----------------------------------------------------------------------------
LEMMA InitIsFine == Init => IInv
<1> SUFFICES ASSUME Init PROVE IInv OBVIOUS
<1>1. DOMAIN previews = {} /\ issued = {} /\ source = None /\ reconciled = None BY DEF Init
<1>2. PreviewsOfServer /\ PreviewsStayApplicable /\ ReadyMeansImported
  BY <1>1 DEF PreviewsOfServer, PreviewsStayApplicable, ReadyMeansImported
<1>3. CASE rows = [k \in Key |-> None] /\ quarantine = {} /\ audit = [k \in Key |-> <<>>]
  <2>1. TypeOK BY <1>1, <1>3 DEF TypeOK
  <2>2. AuditedIsOverridden /\ AuditIsAChain BY <1>3 DEF AuditedIsOverridden, AuditIsAChain
  <2> QED BY <1>2, <2>1, <2>2 DEF IInv
<1>4. ASSUME NEW s \in Snapshot, Legacy(s) PROVE IInv
  <2>1. PICK edited \in SUBSET Admitted(s), p \in Price, a \in Active :
          /\ rows = [k \in Key |->
               IF k \notin Admitted(s) THEN None
               ELSE [price |-> IF k \in edited THEN p ELSE PriceIn(s, k), source |-> s,
                     override |-> k \in edited, active |-> TRUE]]
          /\ audit = [k \in Key |->
               IF k \notin edited THEN <<>>
               ELSE <<[action |-> "price_edited", before |-> PriceIn(s, k), after |-> p, actor |-> a]>>]
    BY <1>4 DEF Legacy
  <2>2. \A k \in Admitted(s) : k \in Key /\ PriceIn(s, k) \in Price BY AdmittedIsPriced
  <2>3. rows \in [Key -> Row \cup {None}] BY <2>1, <2>2 DEF Row
  <2>4. \A k \in edited : k \in Key /\ Len(audit[k]) = 1 /\ audit[k] \in Seq(AuditRow) /\ audit[k][1].after = p
                          /\ rows[k] # None /\ rows[k].override /\ rows[k].price = p
    <3> SUFFICES ASSUME NEW k \in edited
                 PROVE  k \in Key /\ Len(audit[k]) = 1 /\ audit[k] \in Seq(AuditRow) /\ audit[k][1].after = p
                        /\ rows[k] # None /\ rows[k].override /\ rows[k].price = p
      OBVIOUS
    <3> DEFINE e == [action |-> "price_edited", before |-> PriceIn(s, k), after |-> p, actor |-> a]
    <3>1. k \in Key /\ e \in AuditRow BY <2>2 DEF AuditRow
    <3>2. audit[k] = <<e>> /\ e.after = p BY <2>1, <3>1
    <3>3. rows[k] = [price |-> p, source |-> s, override |-> TRUE, active |-> TRUE] BY <2>1, <3>1
    <3>4. rows[k] \in Row BY <3>3 DEF Row
    <3>5. rows[k] # None BY <3>4, NoneAssumption
    <3>6. rows[k].override /\ rows[k].price = p BY <3>3
    <3> HIDE DEF e
    <3>7. Len(audit[k]) = 1 /\ audit[k] \in Seq(AuditRow) /\ audit[k][1] = e BY <3>1, <3>2
    <3> QED BY <3>1, <3>2, <3>5, <3>6, <3>7
  <2>5. \A k \in Key \ edited : audit[k] = <<>> BY <2>1
  <2>6. audit \in [Key -> Seq(AuditRow)]
    <3>1. audit = [k \in Key |-> audit[k]] BY <2>1
    <3>2. ASSUME NEW k \in Key PROVE audit[k] \in Seq(AuditRow)
      <4>1. CASE k \in edited BY <2>4, <4>1
      <4>2. CASE k \notin edited
        <5>1. audit[k] = <<>> BY <2>5, <4>2
        <5> QED BY <5>1
      <4> QED BY <4>1, <4>2
    <3> QED BY <3>1, <3>2
  <2>7. TypeOK BY <1>1, <1>4, <2>3, <2>6, RejectedIsTyped DEF TypeOK, Legacy
  <2>8. AuditedIsOverridden /\ AuditIsAChain BY <2>4, <2>5 DEF AuditedIsOverridden, AuditIsAChain
  <2> QED BY <1>2, <2>7, <2>8 DEF IInv
<1> QED BY <1>3, <1>4 DEF Init

LEMMA StartStep == ASSUME IInv, NEW s \in Snapshot, Start(s) PROVE IInv'
<1> TypeOK BY DEF IInv
<1>1. DOMAIN previews = {} /\ previews' = previews /\ source' = s /\ s # None /\ UNCHANGED <<audit, issued>>
  BY NoneAssumption DEF IInv, PreviewsOfServer, Start
<1>2. PreviewsOfServer' /\ PreviewsStayApplicable' BY <1>1 DEF PreviewsOfServer, PreviewsStayApplicable
<1>3. CASE Reconciled(s) /\ reconciled' = s /\ UNCHANGED <<rows, quarantine>>
  <2>1. ImportedWhole(s) BY <1>1, <1>3 DEF IInv, ReadyMeansImported, Reconciled
  <2>2. ReadyMeansImported' BY <1>3, <2>1 DEF ReadyMeansImported, ImportedWhole, ActiveKeys, IsActive
  <2>3. TypeOK' BY <1>1, <1>3 DEF TypeOK
  <2>4. AuditedIsOverridden' /\ AuditIsAChain' BY <1>1, <1>3 DEF IInv, AuditedIsOverridden, AuditIsAChain
  <2> QED BY <1>2, <2>2, <2>3, <2>4 DEF IInv
<1>4. CASE Import(s)
  <2>1. /\ rows' \in [Key -> Row \cup {None}]
        /\ quarantine' \subseteq [key : Key, reason : Reasons, rows : Nat]
        /\ reconciled' = s /\ ImportedWhole(s)'
        /\ \A k \in Key : rows[k] # None => rows'[k] # None
        /\ \A k \in Key : rows[k] # None /\ rows[k].override =>
             rows'[k].override /\ rows'[k].price = rows[k].price
    BY <1>4, ImportFact DEF TypeOK
  <2>2. ReadyMeansImported' BY <2>1 DEF ReadyMeansImported
  <2>3. TypeOK' BY <1>1, <2>1 DEF TypeOK
  <2>4. AuditedIsOverridden' /\ AuditIsAChain'
    BY <1>1, <2>1 DEF IInv, AuditedIsOverridden, AuditIsAChain
  <2> QED BY <1>2, <2>2, <2>3, <2>4 DEF IInv
<1> QED BY <1>3, <1>4 DEF Start

LEMMA StopStep == ASSUME IInv, Stop PROVE IInv'
<1>1. DOMAIN previews' = {} BY DEF Stop
<1>2. TypeOK' BY <1>1 DEF IInv, TypeOK, Stop
<1>3. PreviewsOfServer' /\ PreviewsStayApplicable' BY <1>1 DEF PreviewsOfServer, PreviewsStayApplicable
<1>4. AuditedIsOverridden' /\ AuditIsAChain' /\ ReadyMeansImported'
  BY DEF IInv, Stop, AuditedIsOverridden, AuditIsAChain, ReadyMeansImported, ImportedWhole, ActiveKeys, IsActive
<1> QED BY <1>2, <1>3, <1>4 DEF IInv

(* While active rows stay active, a preview keeps naming active rows.       *)
LEMMA PreviewStays ==
  ASSUME IInv, \A k \in Key : IsActive(k) <=> IsActive(k)',
         NEW r \in DOMAIN previews, previews[r].prices # None,
         r \in DOMAIN previews', previews'[r] = previews[r], NEW i \in DOMAIN previews'[r].prices
  PROVE  IsActive(<<previews[r].customer, i>>)'
<1>1. i \in DOMAIN previews[r].prices OBVIOUS
<1>2. previews[r].customer \in Customer /\ i \in Item BY <1>1 DEF IInv, TypeOK
<1>3. PICK k \in Key : k = <<previews[r].customer, i>> BY <1>2 DEF Key
<1>4. IsActive(k) BY <1>1, <1>3 DEF IInv, PreviewsStayApplicable
<1>5. IsActive(k)' BY <1>4
<1> QED BY <1>3, <1>5 DEF IsActive

LEMMA EditGives ==
  ASSUME NEW k \in Key, NEW p \in Price, NEW a \in Active, Edit(k, p, a)
  PROVE  \E prices : Given(prices, "price_edited", a)
<1> DEFINE prices == [j \in {k} |-> p]
<1>1. DOMAIN prices = {k} /\ prices[k] = p OBVIOUS
<1>2. Given(prices, "price_edited", a) BY <1>1 DEF Given, Edit
<1> QED BY <1>2

LEMMA EditStep ==
  ASSUME IInv, NEW k \in Key, NEW p \in Price, NEW a \in Active, Edit(k, p, a)
  PROVE  IInv'
<1> TypeOK BY DEF IInv
<1>1. PICK prices : Given(prices, "price_edited", a) BY EditGives
<1>2. UNCHANGED <<quarantine, reconciled, source, previews, issued>> BY DEF Edit
<1>3. /\ \A j \in Key : IsActive(j) <=> IsActive(j)'
      /\ AuditedIsOverridden' /\ AuditIsAChain' /\ ReadyMeansImported'
  BY <1>1, <1>2, GivenInvariant
<1>4. TypeOK' BY <1>1, <1>2, GivenRows, GivenAudit DEF TypeOK
<1>5. PreviewsOfServer' BY <1>2 DEF IInv, PreviewsOfServer
<1>6. PreviewsStayApplicable' BY <1>2, <1>3, PreviewStays DEF PreviewsStayApplicable
<1> QED BY <1>3, <1>4, <1>5, <1>6 DEF IInv

(* What a list that needs no correction proposes. *)
LEMMA PricesFact ==
  ASSUME NEW c \in Customer, NEW lines \in Paste, Correct(c, lines)
  PROVE  /\ Prices(lines) \in [DOMAIN Prices(lines) -> Price] /\ DOMAIN Prices(lines) \subseteq Item
         /\ \A item \in DOMAIN Prices(lines) : IsActive(<<c, item>>)
<1> DEFINE Line == [item : Item, price : Price \cup {None}]
<1>1. lines \in Seq(Line) BY PasteAssumption
<1>2. \A i \in DOMAIN lines : lines[i].item \in Item /\ lines[i].price \in Price /\ IsActive(<<c, lines[i].item>>)
  <2> SUFFICES ASSUME NEW i \in DOMAIN lines
               PROVE  lines[i].item \in Item /\ lines[i].price \in Price /\ IsActive(<<c, lines[i].item>>)
    OBVIOUS
  <2>1. lines[i] \in Line
    <3> HIDE DEF Line
    <3> QED BY <1>1
  <2>2. lines[i].price \in Price /\ IsActive(<<c, lines[i].item>>) BY DEF Correct
  <2> QED BY <2>1, <2>2
<1>3. DOMAIN Prices(lines) = {lines[i].item : i \in DOMAIN lines} BY DEF Prices
<1>4. ASSUME NEW item \in DOMAIN Prices(lines)
      PROVE  Prices(lines)[item] \in Price /\ item \in Item /\ IsActive(<<c, item>>)
  <2> DEFINE at == CHOOSE i \in DOMAIN lines : lines[i].item = item
  <2>1. at \in DOMAIN lines /\ lines[at].item = item BY <1>3
  <2>2. Prices(lines)[item] = lines[at].price BY <1>3 DEF Prices
  <2> HIDE DEF at
  <2> QED BY <1>2, <2>1, <2>2
<1>5. Prices(lines) = [item \in DOMAIN Prices(lines) |-> Prices(lines)[item]] BY DEF Prices
<1> QED BY <1>4, <1>5

LEMMA PreviewTsvStep ==
  ASSUME IInv, NEW r \in Ref, NEW c \in Customer, NEW lines \in Paste, PreviewTsv(r, c, lines)
  PROVE  IInv'
<1> TypeOK BY DEF IInv
<1> DEFINE new == [customer |-> c, prices |-> IF Correct(c, lines) THEN Prices(lines) ELSE None]
<1>1. /\ DOMAIN previews' = DOMAIN previews \cup {r} /\ issued' = issued \cup {r} /\ r \notin issued
      /\ previews'[r] = new /\ \A x \in DOMAIN previews : previews'[x] = previews[x]
      /\ source # None /\ UNCHANGED <<rows, quarantine, reconciled, audit, source>>
  BY DEF PreviewTsv, TypeOK
<1>2. new.customer \in Customer /\ (new.prices # None =>
        /\ new.prices \in [DOMAIN new.prices -> Price] /\ DOMAIN new.prices \subseteq Item
        /\ \A item \in DOMAIN new.prices : IsActive(<<c, item>>))
  BY PricesFact
<1>3. new.customer = c OBVIOUS
<1> HIDE DEF new
<1>4. TypeOK' BY <1>1, <1>2 DEF TypeOK
<1>5. PreviewsStayApplicable'
  <2> SUFFICES ASSUME NEW x \in DOMAIN previews', previews'[x].prices # None,
                      NEW i \in DOMAIN previews'[x].prices
               PROVE  IsActive(<<previews'[x].customer, i>>)
    BY <1>1 DEF PreviewsStayApplicable, IsActive
  <2>1. CASE x = r BY <1>1, <1>2, <1>3, <2>1
  <2>2. CASE x # r BY <1>1, <2>2 DEF IInv, PreviewsStayApplicable
  <2> QED BY <2>1, <2>2
<1>6. AuditedIsOverridden' /\ AuditIsAChain' /\ ReadyMeansImported' /\ PreviewsOfServer'
  BY <1>1 DEF IInv, AuditedIsOverridden, AuditIsAChain, ReadyMeansImported, ImportedWhole, ActiveKeys,
              IsActive, PreviewsOfServer
<1> QED BY <1>4, <1>5, <1>6 DEF IInv

LEMMA ApplyGives ==
  ASSUME IInv, NEW r \in DOMAIN previews, NEW a \in Active, Apply(r, a)
  PROVE  \E prices : Given(prices, "price_bulk_applied", a)
<1> TypeOK BY DEF IInv
<1>1. previews[r].customer \in Customer /\ previews[r].prices # None BY DEF Apply, TypeOK
<1>2. previews[r].prices \in [DOMAIN previews[r].prices -> Price] /\ DOMAIN previews[r].prices \subseteq Item
  BY <1>1 DEF TypeOK
<1>3. \A k \in DOMAIN Changes(r) : \E i \in DOMAIN previews[r].prices : k = <<previews[r].customer, i>>
  BY DEF Changes
<1>4. ASSUME NEW k \in DOMAIN Changes(r) PROVE k \in Key /\ Changes(r)[k] \in Price /\ IsActive(k)
  <2>1. PICK i \in DOMAIN previews[r].prices : k = <<previews[r].customer, i>> BY <1>3
  <2>2. k \in Key BY <1>1, <1>2, <2>1 DEF Key
  <2>3. Changes(r)[k] = previews[r].prices[i] BY <2>1 DEF Changes
  <2>4. IsActive(<<previews[r].customer, i>>) BY DEF Apply
  <2> QED BY <1>2, <2>1, <2>2, <2>3, <2>4
<1>5. Given(Changes(r), "price_bulk_applied", a) BY <1>4 DEF Given, Apply
<1> QED BY <1>5

LEMMA ApplyStep ==
  ASSUME IInv, NEW r \in DOMAIN previews, NEW a \in Active, Apply(r, a)
  PROVE  IInv'
<1> TypeOK BY DEF IInv
<1>1. PICK prices : Given(prices, "price_bulk_applied", a) BY ApplyGives
<1>2. /\ DOMAIN previews' = DOMAIN previews \ {r} /\ \A x \in DOMAIN previews' : previews'[x] = previews[x]
      /\ source # None /\ UNCHANGED <<quarantine, reconciled, source, issued>>
  BY DEF Apply
<1>3. /\ \A j \in Key : IsActive(j) <=> IsActive(j)'
      /\ AuditedIsOverridden' /\ AuditIsAChain' /\ ReadyMeansImported'
  BY <1>1, <1>2, GivenInvariant
<1>4. TypeOK' BY <1>1, <1>2, GivenRows, GivenAudit DEF TypeOK
<1>5. PreviewsOfServer' BY <1>2 DEF PreviewsOfServer
<1>6. PreviewsStayApplicable' BY <1>2, <1>3, PreviewStays DEF PreviewsStayApplicable
<1> QED BY <1>3, <1>4, <1>5, <1>6 DEF IInv

(* Every step preserves the invariant. *)
LEMMA StepIsFine == IInv /\ [Next]_vars => IInv'
<1> SUFFICES ASSUME IInv, [Next]_vars PROVE IInv' OBVIOUS
<1>1. ASSUME NEW s \in Snapshot, Start(s) PROVE IInv' BY <1>1, StartStep
<1>2. CASE Stop BY <1>2, StopStep
<1>3. ASSUME NEW k \in Key, NEW p \in Price, NEW a \in Active, Edit(k, p, a) PROVE IInv'
  BY <1>3, EditStep
<1>4. ASSUME NEW r \in Ref, NEW c \in Customer, NEW lines \in Paste, PreviewTsv(r, c, lines) PROVE IInv'
  BY <1>4, PreviewTsvStep
<1>5. ASSUME NEW r \in DOMAIN previews, NEW a \in Active, Apply(r, a) PROVE IInv' BY <1>5, ApplyStep
<1>6. CASE UNCHANGED vars
  BY <1>6 DEF vars, IInv, TypeOK, AuditedIsOverridden, PreviewsOfServer, AuditIsAChain,
     PreviewsStayApplicable, ReadyMeansImported, ImportedWhole, ActiveKeys, IsActive
<1> QED BY <1>1, <1>2, <1>3, <1>4, <1>5, <1>6 DEF Next

-----------------------------------------------------------------------------
(* The properties hold together with what they rest on: audited rows are    *)
(* overridden, and previews live only while the module is mounted.          *)
THEOREM PricesInvariant == Spec => []IInv
<1>1. Init => IInv BY InitIsFine
<1>2. IInv /\ [Next]_vars => IInv' BY StepIsFine
<1> QED BY <1>1, <1>2, PTL DEF Spec

(* Rows, quarantine, audit and previews are what the columns admit.         *)
THEOREM TypeCorrect == Spec => []TypeOK
<1>1. IInv => TypeOK BY DEF IInv
<1> QED BY <1>1, PricesInvariant, PTL

(* A store that says it is reconciled with a snapshot is what importing it  *)
(* leaves, except for what staff overrode (reconciliation_status).          *)
THEOREM StoresAreImported == Spec => []ReadyMeansImported
<1>1. IInv => ReadyMeansImported BY DEF IInv
<1> QED BY <1>1, PricesInvariant, PTL

(* The audit of every key is a chain that ends at its current price, over   *)
(* imports, edits and previews applied late (_apply_preview, edit).         *)
THEOREM AuditsAreChains == Spec => []AuditIsAChain
<1>1. IInv => AuditIsAChain BY DEF IInv
<1> QED BY <1>1, PricesInvariant, PTL

(* A preview shown without a line to correct can be applied as a whole as   *)
(* long as it exists (apply_preview_id never stops inside its list).        *)
THEOREM PreviewsApply == Spec => []PreviewsStayApplicable
<1>1. IInv => PreviewsStayApplicable BY DEF IInv
<1> QED BY <1>1, PricesInvariant, PTL
-----------------------------------------------------------------------------
(* What a step does to one key: it leaves the audit, and the row if it was   *)
(* overridden; or staff give the existing row a price, and the audit it.     *)
LeftAlone(k) ==
  /\ audit'[k] = audit[k]
  /\ rows[k] # None /\ rows[k].override =>
       rows'[k] # None /\ rows'[k].override /\ rows'[k].price = rows[k].price
Decided(k) ==
  /\ rows[k] # None /\ rows'[k] # None /\ rows'[k].override
  /\ \E e \in AuditRow : audit'[k] = Append(audit[k], e) /\ e.after = rows'[k].price

LEMMA GivenDecides ==
  ASSUME TypeOK, NEW prices, NEW action \in {"price_edited", "price_bulk_applied"},
         NEW actor \in Active, Given(prices, action, actor), NEW k \in Key
  PROVE  LeftAlone(k) \/ Decided(k)
<1>1. CASE k \in DOMAIN prices
  <2>1. rows[k] # None /\ rows'[k] # None /\ rows'[k].override /\ rows'[k].price = prices[k]
    BY <1>1, GivenRows
  <2>2. \E e \in AuditRow : audit'[k] = Append(audit[k], e) /\ e.after = prices[k]
    BY <1>1, GivenAudit
  <2> QED BY <2>1, <2>2 DEF Decided
<1>2. CASE k \notin DOMAIN prices
  <2>1. rows'[k] = rows[k] BY <1>2, GivenRows
  <2>2. audit'[k] = audit[k] BY <1>2, GivenAudit
  <2> QED BY <2>1, <2>2 DEF LeftAlone
<1> QED BY <1>1, <1>2

LEMMA KeyStep == ASSUME IInv, [Next]_vars, NEW k \in Key PROVE LeftAlone(k) \/ Decided(k)
<1> TypeOK BY DEF IInv
<1>1. ASSUME UNCHANGED <<rows, audit>> PROVE LeftAlone(k) BY <1>1 DEF LeftAlone
<1>2. ASSUME NEW s \in Snapshot, Start(s) PROVE LeftAlone(k)
  <2>1. audit' = audit /\ (UNCHANGED rows \/ Import(s)) BY <1>2 DEF Start
  <2>2. CASE UNCHANGED rows BY <2>1, <2>2, <1>1
  <2>3. CASE Import(s) BY <2>1, <2>3, ImportFact DEF LeftAlone, TypeOK
  <2> QED BY <2>1, <2>2, <2>3
<1>3. CASE Stop BY <1>1, <1>3 DEF Stop
<1>4. ASSUME NEW j \in Key, NEW p \in Price, NEW a \in Active, Edit(j, p, a)
      PROVE  LeftAlone(k) \/ Decided(k)
  BY <1>4, EditGives, GivenDecides
<1>5. ASSUME NEW r \in Ref, NEW c \in Customer, NEW lines \in Paste, PreviewTsv(r, c, lines)
      PROVE  LeftAlone(k)
  BY <1>1, <1>5 DEF PreviewTsv
<1>6. ASSUME NEW r \in DOMAIN previews, NEW a \in Active, Apply(r, a)
      PROVE  LeftAlone(k) \/ Decided(k)
  BY <1>6, ApplyGives, GivenDecides
<1>7. CASE UNCHANGED vars BY <1>1, <1>7 DEF vars
<1> QED BY <1>2, <1>3, <1>4, <1>5, <1>6, <1>7 DEF Next

(* The values, decisions and records that a state stands for.                *)
Value == [k \in Key |-> IF rows[k] = None THEN None ELSE rows[k].price]
Overrides == {k \in Key : rows[k] # None /\ rows[k].override}
Recorded == [k \in Key |-> [i \in 1 .. Len(audit[k]) |-> audit[k][i].after]]

LEMMA RecordedFact ==
  ASSUME TypeOK, NEW k \in Key
  PROVE  /\ Len(audit[k]) \in Nat /\ Len(Recorded[k]) = Len(audit[k])
         /\ \A i \in 1 .. Len(audit[k]) : Recorded[k][i] = audit[k][i].after
<1>1. audit[k] \in Seq(AuditRow) BY DEF TypeOK
<1>2. Recorded[k] = [i \in 1 .. Len(audit[k]) |-> audit[k][i].after] BY DEF Recorded
<1> QED BY <1>1, <1>2

LEMMA InitDecisions == IInv => Decisions!Init
<1> SUFFICES ASSUME IInv, NEW k \in Key, Recorded[k] # <<>>
             PROVE  k \in Overrides /\ Value[k] = Recorded[k][Len(Recorded[k])]
  BY DEF Decisions!Init, Recorded, Value, Overrides
<1> TypeOK BY DEF IInv
<1>1. audit[k] \in Seq(AuditRow) /\ Len(audit[k]) \in Nat /\ Len(Recorded[k]) = Len(audit[k])
      /\ \A i \in 1 .. Len(audit[k]) : Recorded[k][i] = audit[k][i].after
  BY RecordedFact DEF TypeOK
<1>2. audit[k] # <<>>
  <2> SUFFICES ASSUME Len(audit[k]) = 0 PROVE FALSE BY <1>1
  <2>1. Recorded[k] = [i \in 1 .. 0 |-> audit[k][i].after] BY DEF Recorded
  <2> QED BY <2>1
<1>3. Len(audit[k]) \in 1 .. Len(audit[k]) BY <1>1, <1>2
<1>4. rows[k] # None /\ rows[k].override /\ rows[k].price = audit[k][Len(audit[k])].after
  BY <1>2 DEF IInv, AuditedIsOverridden, AuditIsAChain
<1> QED BY <1>1, <1>3, <1>4 DEF Overrides, Value

LEMMA StepDecisions == IInv /\ IInv' /\ [Next]_vars => Decisions!Next
<1> SUFFICES ASSUME IInv, IInv', [Next]_vars, NEW k \in Key PROVE Decisions!Kept(k) \/ Decisions!Decide(k)
  BY DEF Decisions!Next
<1> TypeOK /\ TypeOK' BY DEF IInv
<1>1. CASE LeftAlone(k)
  <2>1. Recorded'[k] = Recorded[k] BY <1>1 DEF LeftAlone, Recorded
  <2>2. k \in Overrides => k \in Overrides' /\ Value'[k] = Value[k]
    BY <1>1 DEF LeftAlone, Overrides, Value
  <2> QED BY <2>1, <2>2 DEF Decisions!Kept, Recorded, Overrides, Value
<1>2. CASE Decided(k)
  <2>1. PICK e \in AuditRow : audit'[k] = Append(audit[k], e) /\ e.after = rows'[k].price
    BY <1>2 DEF Decided
  <2>2. audit[k] \in Seq(AuditRow) /\ Len(audit[k]) \in Nat BY DEF TypeOK
  <2>3. Len(audit'[k]) = Len(audit[k]) + 1 /\ audit'[k][Len(audit[k]) + 1] = e
        /\ \A i \in 1 .. Len(audit[k]) : audit'[k][i] = audit[k][i]
    BY <2>1, <2>2
  <2> DEFINE n == Len(Recorded[k]) + 1
  <2>4. Len(Recorded[k]) = Len(audit[k]) /\ n - 1 = Len(audit[k]) /\ n \in Nat BY <2>2, RecordedFact
  <2>5. Recorded'[k] = [i \in 1 .. n |-> audit'[k][i].after] BY <2>3, <2>4 DEF Recorded
  <2>6. Recorded[k] = [i \in 1 .. n - 1 |-> audit[k][i].after] BY <2>4 DEF Recorded
  <2>7. Len(Recorded'[k]) = n BY <2>4, <2>5
  <2>8. SubSeq(Recorded'[k], 1, n - 1) = Recorded[k]
    <3>1. SubSeq(Recorded'[k], 1, n - 1) = [i \in 1 .. n - 1 |-> Recorded'[k][i]]
      BY <2>4, <2>5, <2>7
    <3>2. \A i \in 1 .. n - 1 : Recorded'[k][i] = audit[k][i].after BY <2>3, <2>4, <2>5
    <3> QED BY <2>6, <3>1, <3>2
  <2>9. Recorded'[k][n] = Value'[k]
    <3>1. Recorded'[k][n] = e.after BY <2>3, <2>4, <2>5
    <3>2. Value'[k] = rows'[k].price BY <1>2 DEF Decided, Value
    <3> QED BY <2>1, <3>1, <3>2
  <2>10. k \in Overrides' BY <1>2 DEF Decided, Overrides
  <2> QED BY <2>7, <2>8, <2>9, <2>10 DEF Decisions!Decide, Recorded, Overrides, Value
<1> QED BY <1>1, <1>2, KeyStep

(* The module implements StaffDecisions: what staff decided stays, and is    *)
(* what the activity log says, over any imports (import_from_snapshot).      *)
THEOREM StaffDecidePrices == Spec => DecisionsStand
<1>1. IInv => Decisions!Init BY InitDecisions
<1>2. IInv /\ IInv' /\ [Next]_vars => [Decisions!Next]_(Decisions!catalogue) BY StepDecisions
<1> QED BY <1>1, <1>2, InitIsFine, PricesInvariant, PTL DEF Spec, DecisionsStand, Decisions!Spec
=============================================================================
