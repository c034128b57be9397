------------------------ MODULE MCSnapshotAcceptance ------------------------
(* Instances of SnapshotAcceptance: a snapshot with every module, one       *)
(* without customers, and one that does not validate.                       *)
EXTENDS SnapshotAcceptance, TLC

MCReady == [s \in Content |-> IF s = "s1" THEN Module ELSE {"customer_prices"}]
Certifiers == Permutations(Certifier)
=============================================================================
