-------------------------- MODULE MCDraftPreviews --------------------------
(* Instances of DraftPreviews: two priced orders, alone and together in     *)
(* both orders with a disputed shipment field, and an unpriced one.         *)
EXTENDS DraftPreviews, TLC

MCLinesOf == [o \in Order |-> CASE o = "o1" -> {"l1"} [] o = "o2" -> {"l2"} [] OTHER -> {"l3"}]
MCSelections == {<<"o1">>, <<"o1", "o2">>, <<"o2", "o1">>, <<"o3">>}
MCDisputes == [s \in MCSelections |-> IF Len(s) = 2 THEN Dispute ELSE {}]
MCSubmission == {SubmissionOf(p, a) : p \in Proposal, a \in Staff}
Tokens == Permutations(Ref) \cup Permutations(Draft)
=============================================================================
