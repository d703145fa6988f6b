-------------------------- MODULE MCModelResidency --------------------------
(* Small instances of ModelResidency.                                      *)
EXTENDS ModelResidency

CONSTANTS r1, r2, r3

MCModels == {"asr", "l2"}

(* r1 transcribes, the others draft.                                       *)
MCNeeds == [r \in Requests |-> IF r = r1 THEN {"asr"} ELSE {"l2"}]

=============================================================================
