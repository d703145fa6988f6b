------------------------------ MODULE MCEngines ------------------------------
(* A small instance of Engines.                                            *)
EXTENDS Engines

CONSTANTS r1, r2, r3, boot, c1, c2

MCModels == {"asr", "l2"}

(* r1 transcribes, the others draft.                                       *)
MCNeeds == [r \in Requests |-> IF r = r1 THEN {"asr"} ELSE {"l2"}]

=============================================================================
