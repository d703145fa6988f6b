--------------------------- MODULE MCTrustedEngine ---------------------------
(* Small instances of TrustedEngine.                                       *)
EXTENDS TrustedEngine

CONSTANTS t1, t2, t3, t4, id1, id2, id3

(* t4 repeats t1's request ID.                                             *)
MCIdOf == [t \in Requests |-> CASE t = t2 -> id2 [] t = t3 -> id3 [] OTHER -> id1]

MCKind == [t \in Requests |->
             CASE t = t2 -> "draft" [] t = t3 -> "transcribe" [] OTHER -> "enhance"]

=============================================================================
