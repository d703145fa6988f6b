---------------------------- MODULE MCSwarmJobs ----------------------------
(* Small instances of SwarmJobs.                                           *)
EXTENDS SwarmJobs

CONSTANTS r1, r2, r3, w1, w2, id1, id2, b1, b2

(* r3 repeats r1's request ID.                                             *)
MCIdOf == [r \in Requests |-> IF r = r2 THEN id2 ELSE id1]

Draft(size) == [op |-> "draft", bytes |-> size, model |-> NoOne, client |-> NoOne]

(* r2 is too large a lease for w1.                                         *)
MCAsk == [r \in Requests |-> IF r = r2 THEN Draft(2) ELSE Draft(1)]

MCSkill ==
  [w \in Workers |-> [ops |-> {"draft", "transcribe"}, model |-> NoOne, client |-> NoOne,
                      bytes |-> IF w = w1 THEN 1 ELSE 2]]

=============================================================================
