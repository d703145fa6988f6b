--------------------------- MODULE MCTimingFlight ---------------------------
(* Small instances of TimingFlight.                                        *)
EXTENDS TimingFlight

CONSTANTS r1, r2, r3, r4, r5, r6

(* r1, r2, r3 and r4 are about one key, r5 about the same task with another  *)
(* capability, r6 about another task.  r3 looks up; r4 has other audio.      *)
MCTaskOf == [r \in Requests |-> IF r = r6 THEN "t2" ELSE "t1"]
MCTokenOf == [r \in Requests |-> IF r = r5 THEN "b" ELSE "a"]
MCInputOf == [r \in Requests |-> IF r = r4 THEN "other" ELSE "same"]
MCSizeOf == [r \in Requests |-> CASE r = r2 -> 4 [] r \in {r5, r6} -> 2 [] OTHER -> 1]

=============================================================================
