---------------------------- MODULE MCDraftRows ----------------------------
(* A small instance of DraftRows: frames of two samples, the last cut short. *)
EXTENDS DraftRows

CONSTANTS one, two

MCTracks == <<one, two>>

(* Lane one has every pattern of seven frames, lane two bridges a gap.    *)
MCLoudness ==
  [lane \in {one, two} |->
     IF lane = one THEN [0..6 -> BOOLEAN]
     ELSE {[f \in 0..6 |-> f # 2]}]

Said(from, to) == [start |-> from, end |-> to]

(* A word within another, and one after it, which some segments do not reach. *)
MCSpeech == {Said(0, 4), Said(1, 2), Said(3, 5)}

Live(lane, from, to, text) == [lane |-> lane, start |-> from, end |-> to, text |-> text]

MCPreserved ==
  {<<Live(one, 2, 6, "plain"), Live(one, 0, 2, "none")>>,
   <<Live(two, 3, 8, "plain"), Live(one, 6, 14, "markup"), Live(one, 2, 4, "plain")>>}

=============================================================================
