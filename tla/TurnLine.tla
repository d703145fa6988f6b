------------------------------ MODULE TurnLine ------------------------------
(***************************************************************************)
(* What the trusted engine's gate promises: requests stand in one line,     *)
(* only the first of it may work, nobody overtakes, and whoever is first    *)
(* has been told so.  A worker leaves the line only when it has stopped.    *)
(***************************************************************************)
EXTENDS Sequences, SequencesExt

CONSTANT Requests

VARIABLES
  line,     (* the requests in line, first come first                      *)
  told,     (* those whose turn has been announced                         *)
  working   (* those at work                                               *)

lineState == <<line, told, working>>

Init ==
  /\ line = <<>>
  /\ told = {}
  /\ working = {}

Announce == told' = told \cup (IF line' = <<>> THEN {} ELSE {Head(line')})

Join(t) ==
  /\ t \notin ToSet(line)
  /\ line' = Append(line, t)
  /\ Announce
  /\ UNCHANGED working

Start(t) ==
  /\ line # <<>> /\ t = Head(line)
  /\ working = {}
  /\ working' = {t}
  /\ UNCHANGED <<line, told>>

Stop(t) ==
  /\ t \in working
  /\ working' = {}
  /\ UNCHANGED <<line, told>>

Leave(t) ==
  /\ t \in ToSet(line) \ working
  /\ line' = RemoveFirst(line, t)
  /\ Announce
  /\ UNCHANGED working

Next == \E t \in Requests : Join(t) \/ Start(t) \/ Stop(t) \/ Leave(t)

Spec == Init /\ [][Next]_lineState

=============================================================================
