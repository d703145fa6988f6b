----------------------------- MODULE LeaseBoard -----------------------------
(***************************************************************************)
(* What the coordinator promises about a job, with no queue, registry or   *)
(* clock: officials first, then at most one volunteer, who works on         *)
(* nothing else meanwhile, and an owner is only ever told a volunteer's     *)
(* result that came from that volunteer under its lease.                   *)
(***************************************************************************)
CONSTANTS Requests, Workers, NoOne

VARIABLES
  stage,    (* how far each job is                                         *)
  holder,   (* the volunteer working on it                                 *)
  outcome,  (* pending, failed, or the volunteer whose result was accepted *)
  answer    (* what the owner was told: a volunteer, or some other reply   *)

boardState == <<stage, holder, outcome, answer>>

Stages == {"absent", "official", "offered", "held", "settled", "gone"}

Replies == {"none", "busy", "rejected", "duplicate", "official", "unavailable", "aborted"}

Init ==
  /\ stage = [r \in Requests |-> "absent"]
  /\ holder = [r \in Requests |-> NoOne]
  /\ outcome = [r \in Requests |-> "pending"]
  /\ answer = [r \in Requests |-> "none"]

Post(r) ==
  /\ stage[r] = "absent"
  /\ stage' = [stage EXCEPT ![r] = "official"]
  /\ UNCHANGED <<holder, outcome, answer>>

Offer(r) ==
  /\ stage[r] = "official"
  /\ stage' = [stage EXCEPT ![r] = "offered"]
  /\ UNCHANGED <<holder, outcome, answer>>

Claim(r, w) ==
  /\ stage[r] = "offered"
  /\ \A other \in Requests : holder[other] # w
  /\ stage' = [stage EXCEPT ![r] = "held"]
  /\ holder' = [holder EXCEPT ![r] = w]
  /\ UNCHANGED <<outcome, answer>>

Settle(r) ==
  /\ stage[r] = "held"
  /\ stage' = [stage EXCEPT ![r] = "settled"]
  /\ holder' = [holder EXCEPT ![r] = NoOne]
  /\ \E value \in {holder[r], "failed"} : outcome' = [outcome EXCEPT ![r] = value]
  /\ UNCHANGED answer

(* The owner leaves with a reply of the coordinator's own, or with the       *)
(* volunteer's result once that was accepted.  Nobody works on afterwards.  *)
Leave(r) ==
  /\ stage[r] # "gone"
  /\ stage' = [stage EXCEPT ![r] = "gone"]
  /\ holder' = [holder EXCEPT ![r] = NoOne]
  /\ \E reply \in (Replies \ {"none"}) \cup ({outcome[r]} \cap Workers) :
       answer' = [answer EXCEPT ![r] = reply]
  /\ UNCHANGED outcome

Next ==
  \E r \in Requests :
    \/ Post(r) \/ Offer(r) \/ Settle(r) \/ Leave(r)
    \/ \E w \in Workers : Claim(r, w)

Spec == Init /\ [][Next]_boardState

=============================================================================
