--------------------------- MODULE InferenceQueue ---------------------------
(***************************************************************************)
(* class InferenceQueue (l0_draft_engine/inference_queue.py): the gate of  *)
(* the trusted engine that lets one request at a time infer, in the order  *)
(* of registration, and remembers the recently completed ones.  Its         *)
(* methods are operators; the handlers that call them are the actions of    *)
(* TrustedEngine.                                                          *)
(*                                                                         *)
(* A request registers at most one QueueTicket and stands for it.  The      *)
(* ordered dict _completed, keyed by request ID, is the sequence of the     *)
(* tickets that completed, oldest first.                                    *)
(***************************************************************************)
EXTENDS Integers, Sequences, FiniteSets, SequencesExt

CONSTANTS
  Requests,      (* HTTP requests, each with its ticket                     *)
  RequestIds,    (* values of X-Babel-Request-Id                            *)
  Nobody,        (* Python's None                                           *)
  IdOf,          (* the request ID a request carries                        *)
  MaxCompleted   (* max_completed                                           *)

ASSUME TicketsAssumption ==
  /\ IsFiniteSet(Requests)
  /\ Nobody \notin Requests
  /\ IdOf \in [Requests -> RequestIds]
  /\ MaxCompleted \in Nat \ {0}

VARIABLES
  running,    (* _running                                                   *)
  waiting,    (* _waiting                                                   *)
  active,     (* _active                                                    *)
  completed,  (* _completed                                                 *)
  lapsed,     (* how many of those, from the front, are past their expiry   *)
  progress,   (* _progress: for an ID, whose update is on show              *)
  ready       (* QueueTicket.ready, an asyncio.Event                        *)

queueVars == <<running, waiting, active, completed, lapsed, progress, ready>>

QueueTypeOK ==
  /\ running \in Requests \cup {Nobody}
  /\ waiting \in Seq(Requests)
  /\ active \in [RequestIds -> Requests \cup {Nobody}]
  /\ completed \in Seq(Requests)
  /\ lapsed \in 0..Len(completed)
  /\ progress \in [RequestIds -> Requests \cup {Nobody}]
  /\ ready \in [Requests -> BOOLEAN]

QueueInit ==
  /\ running = Nobody
  /\ waiting = <<>>
  /\ active = [id \in RequestIds |-> Nobody]
  /\ completed = <<>>
  /\ lapsed = 0
  /\ progress = [id \in RequestIds |-> Nobody]
  /\ ready = [t \in Requests |-> FALSE]

----------------------------------------------------------------------------
(* _prune_completed forgets the expired and the surplus, and their progress. *)
Surplus(done) ==
  IF Len(done) - MaxCompleted > lapsed THEN Len(done) - MaxCompleted ELSE lapsed

Forgotten(done) == {IdOf[done[i]] : i \in 1..Surplus(done)}

(* Mutant: the progress of a forgotten request stays.                      *)
PruneKeepsProgress(done) ==
  /\ completed' = SubSeq(done, Surplus(done) + 1, Len(done))
  /\ lapsed' = 0
  /\ UNCHANGED progress

PruneCompleted(done) ==
  /\ completed' = SubSeq(done, Surplus(done) + 1, Len(done))
  /\ lapsed' = 0
  /\ progress' = [id \in RequestIds |-> IF id \in Forgotten(done) THEN Nobody
                                                                  ELSE progress[id]]

(* Asked after the pruning.                                                *)
Known(t) ==
  \/ active[IdOf[t]] # Nobody
  \/ \E c \in ToSet(completed') : IdOf[c] = IdOf[t]

Register(t) ==
  /\ PruneCompleted(completed)
  /\ ~Known(t)
  /\ active' = [active EXCEPT ![IdOf[t]] = t]
  /\ \/ /\ running = Nobody
        /\ running' = t
        /\ ready' = [ready EXCEPT ![t] = TRUE]
        /\ UNCHANGED waiting
     \/ /\ running # Nobody
        /\ waiting' = Append(waiting, t)
        /\ UNCHANGED <<running, ready>>

(* DuplicateRequestIdError.                                                *)
Refuse(t) ==
  /\ PruneCompleted(completed)
  /\ Known(t)
  /\ UNCHANGED <<running, waiting, active, ready>>

(* _promote_next, called with the leaver out of active: the first waiting   *)
(* ticket that is still active runs, and those before it are dropped.       *)
Promotable == {i \in DOMAIN waiting : active'[IdOf[waiting[i]]] = waiting[i]}

(* Mutant: the youngest goes first.                                        *)
PromoteLast ==
  \/ /\ waiting = <<>>
     /\ running' = Nobody
     /\ UNCHANGED <<waiting, ready>>
  \/ /\ waiting # <<>>
     /\ running' = Last(waiting)
     /\ waiting' = Front(waiting)
     /\ ready' = [ready EXCEPT ![Last(waiting)] = TRUE]

(* Mutant: the event is not set.                                           *)
PromoteInSilence ==
  \/ /\ waiting = <<>>
     /\ running' = Nobody
     /\ UNCHANGED <<waiting, ready>>
  \/ /\ waiting # <<>>
     /\ running' = Head(waiting)
     /\ waiting' = Tail(waiting)
     /\ UNCHANGED ready

Promote ==
  \/ /\ Promotable = {}
     /\ running' = Nobody
     /\ waiting' = <<>>
     /\ UNCHANGED ready
  \/ \E i \in Promotable :
       /\ \A k \in Promotable : i <= k
       /\ running' = waiting[i]
       /\ waiting' = SubSeq(waiting, i + 1, Len(waiting))
       /\ ready' = [ready EXCEPT ![waiting[i]] = TRUE]

(* Mutant: a promoted ticket whose owner is gone is looked for in the        *)
(* waiting line only.                                                       *)
AbandonWaitingOnly(t) ==
  /\ waiting' = RemoveFirst(waiting, t)
  /\ active' = IF t \in ToSet(waiting) THEN [active EXCEPT ![IdOf[t]] = Nobody] ELSE active
  /\ UNCHANGED <<running, ready, completed, lapsed, progress>>

(* abandon: out of the line, or out of the turn it had not used yet.        *)
Abandon(t) ==
  LET mine == active[IdOf[t]] = t
      held == mine /\ (running = t \/ t \in ToSet(waiting))
  IN  /\ progress' = IF mine THEN [progress EXCEPT ![IdOf[t]] = Nobody] ELSE progress
      /\ active' = IF held THEN [active EXCEPT ![IdOf[t]] = Nobody] ELSE active
      /\ IF mine /\ running = t
           THEN Promote
           ELSE /\ waiting' = IF mine THEN RemoveFirst(waiting, t) ELSE waiting
                /\ UNCHANGED <<running, ready>>
      /\ UNCHANGED <<completed, lapsed>>

(* Mutant: the ID may be registered again at once.                         *)
CompleteStaysActive(t) ==
  /\ running = t
  /\ PruneCompleted(Append(completed, t))
  /\ UNCHANGED active
  /\ Promote

(* complete; of a ticket that is not running, nothing.                      *)
Complete(t) ==
  IF running = t
    THEN /\ active' = [active EXCEPT ![IdOf[t]] = Nobody]
         /\ PruneCompleted(Append(completed, t))
         /\ Promote
    ELSE UNCHANGED queueVars

(* update_progress, on the event loop.                                      *)
UpdateProgress(t) ==
  /\ progress' = IF running = t /\ active[IdOf[t]] = t
                   THEN [progress EXCEPT ![IdOf[t]] = t] ELSE progress
  /\ UNCHANGED <<running, waiting, active, completed, lapsed, ready>>

(* status: prunes, whatever it is asked.                                   *)
Status ==
  /\ PruneCompleted(completed)
  /\ UNCHANGED <<running, waiting, active, ready>>

(* The clock passes the expiry of the oldest.                              *)
Lapse ==
  /\ lapsed < Len(completed)
  /\ lapsed' = lapsed + 1
  /\ UNCHANGED <<running, waiting, active, completed, progress, ready>>

=============================================================================
