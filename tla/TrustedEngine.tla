---------------------------- MODULE TrustedEngine ----------------------------
(***************************************************************************)
(* The handlers of the trusted engine (l0_draft_engine/app.py): transcribe, *)
(* draft and enhance, from the admission gate through the upload and the    *)
(* inference queue to the thread that infers, and back.  Clients may hang   *)
(* up at any time, which cancels the handler; a thread cannot be cancelled. *)
(*                                                                         *)
(* The engine's work inside the thread is a thread that runs until it       *)
(* returns, well or badly.  What it posts to the event loop (progress, its   *)
(* own return) arrives there in the order it was posted.                    *)
(***************************************************************************)
EXTENDS InferenceQueue

CONSTANTS
  Kind,         (* which handler a request calls                            *)
  MaxInflight,  (* max_inflight_requests                                    *)
  MaxUpdates    (* bound on the updates posted and not yet delivered        *)

ASSUME EngineAssumption ==
  /\ Kind \in [Requests -> {"transcribe", "draft", "enhance"}]
  /\ MaxInflight \in Nat \ {0}
  /\ MaxUpdates \in Nat

VARIABLES
  pc,        (* where each handler is                                       *)
  cut,       (* the handler was cancelled while its thread ran              *)
  thread,    (* the thread that infers for a request                        *)
  posted,    (* its updates that the event loop has not run yet             *)
  inflight   (* _EventLoopAdmissionGate._inflight                           *)

handlerVars == <<pc, cut, thread, posted, inflight>>
vars == <<queueVars, handlerVars>>

(* closing: uploads are being closed, or an enhancement response is being    *)
(* sent; the admission slot is still taken.                                 *)
Places == {"idle", "uploading", "queued", "inferring", "closing", "done"}

TypeOK ==
  /\ QueueTypeOK
  /\ pc \in [Requests -> Places]
  /\ cut \in [Requests -> BOOLEAN]
  /\ thread \in [Requests -> {"none", "running", "returned"}]
  /\ posted \in [Requests -> 0..MaxUpdates]
  /\ inflight \in 0..MaxInflight

Init ==
  /\ QueueInit
  /\ pc = [t \in Requests |-> "idle"]
  /\ cut = [t \in Requests |-> FALSE]
  /\ thread = [t \in Requests |-> "none"]
  /\ posted = [t \in Requests |-> 0]
  /\ inflight = 0

Goto(t, from, to) == pc[t] = from /\ pc' = [pc EXCEPT ![t] = to]

----------------------------------------------------------------------------
(* The handler before it has a ticket.                                     *)

(* try_acquire fails: 429.  Or a draft meets an engine that is closing, and   *)
(* leaves the gate in the step it entered.                                  *)
TurnAway(t) ==
  /\ Goto(t, "idle", "done")
  /\ Kind[t] # "draft" => inflight >= MaxInflight
  /\ UNCHANGED <<queueVars, cut, thread, posted, inflight>>

(* Mutant: one request too many.                                           *)
AdmitAtTheLimit(t) ==
  /\ Kind[t] # "draft"
  /\ Goto(t, "idle", "uploading")
  /\ inflight <= MaxInflight
  /\ inflight' = inflight + 1
  /\ UNCHANGED <<queueVars, cut, thread, posted>>

(* transcribe and enhance read their upload inside the gate.               *)
Admit(t) ==
  /\ Kind[t] # "draft"
  /\ Goto(t, "idle", "uploading")
  /\ inflight < MaxInflight
  /\ inflight' = inflight + 1
  /\ UNCHANGED <<queueVars, cut, thread, posted>>

(* A bad upload, a client that hangs up, or an engine that is closing.      *)
EndEarly(t) ==
  /\ Goto(t, "uploading", "closing")
  /\ UNCHANGED <<queueVars, cut, thread, posted, inflight>>

(* The upload is complete, or the draft, whose input came parsed, enters     *)
(* the gate and registers at once.                                          *)
TakeTicket(t) ==
  /\ \/ /\ Goto(t, "uploading", "queued")
        /\ UNCHANGED inflight
     \/ /\ Kind[t] = "draft"
        /\ Goto(t, "idle", "queued")
        /\ inflight < MaxInflight
        /\ inflight' = inflight + 1
  /\ Register(t)
  /\ UNCHANGED <<cut, thread, posted>>

(* 409.  A draft leaves the gate in the step it entered.                   *)
Duplicate(t) ==
  /\ \/ Goto(t, "uploading", "closing")
     \/ Kind[t] = "draft" /\ inflight < MaxInflight /\ Goto(t, "idle", "done")
  /\ Refuse(t)
  /\ UNCHANGED <<cut, thread, posted, inflight>>

----------------------------------------------------------------------------
(* The handler with a ticket.                                              *)

(* Where a handler goes when it is through with its ticket: a draft leaves   *)
(* the gate in the same step, the others close uploads or send first.       *)
Finish(t) ==
  IF Kind[t] = "draft"
    THEN pc' = [pc EXCEPT ![t] = "done"] /\ inflight' = inflight - 1
    ELSE pc' = [pc EXCEPT ![t] = "closing"] /\ UNCHANGED inflight

(* The client hangs up while the handler waits for ready, or after ready     *)
(* was set and before the handler noticed.                                  *)
HangUpQueued(t) ==
  /\ pc[t] = "queued"
  /\ Abandon(t)
  /\ Finish(t)
  /\ UNCHANGED <<cut, thread, posted>>

StartInference(t) ==
  /\ Goto(t, "queued", "inferring")
  /\ ready[t]
  /\ thread' = [thread EXCEPT ![t] = "running"]
  /\ UNCHANGED <<queueVars, cut, posted, inflight>>

(* Mutant: the ticket goes with the handler, the thread stays.             *)
HangUpCompletes(t) ==
  /\ pc[t] = "inferring"
  /\ ~cut[t]
  /\ cut' = [cut EXCEPT ![t] = TRUE]
  /\ Complete(t)
  /\ Finish(t)
  /\ UNCHANGED <<thread, posted>>

(* The client hangs up during inference: _finish_cancelled_worker keeps the  *)
(* handler waiting for the thread, however often it is cancelled.           *)
HangUp(t) ==
  /\ pc[t] = "inferring"
  /\ ~cut[t]
  /\ cut' = [cut EXCEPT ![t] = TRUE]
  /\ UNCHANGED <<queueVars, pc, thread, posted, inflight>>

(* The handler sees its thread back: result, error or cancellation.        *)
InferenceEnds(t) ==
  /\ pc[t] = "inferring"
  /\ thread[t] = "returned"
  /\ posted[t] = 0
  /\ thread' = [thread EXCEPT ![t] = "none"]
  /\ Complete(t)
  /\ Finish(t)
  /\ UNCHANGED <<cut, posted>>

(* Mutant: cleanup runs twice, in the handler and in the response.         *)
LeaveTwice(t) ==
  /\ Goto(t, "closing", "done")
  /\ inflight' = IF Kind[t] = "enhance" THEN inflight - 2 ELSE inflight - 1
  /\ UNCHANGED <<queueVars, cut, thread, posted>>

(* Uploads closed, response sent or its client lost.                       *)
Leave(t) ==
  /\ Goto(t, "closing", "done")
  /\ inflight' = inflight - 1
  /\ UNCHANGED <<queueVars, cut, thread, posted>>

----------------------------------------------------------------------------
(* The thread, and what it posts.                                          *)

PostUpdate(t) ==
  /\ Kind[t] = "enhance"
  /\ thread[t] = "running"
  /\ posted[t] < MaxUpdates
  /\ posted' = [posted EXCEPT ![t] = @ + 1]
  /\ UNCHANGED <<queueVars, pc, cut, thread, inflight>>

DeliverUpdate(t) ==
  /\ posted[t] > 0
  /\ posted' = [posted EXCEPT ![t] = @ - 1]
  /\ UpdateProgress(t)
  /\ UNCHANGED <<pc, cut, thread, inflight>>

ThreadReturns(t) ==
  /\ thread[t] = "running"
  /\ thread' = [thread EXCEPT ![t] = "returned"]
  /\ UNCHANGED <<queueVars, pc, cut, posted, inflight>>

----------------------------------------------------------------------------
(* GET /v1/queue/{id}, and the clock.                                      *)
Observe == Status /\ UNCHANGED handlerVars
Time == Lapse /\ UNCHANGED handlerVars

Served(t) ==
  \/ StartInference(t)
  \/ ThreadReturns(t)
  \/ DeliverUpdate(t)
  \/ InferenceEnds(t)

Handler(t) ==
  \/ TurnAway(t)
  \/ Admit(t)
  \/ EndEarly(t)
  \/ TakeTicket(t)
  \/ Duplicate(t)
  \/ HangUpQueued(t)
  \/ HangUp(t)
  \/ PostUpdate(t)
  \/ Leave(t)
  \/ Served(t)

Next == (\E t \in Requests : Handler(t)) \/ Observe \/ Time

Spec == Init /\ [][Next]_vars

(* The event loop runs what is ready, and inference ends: its input is       *)
(* finite, and the browser runtime answers within an RPC deadline once it    *)
(* has read its request (BrowserRpc).  Nothing is assumed of clients.        *)
FairSpec ==
  Spec /\ \A t \in Requests : /\ WF_vars(StartInference(t) \/ InferenceEnds(t))
                              /\ WF_vars(ThreadReturns(t))
                              /\ WF_vars(DeliverUpdate(t))

----------------------------------------------------------------------------
(* Properties.                                                             *)

Inside == {t \in Requests : pc[t] \in {"uploading", "queued", "inferring", "closing"}}

(* The admission gate counts the handlers inside it, whatever way each of    *)
(* the three handlers, or a response it left behind, gets out.              *)
SlotsExact == inflight = Cardinality(Inside)

(* A thread that still infers holds the gate, even when its client is long   *)
(* gone, so no two inferences ever overlap.                                 *)
OneInference == \A t \in Requests : thread[t] # "none" => running = t

(* The turn is with a handler that will use it or give it back; those in     *)
(* line wait only while somebody has the turn; and no ticket is registered   *)
(* that is neither running nor in line.                                     *)
TurnHasOwner ==
  /\ running # Nobody => pc[running] \in {"queued", "inferring"} /\ ready[running]
  /\ running = Nobody => waiting = <<>>
  /\ \A t \in Requests :
       pc[t] \in {"queued", "inferring"} <=> t = running \/ t \in ToSet(waiting)

(* An ID is active for one ticket or completed once, never both: the         *)
(* order of _completed is the order of expiry, and status is unambiguous.   *)
IdsDistinct ==
  /\ \A t \in Requests :
       active[IdOf[t]] = t <=> (t = running \/ t \in ToSet(waiting))
  /\ \A i \in DOMAIN completed :
       /\ active[IdOf[completed[i]]] = Nobody
       /\ \A k \in DOMAIN completed : IdOf[completed[i]] = IdOf[completed[k]] => i = k

(* What /v1/queue shows as a request's progress was posted for that request, *)
(* and is forgotten with it.                                                *)
ProgressIsOwn ==
  \A id \in RequestIds :
    progress[id] # Nobody =>
      \/ progress[id] = running /\ IdOf[running] = id
      \/ progress[id] \in ToSet(completed) /\ IdOf[progress[id]] = id

(* The gate is with at most one thread, and with a handler that answers for  *)
(* it, and the handlers are counted, whatever their clients do.             *)
GateInHands == OneInference /\ TurnHasOwner /\ SlotsExact

(* What /v1/queue says of an ID is about the one request that has it.        *)
StatusOfOne == IdsDistinct /\ ProgressIsOwn

(* The gate is a line with one worker at its head.                         *)
Line ==
  INSTANCE TurnLine WITH
    line    <- IF running = Nobody THEN <<>> ELSE <<running>> \o waiting,
    told    <- {t \in Requests : ready[t]},
    working <- {t \in Requests : thread[t] = "running"}

TakesTurns == Line!Spec

(* Every ticket comes through, whatever the clients before it do.          *)
EveryTicketServed ==
  \A t \in Requests : pc[t] = "queued" ~> pc[t] \in {"closing", "done"}

=============================================================================
