--------------------------- MODULE ModelResidency ---------------------------
(***************************************************************************)
(* When the models of class DraftEngine (l0_draft_engine/engine.py) are in  *)
(* memory: sessions that keep them there, the idle timer that evicts them,  *)
(* and close.  A handler opens a session before its upload and closes it     *)
(* after its answer; the inference thread opens another one inside it.      *)
(*                                                                         *)
(* The state lock is held over a whole action, and between two only while   *)
(* its holder unloads the models, for which it needs the GPU lock as well.  *)
(* The timers are threads: one that is due may still wait for the state      *)
(* lock when it is cancelled.                                              *)
(***************************************************************************)
EXTENDS Integers, FiniteSets

CONSTANTS
  Requests,       (* HTTP requests, each with a handler and a thread        *)
  Needs,          (* the models a request's inference loads                 *)
  Models,         (* {_asr, _formatter}                                     *)
  Nobody,
  Evicts,         (* model_idle_seconds > 0                                 *)
  MaxGeneration   (* bound on repeated calls of close                       *)

ASSUME ResidencyAssumption ==
  /\ IsFiniteSet(Requests)
  /\ Needs \in [Requests -> SUBSET Models]
  /\ Nobody \notin Requests
  /\ Evicts \in BOOLEAN
  /\ MaxGeneration \in Nat

VARIABLES
  active,       (* _active_sessions                                         *)
  closed,       (* _closed                                                  *)
  idleTimer,    (* the generation of _idle_timer, {} for None               *)
  generation,   (* _idle_generation                                         *)
  counting,     (* the timers that count down, by generation                *)
  due,          (* those that elapsed and have not run their function yet    *)
  loaded,       (* the models in memory                                     *)
  unloading,    (* who holds the state lock to unload: exit, evict, close    *)
  gpu,          (* who holds _gpu_lock                                      *)
  pc,           (* where each request is                                    *)
  rejected      (* the requests whose inference met a closed engine         *)

vars == <<active, closed, idleTimer, generation, counting, due, loaded, unloading,
          gpu, pc, rejected>>

timerVars == <<idleTimer, generation, counting, due>>

(* accepted: the handler's session is open; nested: the thread's is too;     *)
(* leaving: the GPU lock is given back; through: the thread's is closed.     *)
Places == {"idle", "accepted", "nested", "inferring", "leaving", "through", "done"}

TypeOK ==
  /\ active \in Nat
  /\ closed \in BOOLEAN
  /\ generation \in Nat
  /\ idleTimer \in SUBSET (0..generation)
  /\ counting \in SUBSET (0..generation)
  /\ due \in SUBSET (0..generation)
  /\ loaded \in SUBSET Models
  /\ unloading \in {"no", "exit", "evict", "close"}
  /\ gpu \in Requests \cup {Nobody}
  /\ pc \in [Requests -> Places]
  /\ rejected \in SUBSET Requests

Init ==
  /\ active = 0
  /\ closed = FALSE
  /\ generation = 0
  /\ idleTimer = {} /\ counting = {} /\ due = {}
  /\ loaded = {}
  /\ unloading = "no"
  /\ gpu = Nobody
  /\ pc = [r \in Requests |-> "idle"]
  /\ rejected = {}

Goto(r, from, to) == pc[r] = from /\ pc' = [pc EXCEPT ![r] = to]

----------------------------------------------------------------------------
(* The methods, under the state lock.                                      *)

StateLockFree == unloading = "no"

(* _cancel_idle_timer: too late for a timer that is due.                   *)
CancelIdleTimer ==
  /\ generation' = generation + 1
  /\ counting' = counting \ idleTimer
  /\ idleTimer' = {}
  /\ UNCHANGED due

(* Mutant: a session inside a session is not counted.                      *)
StartOutermost ==
  /\ StateLockFree
  /\ ~closed
  /\ CancelIdleTimer
  /\ active' = IF active = 0 THEN 1 ELSE active

StartSession ==
  /\ StateLockFree
  /\ ~closed
  /\ CancelIdleTimer
  /\ active' = active + 1

(* The last session closed unloads at once from a closed engine, and starts  *)
(* a timer otherwise.                                                      *)
EndSession ==
  /\ StateLockFree
  /\ active' = active - 1
  /\ UNCHANGED <<generation, due>>
  /\ \/ /\ active' = 0 /\ closed
        /\ unloading' = "exit"
        /\ UNCHANGED <<idleTimer, counting>>
     \/ /\ active' = 0 /\ ~closed /\ Evicts /\ loaded # {}
        /\ idleTimer' = {generation}
        /\ counting' = counting \cup {generation}
        /\ UNCHANGED unloading
     \/ /\ active' > 0 \/ (~closed /\ (~Evicts \/ loaded = {}))
        /\ UNCHANGED <<idleTimer, counting, unloading>>

----------------------------------------------------------------------------
(* The handlers and their threads.                                         *)

Accept(r) ==
  /\ Goto(r, "idle", "accepted")
  /\ StartSession
  /\ UNCHANGED <<closed, loaded, unloading, gpu, rejected>>

(* Mutant: the refused session is closed, too.                             *)
RefuseEndsSession(r) ==
  /\ Goto(r, "idle", "done")
  /\ StateLockFree /\ closed
  /\ active' = active - 1
  /\ UNCHANGED <<closed, timerVars, loaded, unloading, gpu, rejected>>

Refuse(r) ==
  /\ Goto(r, "idle", "done")
  /\ StateLockFree /\ closed
  /\ UNCHANGED <<active, closed, timerVars, loaded, unloading, gpu, rejected>>

(* A bad upload, a duplicate ID, or a client that hangs up in the queue.    *)
GiveUp(r) ==
  /\ Goto(r, "accepted", "through")
  /\ UNCHANGED <<active, closed, timerVars, loaded, unloading, gpu, rejected>>

StartNested(r) ==
  /\ Goto(r, "accepted", "nested")
  /\ StartSession
  /\ UNCHANGED <<closed, loaded, unloading, gpu, rejected>>

(* RuntimeError("engine is closed"), in the middle of an accepted request.  *)
NestedRefused(r) ==
  /\ Goto(r, "accepted", "through")
  /\ StateLockFree /\ closed
  /\ rejected' = rejected \cup {r}
  /\ UNCHANGED <<active, closed, timerVars, loaded, unloading, gpu>>

TakeGpu(r) ==
  /\ Goto(r, "nested", "inferring")
  /\ gpu = Nobody
  /\ gpu' = r
  /\ UNCHANGED <<active, closed, timerVars, loaded, unloading, rejected>>

(* _get_asr, _get_formatter.                                               *)
Load(r) ==
  /\ pc[r] = "inferring"
  /\ loaded' = loaded \cup Needs[r]
  /\ UNCHANGED <<active, closed, timerVars, unloading, gpu, pc, rejected>>

(* Results, an error in the audio, or a model that cannot be loaded.       *)
EndInference(r) ==
  /\ Goto(r, "inferring", "leaving")
  /\ gpu' = Nobody
  /\ UNCHANGED <<active, closed, timerVars, loaded, unloading, rejected>>

EndNested(r) ==
  /\ Goto(r, "leaving", "through")
  /\ EndSession
  /\ UNCHANGED <<closed, loaded, gpu, rejected>>

Leave(r) ==
  /\ Goto(r, "through", "done")
  /\ EndSession
  /\ UNCHANGED <<closed, loaded, gpu, rejected>>

----------------------------------------------------------------------------
(* Timers and close.                                                       *)

Elapse(g) ==
  /\ g \in counting
  /\ counting' = counting \ {g}
  /\ due' = due \cup {g}
  /\ UNCHANGED <<active, closed, idleTimer, generation, loaded, unloading, gpu, pc, rejected>>

(* Mutant: whatever timer runs while nobody has a session evicts.          *)
EvictStale(g) ==
  /\ g \in due
  /\ StateLockFree
  /\ due' = due \ {g}
  /\ IF closed \/ active > 0
       THEN UNCHANGED <<idleTimer, unloading>>
       ELSE idleTimer' = {} /\ unloading' = "evict"
  /\ UNCHANGED <<active, closed, generation, counting, loaded, gpu, pc, rejected>>

(* Mutant: the function of the timer is not run again when it must wait.    *)
EvictGivesUp(g) ==
  /\ g \in due
  /\ StateLockFree
  /\ due' = due \ {g}
  /\ UNCHANGED <<active, closed, idleTimer, generation, counting, loaded, unloading, gpu,
                 pc, rejected>>

(* _evict_idle_models.                                                     *)
Evict(g) ==
  /\ g \in due
  /\ StateLockFree
  /\ due' = due \ {g}
  /\ IF closed \/ active > 0 \/ g # generation
       THEN UNCHANGED <<idleTimer, unloading>>
       ELSE idleTimer' = {} /\ unloading' = "evict"
  /\ UNCHANGED <<active, closed, generation, counting, loaded, gpu, pc, rejected>>

(* Mutant: whoever still works is not waited for.                          *)
CloseNow ==
  /\ StateLockFree
  /\ generation < MaxGeneration
  /\ closed' = TRUE
  /\ CancelIdleTimer
  /\ unloading' = "close"
  /\ UNCHANGED <<active, loaded, gpu, pc, rejected>>

Close ==
  /\ StateLockFree
  /\ generation < MaxGeneration
  /\ closed' = TRUE
  /\ CancelIdleTimer
  /\ unloading' = IF active = 0 THEN "close" ELSE "no"
  /\ UNCHANGED <<active, loaded, gpu, pc, rejected>>

(* _unload_models, once the GPU lock is free.                              *)
UnloadModels ==
  /\ unloading # "no"
  /\ gpu = Nobody
  /\ loaded' = {}
  /\ unloading' = "no"
  /\ UNCHANGED <<active, closed, timerVars, gpu, pc, rejected>>

Step(r) ==
  \/ Accept(r)
  \/ Refuse(r)
  \/ GiveUp(r)
  \/ StartNested(r)
  \/ NestedRefused(r)
  \/ TakeGpu(r)
  \/ Load(r)
  \/ EndInference(r)
  \/ EndNested(r)
  \/ Leave(r)

Expire == \E g \in counting \cup due : Elapse(g) \/ Evict(g)

Next ==
  \/ \E r \in Requests : Step(r)
  \/ Expire
  \/ Close
  \/ UnloadModels

Spec == Init /\ [][Next]_vars

(* Timers elapse and run, and a lock that is free is got; nothing is        *)
(* assumed of requests.                                                    *)
FairSpec == Spec /\ WF_vars(Expire) /\ WF_vars(UnloadModels)

----------------------------------------------------------------------------
(* Properties.                                                             *)

InSession == {r \in Requests : pc[r] \notin {"idle", "done"}}
Nested == {r \in Requests : pc[r] \in {"nested", "inferring", "leaving"}}

(* Every path out of a handler or a thread closes the session it opened.    *)
SessionsExact == active = Cardinality(InSession) + Cardinality(Nested)

(* Accepted uploads, queued work and running inference keep the models:      *)
(* whoever unloads found no session and lets none start, so it never waits   *)
(* for the GPU lock with the state lock, and with it the event loop, in hand. *)
ResidentInUse == unloading # "no" => InSession = {} /\ gpu = Nobody

(* The models are counted as used by those who use them, and then stay.      *)
HeldWhileUsed == SessionsExact /\ ResidentInUse

(* Eviction is for models nobody asked for during a whole idle period: when  *)
(* one timer evicts, no younger one is still counting.                      *)
FullIdlePeriod == unloading = "evict" => counting = {}

(* Models that are loaded and not in use have a timer on its way to them,    *)
(* or are gone with the engine that is closed.                              *)
IdleModelsWatched ==
  (active = 0 /\ unloading = "no" /\ loaded # {}) =>
    /\ ~closed
    /\ Evicts => generation \in counting \cup due

(* Idle models go, unless a new request comes for them.                    *)
IdleModelsGo == (Evicts /\ loaded # {} /\ active = 0) ~> (loaded = {} \/ active > 0)

(* close is to let accepted work finish (its docstring, and the test that    *)
(* closes an engine with a request in the queue): no accepted request is    *)
(* turned away by the closed engine.                                       *)
AcceptedWorkFinishes == rejected = {}

=============================================================================
