----------------------------- MODULE BrowserRpc -----------------------------
(***************************************************************************)
(* How class BrowserDraftEngine (l0_draft_engine/browser_engine.py) gets    *)
(* its work done by a child process: one call at a time under a reentrant   *)
(* lock, requests on the child's stdin, responses from its stdout through a *)
(* queue and a reader thread, an absolute deadline per call.                *)
(*                                                                         *)
(* The child may die, close its stdin or never read it, say nothing, say     *)
(* things twice, late or wrong; what it labels with the ID of a request it   *)
(* has got, it means.                                                      *)
(***************************************************************************)
EXTENDS Integers, Sequences, FiniteSets

CONSTANTS
  Callers,       (* the threads that ask for something, once each           *)
  Startup,       (* the one that prepares before the server serves          *)
  Enhancers,     (* those that enhance, and take progress                   *)
  Nobody,
  MaxStarts,     (* bound on the child processes                            *)
  MaxPipe,       (* bound on the unread responses                           *)
  Deadline       (* BABEL_INFERENCE_RPC_SECONDS, in ticks                   *)

(* What Engines assumes of the constants.                                  *)
RpcAssumption ==
  /\ Startup \in Callers
  /\ Enhancers \subseteq Callers \ {Startup}
  /\ Nobody \notin Callers
  /\ MaxStarts \in Nat /\ MaxPipe \in Nat /\ Deadline \in Nat

VARIABLES
  closed,      (* _closed                                                   *)
  process,     (* _process by its number, 0 for None                        *)
  prepared,    (* _prepared                                                 *)
  responses,   (* _responses                                                *)
  started,     (* how many processes there have been                        *)
  alive,       (* those that run                                            *)
  deaf,        (* those of them that closed their stdin                     *)
  asked,       (* the requests written to _process                          *)
  proved,      (* those that passed the preflight of prepare                *)
  lock,        (* who holds _lock                                           *)
  stage,       (* where the holder is                                       *)
  left,        (* the ticks left to the deadline of its call                *)
  checked,     (* the process that prepare left the holder with             *)
  outcome      (* of each caller: the request whose result it got, or not    *)

childVars == <<started, alive, deaf, asked>>
vars == <<closed, process, prepared, responses, childVars, proved, lock, stage, left,
          checked, outcome>>

Id(c, operation) == <<c, operation>>
Ids == Callers \X {"prepare", "work"}
Processes == 1..MaxStarts

(* No ID is for a line that is no JSON, for the end of the output, and for a  *)
(* caller that has no outcome yet.                                         *)
NoId == <<Nobody, "none">>
Failed == <<Nobody, "failed">>

Message == [id : Ids \cup {NoId}, kind : {"progress", "error", "result"}]

TypeOK ==
  /\ closed \in BOOLEAN /\ prepared \in BOOLEAN
  /\ started \in 0..MaxStarts
  /\ process \in 0..started
  /\ alive \subseteq 1..started /\ deaf \subseteq alive
  /\ proved \subseteq 1..started
  /\ asked \subseteq Ids
  /\ responses \in Seq(Message)
  /\ lock \in Callers \cup {Nobody}
  /\ stage \in {"out", "start", "writePrepare", "prepare", "ready", "writeWork", "work"}
  /\ stage = "out" <=> lock = Nobody
  /\ left \in 0..Deadline
  /\ checked \in 0..started
  /\ outcome \in [Callers -> Ids \cup {NoId, Failed}]

Init ==
  /\ closed = FALSE /\ prepared = FALSE
  /\ process = 0 /\ started = 0
  /\ alive = {} /\ deaf = {} /\ proved = {} /\ asked = {}
  /\ responses = <<>>
  /\ lock = Nobody /\ stage = "out" /\ left = 0 /\ checked = 0
  /\ outcome = [c \in Callers |-> NoId]

----------------------------------------------------------------------------
(* The methods, under the lock.                                            *)

(* Mutant: the new process inherits the proof of the old one.               *)
SpawnPrepared ==
  /\ started < MaxStarts
  /\ started' = started + 1 /\ process' = started + 1
  /\ alive' = alive \cup {started + 1}
  /\ asked' = {} /\ responses' = <<>>
  /\ UNCHANGED <<prepared, deaf>>

(* Mutant: the new process inherits the queue of the old one.               *)
SpawnOnOldQueue ==
  /\ started < MaxStarts
  /\ started' = started + 1 /\ process' = started + 1
  /\ alive' = alive \cup {started + 1}
  /\ asked' = {} /\ prepared' = FALSE
  /\ UNCHANGED <<responses, deaf>>

(* A fresh queue, and a process that has proved nothing yet.                *)
Spawn ==
  /\ started < MaxStarts
  /\ started' = started + 1 /\ process' = started + 1
  /\ alive' = alive \cup {started + 1}
  /\ asked' = {} /\ responses' = <<>> /\ prepared' = FALSE
  /\ UNCHANGED deaf

(* Mutant: a process is started without a look at the one there is.         *)
StartAnother == ~closed /\ Spawn

(* _start.                                                                 *)
Start ==
  /\ ~closed
  /\ \/ process \in alive /\ UNCHANGED <<process, prepared, responses, childVars>>
     \/ process \notin alive /\ Spawn

(* It raises when the engine is closed, and when there is no worker or Popen *)
(* fails, by when the queue and _prepared are new.                          *)
StartFails ==
  /\ closed \/ process \notin alive
  /\ \/ UNCHANGED <<prepared, responses>>
     \/ ~closed /\ prepared' = FALSE /\ responses' = <<>>
  /\ UNCHANGED <<process, childVars>>

(* Mutant: the process is dropped, and neither told nor waited for.         *)
Drop ==
  /\ process' = 0
  /\ prepared' = FALSE
  /\ asked' = {}
  /\ UNCHANGED <<started, alive, deaf>>

(* _stop: what has not ended by itself is killed, and waited for.           *)
Stop ==
  /\ process' = 0
  /\ prepared' = FALSE
  /\ alive' = alive \ {process} /\ deaf' = deaf \ {process}
  /\ asked' = {}
  /\ UNCHANGED started

(* Of a process that reads no more, or has ended: closing its stdin raises,  *)
(* too, and it is let go as it is.                                         *)
StopDeaf ==
  /\ process' = 0
  /\ prepared' = FALSE
  /\ asked' = {}
  /\ UNCHANGED <<started, alive, deaf>>

Return(c, result) ==
  /\ lock = c
  /\ lock' = Nobody /\ stage' = "out" /\ left' = 0
  /\ outcome' = [outcome EXCEPT ![c] = result]
  /\ UNCHANGED <<closed, checked>>

Serving == outcome[Startup] = Id(Startup, "prepare")

Comes(c) == lock = Nobody /\ outcome[c] = NoId /\ (c = Startup \/ Serving)

(* prepare, up to its own _call: one that finds the process prepared is over. *)
Enter(c) ==
  /\ Comes(c)
  /\ Start
  /\ lock' = c
  /\ stage' = IF prepared' THEN "ready" ELSE "start"
  /\ checked' = process'
  /\ UNCHANGED <<closed, proved, left, outcome>>

TurnedAway(c) ==
  /\ Comes(c)
  /\ StartFails
  /\ outcome' = [outcome EXCEPT ![c] = Failed]
  /\ UNCHANGED <<closed, proved, lock, stage, left, checked>>

Operation == IF stage \in {"start", "writePrepare", "prepare"} THEN "prepare" ELSE "work"

(* _call up to its write; it starts a process if that of prepare died.       *)
Call(c) ==
  /\ lock = c /\ stage \in {"start", "ready"}
  /\ Start
  /\ stage' = IF stage = "start" THEN "writePrepare" ELSE "writeWork"
  /\ left' = Deadline
  /\ UNCHANGED <<closed, proved, lock, checked, outcome>>

(* No process can be started, or (DraftInputError) the caller wants another  *)
(* model than the one prepared.                                            *)
CallFails(c) ==
  /\ stage \in {"start", "ready"}
  /\ \/ StartFails
     \/ /\ stage = "ready" /\ c \in Enhancers
        /\ UNCHANGED <<process, prepared, responses, childVars>>
  /\ Return(c, Failed)
  /\ UNCHANGED proved

Writes == stage \in {"writePrepare", "writeWork"}
Listens == process \in alive \ deaf

(* The process has taken in so much of the request that the flush returns,   *)
(* which may be never: the deadline runs, and nobody looks at it.           *)
Written(c) ==
  /\ lock = c /\ Writes /\ Listens
  /\ asked' = asked \cup {Id(c, Operation)}
  /\ stage' = Operation
  /\ UNCHANGED <<closed, process, prepared, responses, started, alive, deaf, proved, lock,
                 left, checked, outcome>>

WriteFails(c) ==
  /\ Writes /\ ~Listens
  /\ StopDeaf
  /\ Return(c, Failed)
  /\ UNCHANGED <<responses, proved>>

----------------------------------------------------------------------------
(* The wait of _call for the next response.                                *)

Waits(c) == lock = c /\ stage \in {"prepare", "work"}

(* Mutant: a response is taken for whatever is waited for.                  *)
OwnIfLabelled(c) == Head(responses).id # NoId

Own(c) == Head(responses).id = Id(c, Operation)

(* queue.get, which has no time left at the deadline.                       *)
Get(c) == Waits(c) /\ left > 0 /\ responses # <<>> /\ responses' = Tail(responses)

GetOwn(c, kind) == Get(c) /\ Own(c) /\ Head(responses).kind = kind

(* Mutant: a sign of life is given time.                                   *)
ProgressRenews(c) ==
  /\ GetOwn(c, "progress") /\ stage = "work" /\ c \in Enhancers
  /\ left' = Deadline
  /\ UNCHANGED <<closed, process, prepared, childVars, proved, lock, stage,
                 checked, outcome>>

Progress(c) ==
  /\ GetOwn(c, "progress") /\ stage = "work" /\ c \in Enhancers
  /\ UNCHANGED <<closed, process, prepared, childVars, proved, lock, stage, left,
                 checked, outcome>>

(* The rest of prepare: both capabilities ran on WebGPU.                    *)
Prepared(c) ==
  /\ stage = "prepare" /\ GetOwn(c, "result")
  /\ prepared' = TRUE
  /\ proved' = proved \cup {process}
  /\ UNCHANGED <<process, childVars>>
  /\ \/ c = Startup /\ Return(c, Id(c, "prepare"))
     \/ /\ c # Startup
        /\ stage' = "ready"
        /\ checked' = process
        /\ left' = 0
        /\ UNCHANGED <<closed, lock, outcome>>

Answered(c) ==
  /\ stage = "work" /\ GetOwn(c, "result")
  /\ Return(c, Head(responses).id)
  /\ UNCHANGED <<process, prepared, childVars, proved>>

(* What costs the caller its answer and not the process: an error reported,  *)
(* a transcript or draft its schema refuses, a callback that raises because  *)
(* the event loop is gone.                                                 *)
Fails(c) ==
  /\ \/ GetOwn(c, "error")
     \/ stage = "work" /\ c \notin Enhancers /\ GetOwn(c, "result")
     \/ stage = "work" /\ c \in Enhancers /\ GetOwn(c, "progress")
  /\ Return(c, Failed)
  /\ UNCHANGED <<process, prepared, childVars, proved>>

Timeout(c) ==
  /\ Waits(c) /\ left = 0
  /\ Stop
  /\ Return(c, Failed)
  /\ UNCHANGED <<responses, proved>>

(* Whatever is not this caller's, not expected, or not valid.               *)
Breach(c) ==
  /\ Get(c)
  /\ ~(Own(c) /\ Head(responses).kind = "error")
  /\ Stop
  /\ Return(c, Failed)
  /\ UNCHANGED proved

Close ==
  /\ lock = Nobody /\ ~closed /\ outcome[Startup] # NoId
  /\ closed' = TRUE
  /\ Stop
  /\ UNCHANGED <<responses, proved, lock, stage, left, checked, outcome>>

----------------------------------------------------------------------------
(* The process and the clock.                                              *)

Emit ==
  /\ process \in alive /\ Len(responses) < MaxPipe
  /\ \E m \in [id : asked, kind : {"progress", "error", "result"}]
          \cup {[id |-> NoId, kind |-> "error"]} :
       responses' = Append(responses, m)
  /\ UNCHANGED <<closed, process, prepared, childVars, proved, lock, stage, left,
                 checked, outcome>>

Die(g) ==
  /\ g \in alive
  /\ alive' = alive \ {g} /\ deaf' = deaf \ {g}
  /\ responses' = IF g = process THEN Append(responses, [id |-> NoId, kind |-> "error"])
                                 ELSE responses
  /\ UNCHANGED <<closed, process, prepared, started, asked, proved, lock, stage, left,
                 checked, outcome>>

Deafen ==
  /\ process \in alive \ deaf
  /\ deaf' = deaf \cup {process}
  /\ UNCHANGED <<closed, process, prepared, responses, started, alive, asked, proved, lock,
                 stage, left,
                 checked, outcome>>

Tick ==
  /\ left > 0
  /\ left' = left - 1
  /\ UNCHANGED <<closed, process, prepared, responses, childVars, proved, lock, stage,
                 checked, outcome>>

Child == Emit \/ Deafen \/ \E g \in Processes : Die(g)

Step(c) ==
  \/ Enter(c) \/ TurnedAway(c)
  \/ Call(c) \/ CallFails(c) \/ Written(c) \/ WriteFails(c)
  \/ Progress(c) \/ Prepared(c) \/ Answered(c)
  \/ Fails(c) \/ Timeout(c) \/ Breach(c)

Next ==
  \/ \E c \in Callers : Step(c)
  \/ Close
  \/ Child
  \/ Tick

Spec == Init /\ [][Next]_vars

(* Time passes, and the holder of the lock goes on when it need not wait.    *)
(* Nothing is assumed of the process, nor then of Written.                   *)
HolderGoesOn ==
  \E c \in Callers : Timeout(c) \/ Call(c) \/ CallFails(c) \/ WriteFails(c)

FairSpec == Spec /\ WF_vars(Tick) /\ WF_vars(HolderGoesOn)

----------------------------------------------------------------------------
(* Properties.                                                             *)

(* A result is that of the request its caller made, whatever else is in the  *)
(* pipe.                                                                   *)
ResultIsOwn ==
  \A c \in Callers : outcome[c] \in Ids => outcome[c][1] = c

(* A process is blamed, and stopped, for what it said itself: no line of an  *)
(* earlier process is read as its.                                         *)
BlamedForItsOwn ==
  stage \in {"prepare", "work"} =>
    \A i \in 1..Len(responses) : responses[i].id \in asked \cup {NoId}

OwnAnswers == ResultIsOwn /\ BlamedForItsOwn

(* Work goes to a process that passed the preflight; only if the one this    *)
(* call found ready has died since may another one get it.                  *)
WorkOnProved ==
  /\ prepared => process \in proved
  /\ stage \in {"writeWork", "work"} => process \in proved \/ checked \notin alive

(* Of the processes there have been, none that still listens is forgotten:   *)
(* two never share the profile, and close leaves none.                      *)
NoneLeftBehind == alive \ deaf \subseteq {process} /\ (closed => process = 0)

(* However much progress a process reports and whatever it leaves unsaid,    *)
(* the lock comes back for the next caller, and for close; but not from a    *)
(* write to a process that lives and never takes it in, which has no end.    *)
LockComesBack == []<>(lock = Nobody) \/ <>[](Writes /\ Listens)

=============================================================================
