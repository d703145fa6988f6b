-------------------------- MODULE Engines_proofs --------------------------
(***************************************************************************)
(* Theorems about the engine of the app, whichever it is: first about the     *)
(* residency of models, for any number of requests and any number of calls   *)
(* of close; then about the calls of a browser, for any callers, any number  *)
(* of processes, any pipe and any deadline; then about the engine that is    *)
(* the one or the other.                                                   *)
(***************************************************************************)
EXTENDS Engines, FiniteSetTheorems, TLAPS

----------------------------------------------------------------------------
(* The engine that runs the models in its own process: ModelResidency.      *)

(* Only the latest timer counts down, only while nobody has a session, and a *)
(* timer that is due when a session starts is of an older generation.        *)
TimerShape ==
  /\ counting \subseteq idleTimer
  /\ idleTimer \subseteq {generation}
  /\ counting \cap due = {}
  /\ active > 0 => idleTimer = {} /\ generation \notin due

(* Who unloads found no session; who holds the GPU lock infers.             *)
LockShape ==
  /\ unloading # "no" => active = 0
  /\ unloading = "evict" => counting = {}
  /\ \A r \in Requests : gpu = r => pc[r] = "inferring"

IInv ==
  /\ TypeOK
  /\ SessionsExact
  /\ TimerShape
  /\ LockShape
  /\ IdleModelsWatched

----------------------------------------------------------------------------
(* Counting sessions.                                                      *)

LEMMA Counts ==
  /\ IsFiniteSet(InSession) /\ IsFiniteSet(Nested)
  /\ Cardinality(InSession) \in Nat /\ Cardinality(Nested) \in Nat
  /\ Nested \subseteq InSession
  /\ Cardinality(InSession) = 0 <=> InSession = {}
  /\ Cardinality(Nested) = 0 <=> Nested = {}
<1>1. IsFiniteSet(InSession) /\ IsFiniteSet(Nested)
  BY FS_Subset, ResidencyAssumption DEF InSession, Nested
<1> QED  BY <1>1, FS_CardinalityType, FS_EmptySet DEF InSession, Nested

(* Nobody has a session exactly when the count is zero.                     *)
LEMMA ZeroIsNobody ==
  ASSUME TypeOK, SessionsExact
  PROVE  active = 0 <=> InSession = {}
<1>1. /\ Cardinality(InSession) \in Nat /\ Cardinality(Nested) \in Nat
      /\ Cardinality(InSession) = 0 <=> InSession = {}
      /\ Cardinality(Nested) = 0 <=> Nested = {}
      /\ Nested \subseteq InSession
  BY Counts
<1> QED  BY <1>1 DEF SessionsExact

(* Opening and closing the two sessions, and moving inside them.            *)
LEMMA MoveCounts ==
  ASSUME TypeOK, SessionsExact, NEW r \in Requests, NEW to \in Places,
         pc' = [pc EXCEPT ![r] = to]
  PROVE  /\ pc[r] = "idle" /\ to = "accepted" /\ active' = active + 1 => SessionsExact'
         /\ pc[r] = "idle" /\ to = "done" /\ active' = active => SessionsExact'
         /\ pc[r] = "accepted" /\ to = "through" /\ active' = active => SessionsExact'
         /\ pc[r] = "accepted" /\ to = "nested" /\ active' = active + 1 => SessionsExact'
         /\ pc[r] \in {"nested", "inferring"} /\ to \in {"inferring", "leaving"}
              /\ active' = active => SessionsExact'
         /\ pc[r] = "leaving" /\ to = "through" /\ active' = active - 1 => SessionsExact'
         /\ pc[r] = "through" /\ to = "done" /\ active' = active - 1 => SessionsExact'
         /\ pc[r] \notin {"idle", "done"} => active > 0
         /\ pc[r] \in {"nested", "inferring", "leaving"} => active > 1
<1> DEFINE s == InSession
           n == Nested
           cs == Cardinality(s)
           cn == Cardinality(n)
<1>0. /\ IsFiniteSet(s) /\ IsFiniteSet(n) /\ cs \in Nat /\ cn \in Nat
      /\ (cs = 0 <=> s = {}) /\ (cn = 0 <=> n = {}) /\ active = cs + cn
  BY Counts DEF SessionsExact
<1>1. /\ Cardinality(s \cup {r}) = IF r \in s THEN cs ELSE cs + 1
      /\ Cardinality(s \ {r}) = IF r \in s THEN cs - 1 ELSE cs
      /\ Cardinality(n \cup {r}) = IF r \in n THEN cn ELSE cn + 1
      /\ Cardinality(n \ {r}) = IF r \in n THEN cn - 1 ELSE cn
  BY <1>0, FS_AddElement, FS_RemoveElement
<1>2. /\ r \in s <=> pc[r] \notin {"idle", "done"}
      /\ r \in n <=> pc[r] \in {"nested", "inferring", "leaving"}
  BY DEF InSession, Nested
<1>3. /\ InSession' = IF to \in {"idle", "done"} THEN s \ {r} ELSE s \cup {r}
      /\ Nested' = IF to \in {"nested", "inferring", "leaving"} THEN n \cup {r} ELSE n \ {r}
  BY DEF InSession, Nested, TypeOK, Places
<1>4. /\ Cardinality(InSession') = IF to \in {"idle", "done"} THEN Cardinality(s \ {r})
                                                              ELSE Cardinality(s \cup {r})
      /\ Cardinality(Nested') = IF to \in {"nested", "inferring", "leaving"}
                                  THEN Cardinality(n \cup {r}) ELSE Cardinality(n \ {r})
  BY <1>3
<1>5. r \in s => cs > 0
  BY <1>0
<1>6. r \in n => cn > 0
  BY <1>0
<1> HIDE DEF cs, cn, s, n
<1> QED  BY <1>0, <1>1, <1>2, <1>4, <1>5, <1>6 DEF SessionsExact

----------------------------------------------------------------------------
THEOREM InitIInv == Init => IInv
<1> SUFFICES ASSUME Init PROVE IInv
  OBVIOUS
<1>1. InSession = {} /\ Nested = {}
  BY DEF Init, InSession, Nested
<1>2. SessionsExact
  BY <1>1, FS_EmptySet DEF Init, SessionsExact
<1>3. TypeOK
  BY DEF Init, TypeOK, Places
<1> QED
  BY <1>2, <1>3, ResidencyAssumption
  DEF Init, IInv, TimerShape, LockShape, IdleModelsWatched

----------------------------------------------------------------------------
(* The critical sections.                                                  *)

(* A session opens: the timer is out of the way.                           *)
LEMMA StartKeeps ==
  ASSUME IInv, StartSession, UNCHANGED <<closed, loaded, unloading, gpu, rejected>>
  PROVE  /\ active' = active + 1 /\ active' \in Nat
         /\ generation' \in Nat
         /\ idleTimer' \in SUBSET (0..generation')
         /\ counting' \in SUBSET (0..generation')
         /\ due' \in SUBSET (0..generation')
         /\ TimerShape' /\ IdleModelsWatched'
         /\ unloading = "no"
<1>1. /\ active \in Nat /\ generation \in Nat /\ due \in SUBSET (0..generation)
      /\ counting \subseteq idleTimer
  BY DEF IInv, TypeOK, TimerShape
<1>2. /\ active' = active + 1 /\ generation' = generation + 1
      /\ counting' = {} /\ idleTimer' = {} /\ due' = due /\ unloading = "no"
  BY <1>1 DEF StartSession, CancelIdleTimer, StateLockFree
<1>3. due' \in SUBSET (0..generation') /\ generation' \notin due'
  BY <1>1, <1>2
<1>4. active' > 0
  BY <1>1, <1>2
<1> QED  BY <1>1, <1>2, <1>3, <1>4 DEF TimerShape, IdleModelsWatched

(* A session closes.                                                       *)
LEMMA EndKeeps ==
  ASSUME IInv, EndSession, active > 0, UNCHANGED <<closed, loaded, gpu, rejected>>
  PROVE  /\ active' = active - 1 /\ active' \in Nat
         /\ generation' \in Nat
         /\ idleTimer' \in SUBSET (0..generation')
         /\ counting' \in SUBSET (0..generation')
         /\ due' \in SUBSET (0..generation')
         /\ unloading' \in {"no", "exit"}
         /\ unloading' # "no" => active' = 0
         /\ TimerShape' /\ IdleModelsWatched'
<1>1. /\ active \in Nat /\ generation \in Nat /\ due \in SUBSET (0..generation)
      /\ counting = {} /\ idleTimer = {} /\ generation \notin due
  BY DEF IInv, TypeOK, TimerShape
<1>2. active' = active - 1 /\ active' \in Nat /\ UNCHANGED <<generation, due>> /\ unloading = "no"
  BY <1>1 DEF EndSession, StateLockFree
<1>3. generation \in 0..generation
  BY <1>1
<1>4. CASE active' = 0 /\ closed /\ unloading' = "exit" /\ UNCHANGED <<idleTimer, counting>>
  BY <1>1, <1>2, <1>4 DEF TimerShape, IdleModelsWatched
<1>5. CASE /\ active' = 0 /\ ~closed /\ Evicts /\ loaded # {}
           /\ idleTimer' = {generation} /\ counting' = counting \cup {generation}
           /\ UNCHANGED unloading
  <2>1. counting' = {generation} /\ idleTimer' = {generation}
    BY <1>1, <1>5
  <2>2. TimerShape'
    BY <1>1, <1>2, <1>5, <2>1 DEF TimerShape
  <2> QED  BY <1>1, <1>2, <1>3, <1>5, <2>1, <2>2 DEF IdleModelsWatched
<1>6. CASE /\ active' > 0 \/ (~closed /\ (~Evicts \/ loaded = {}))
           /\ UNCHANGED <<idleTimer, counting, unloading>>
  <2>1. active' > 0 => active' # 0
    OBVIOUS
  <2> QED  BY <1>1, <1>2, <1>6, <2>1 DEF TimerShape, IdleModelsWatched
<1> QED  BY <1>4, <1>5, <1>6 DEF EndSession

----------------------------------------------------------------------------
(* The steps.                                                              *)

LEMMA StepKeeps ==
  ASSUME IInv, NEW r \in Requests, Step(r)
  PROVE  IInv'
<1>0. /\ TypeOK /\ SessionsExact /\ TimerShape /\ LockShape /\ IdleModelsWatched
      /\ pc \in [Requests -> Places] /\ Nobody \notin Requests
  BY ResidencyAssumption DEF IInv, TypeOK
<1>1. CASE Accept(r) \/ StartNested(r)
  <2>1. /\ StartSession /\ UNCHANGED <<closed, loaded, unloading, gpu, rejected>>
        /\ \/ Goto(r, "idle", "accepted")
           \/ Goto(r, "accepted", "nested")
    BY <1>1 DEF Accept, StartNested
  <2>2. /\ active' = active + 1 /\ active' \in Nat
        /\ generation' \in Nat
        /\ idleTimer' \in SUBSET (0..generation')
        /\ counting' \in SUBSET (0..generation')
        /\ due' \in SUBSET (0..generation')
        /\ TimerShape' /\ IdleModelsWatched'
        /\ unloading = "no"
    BY <2>1, StartKeeps
  <2>3. SessionsExact'
    <3>1. CASE Goto(r, "idle", "accepted")
      BY <3>1, <2>2, <1>0, MoveCounts DEF Goto, Places
    <3>2. CASE Goto(r, "accepted", "nested")
      BY <3>2, <2>2, <1>0, MoveCounts DEF Goto, Places
    <3> QED  BY <2>1, <3>1, <3>2
  <2>4. pc' \in [Requests -> Places] /\ LockShape'
    BY <1>0, <2>1, <2>2 DEF Goto, Places, LockShape
  <2>5. TypeOK'
    BY <1>0, <2>1, <2>2, <2>4 DEF TypeOK
  <2> QED  BY <2>2, <2>3, <2>4, <2>5 DEF IInv
<1>2. CASE EndNested(r) \/ Leave(r)
  <2>1. /\ EndSession /\ UNCHANGED <<closed, loaded, gpu, rejected>>
        /\ \/ Goto(r, "leaving", "through")
           \/ Goto(r, "through", "done")
    BY <1>2 DEF EndNested, Leave
  <2>2. active > 0
    <3>1. "through" \in Places /\ "done" \in Places
      BY DEF Places
    <3>2. CASE Goto(r, "leaving", "through")
      BY <3>1, <3>2, <1>0, MoveCounts DEF Goto
    <3>3. CASE Goto(r, "through", "done")
      BY <3>1, <3>3, <1>0, MoveCounts DEF Goto
    <3> QED  BY <2>1, <3>2, <3>3
  <2>3. /\ active' = active - 1 /\ active' \in Nat
        /\ generation' \in Nat
        /\ idleTimer' \in SUBSET (0..generation')
        /\ counting' \in SUBSET (0..generation')
        /\ due' \in SUBSET (0..generation')
        /\ unloading' \in {"no", "exit"}
        /\ unloading' # "no" => active' = 0
        /\ TimerShape' /\ IdleModelsWatched'
    BY <2>1, <2>2, EndKeeps
  <2>4. SessionsExact'
    <3>1. CASE Goto(r, "leaving", "through")
      BY <3>1, <2>3, <1>0, MoveCounts DEF Goto, Places
    <3>2. CASE Goto(r, "through", "done")
      BY <3>2, <2>3, <1>0, MoveCounts DEF Goto, Places
    <3> QED  BY <2>1, <3>1, <3>2
  <2>5. pc' \in [Requests -> Places] /\ LockShape'
    BY <1>0, <2>1, <2>3 DEF Goto, Places, LockShape
  <2>6. TypeOK'
    BY <1>0, <2>1, <2>3, <2>5 DEF TypeOK
  <2> QED  BY <2>3, <2>4, <2>5, <2>6 DEF IInv
<1>3. CASE Refuse(r) \/ GiveUp(r) \/ NestedRefused(r)
  <2>1. /\ UNCHANGED <<active, closed, idleTimer, generation, counting, due, loaded,
                       unloading, gpu>>
        /\ rejected' \in SUBSET Requests
        /\ Goto(r, "idle", "done") \/ Goto(r, "accepted", "through")
    BY <1>0, <1>3 DEF Refuse, GiveUp, NestedRefused, timerVars, TypeOK
  <2>2. SessionsExact'
    <3>1. CASE Goto(r, "idle", "done")
      BY <3>1, <2>1, <1>0, MoveCounts DEF Goto, Places
    <3>2. CASE Goto(r, "accepted", "through")
      BY <3>2, <2>1, <1>0, MoveCounts DEF Goto, Places
    <3> QED  BY <2>1, <3>1, <3>2
  <2>3. pc' \in [Requests -> Places] /\ LockShape'
    BY <1>0, <2>1 DEF Goto, Places, LockShape
  <2>4. TypeOK' /\ TimerShape' /\ IdleModelsWatched'
    BY <1>0, <2>1, <2>3 DEF TypeOK, TimerShape, IdleModelsWatched
  <2> QED  BY <2>2, <2>3, <2>4 DEF IInv
<1>4. CASE TakeGpu(r) \/ EndInference(r)
  <2>1. /\ UNCHANGED <<active, closed, idleTimer, generation, counting, due, loaded,
                       unloading, rejected>>
        /\ \/ Goto(r, "nested", "inferring") /\ gpu = Nobody /\ gpu' = r
           \/ Goto(r, "inferring", "leaving") /\ gpu' = Nobody
    BY <1>4 DEF TakeGpu, EndInference, timerVars
  <2>2. SessionsExact'
    <3>1. CASE Goto(r, "nested", "inferring")
      BY <3>1, <2>1, <1>0, MoveCounts DEF Goto, Places
    <3>2. CASE Goto(r, "inferring", "leaving")
      BY <3>2, <2>1, <1>0, MoveCounts DEF Goto, Places
    <3> QED  BY <2>1, <3>1, <3>2
  <2>3. pc' \in [Requests -> Places] /\ LockShape'
    BY <1>0, <2>1 DEF Goto, Places, LockShape
  <2>4. TypeOK' /\ TimerShape' /\ IdleModelsWatched'
    BY <1>0, <2>1, <2>3 DEF TypeOK, TimerShape, IdleModelsWatched
  <2> QED  BY <2>2, <2>3, <2>4 DEF IInv
<1>5. CASE Load(r)
  <2>1. /\ UNCHANGED <<active, closed, idleTimer, generation, counting, due, unloading, gpu,
                       pc, rejected>>
        /\ loaded' = loaded \cup Needs[r] /\ pc[r] = "inferring"
    BY <1>5 DEF Load, timerVars
  <2>2. active > 0
    <3>1. pc[r] \in Places /\ pc = [pc EXCEPT ![r] = pc[r]] /\ r \in InSession
      BY <1>0, <2>1 DEF InSession
    <3>2. active # 0 /\ active \in Nat
      BY <1>0, <3>1, ZeroIsNobody DEF TypeOK
    <3> QED  BY <3>2
  <2>3. loaded' \in SUBSET Models
    BY <1>0, <2>1, ResidencyAssumption DEF TypeOK
  <2>4. IdleModelsWatched'
    BY <1>0, <2>1, <2>2 DEF IdleModelsWatched, TypeOK
  <2> QED  BY <1>0, <2>1, <2>3, <2>4 DEF IInv, TypeOK, SessionsExact, InSession, Nested,
                                         TimerShape, LockShape
<1> QED  BY <1>1, <1>2, <1>3, <1>4, <1>5 DEF Step

LEMMA ElapseKeeps ==
  ASSUME IInv, NEW g \in counting, Elapse(g)
  PROVE  IInv'
<1>1. /\ UNCHANGED <<active, closed, idleTimer, generation, loaded, unloading, gpu, pc, rejected>>
      /\ counting' = counting \ {g} /\ due' = due \cup {g}
  BY DEF Elapse
<1>2. g = generation /\ counting = {g} /\ g \in 0..generation /\ ~(active > 0)
  BY DEF IInv, TimerShape, TypeOK
<1> QED  BY <1>1, <1>2 DEF IInv, TypeOK, SessionsExact, InSession, Nested, TimerShape,
                           LockShape, IdleModelsWatched

LEMMA EvictKeeps ==
  ASSUME IInv, NEW g \in due, Evict(g)
  PROVE  IInv'
<1>1. /\ UNCHANGED <<active, closed, generation, counting, loaded, gpu, pc, rejected>>
      /\ due' = due \ {g} /\ unloading = "no"
  BY DEF Evict, StateLockFree
<1>2. CASE (closed \/ active > 0 \/ g # generation) /\ UNCHANGED <<idleTimer, unloading>>
  <2>1. IdleModelsWatched'
    BY <1>1, <1>2 DEF IInv, IdleModelsWatched, TypeOK
  <2> QED  BY <1>1, <1>2, <2>1 DEF IInv, TypeOK, SessionsExact, InSession, Nested, TimerShape,
                                   LockShape
<1>3. CASE /\ ~(closed \/ active > 0 \/ g # generation)
           /\ idleTimer' = {} /\ unloading' = "evict"
  <2>1. active = 0 /\ counting = {}
    BY <1>3 DEF IInv, TypeOK, TimerShape
  <2> QED  BY <1>1, <1>3, <2>1 DEF IInv, TypeOK, SessionsExact, InSession, Nested, TimerShape,
                                   LockShape, IdleModelsWatched
<1> QED  BY <1>2, <1>3 DEF Evict

LEMMA CloseKeeps ==
  ASSUME IInv, Close
  PROVE  IInv'
<1>1. /\ active \in Nat /\ generation \in Nat /\ due \in SUBSET (0..generation)
      /\ counting \subseteq idleTimer
  BY DEF IInv, TypeOK, TimerShape
<1>2. /\ generation' = generation + 1 /\ closed' = TRUE
      /\ counting' = {} /\ idleTimer' = {} /\ due' = due /\ unloading = "no"
      /\ unloading' = (IF active = 0 THEN "close" ELSE "no")
      /\ UNCHANGED <<active, loaded, gpu, pc, rejected>>
  BY <1>1 DEF Close, CancelIdleTimer, StateLockFree
<1>3. due' \in SUBSET (0..generation') /\ generation' \notin due' /\ generation' \in Nat
  BY <1>1, <1>2
<1>4. TypeOK'
  BY <1>2, <1>3 DEF IInv, TypeOK
<1>5. SessionsExact'
  BY <1>2 DEF IInv, SessionsExact, InSession, Nested
<1> QED  BY <1>2, <1>3, <1>4, <1>5 DEF IInv, TimerShape, LockShape, IdleModelsWatched

LEMMA UnloadKeeps ==
  ASSUME IInv, UnloadModels
  PROVE  IInv'
<1>1. /\ UNCHANGED <<active, closed, idleTimer, generation, counting, due, gpu, pc, rejected>>
      /\ loaded' = {} /\ unloading' = "no"
  BY DEF UnloadModels, timerVars
<1> QED  BY <1>1 DEF IInv, TypeOK, SessionsExact, InSession, Nested, TimerShape, LockShape,
                     IdleModelsWatched

THEOREM Inductive == IInv /\ [Next]_vars => IInv'
<1> SUFFICES ASSUME IInv, [Next]_vars PROVE IInv'
  OBVIOUS
<1>1. ASSUME NEW r \in Requests, Step(r) PROVE IInv'
  BY <1>1, StepKeeps
<1>2. CASE Expire
  <2>1. ASSUME NEW g, Elapse(g) PROVE IInv'
    BY <2>1, ElapseKeeps DEF Elapse
  <2>2. ASSUME NEW g, Evict(g) PROVE IInv'
    BY <2>2, EvictKeeps DEF Evict
  <2> QED  BY <1>2, <2>1, <2>2 DEF Expire
<1>3. CASE UNCHANGED vars
  BY <1>3 DEF vars, IInv, TypeOK, SessionsExact, InSession, Nested, TimerShape, LockShape,
              IdleModelsWatched
<1> QED  BY <1>1, <1>2, <1>3, CloseKeeps, UnloadKeeps DEF Next

THEOREM Invariance == Spec => []IInv
BY InitIInv, Inductive, PTL DEF Spec

LEMMA UsersAreCounted == IInv => HeldWhileUsed
<1> SUFFICES ASSUME IInv PROVE HeldWhileUsed
  OBVIOUS
<1>1. unloading # "no" => InSession = {}
  BY ZeroIsNobody DEF IInv, LockShape
<1>2. unloading # "no" => gpu = Nobody
  BY <1>1 DEF IInv, LockShape, InSession, TypeOK
<1> QED  BY <1>1, <1>2 DEF IInv, ResidentInUse, HeldWhileUsed

(* The session count is exact and never negative, and the models stay while  *)
(* anybody has a session.                                                  *)
THEOREM ModelsStay == Spec => [](TypeOK /\ HeldWhileUsed)
<1>1. IInv => TypeOK
  BY DEF IInv
<1> QED  BY <1>1, UsersAreCounted, Invariance, PTL

(* They go after a full idle period and not before, or with the engine.      *)
THEOREM ModelsGo == Spec => [](FullIdlePeriod /\ IdleModelsWatched)
<1>1. IInv => FullIdlePeriod /\ IdleModelsWatched
  BY DEF IInv, LockShape, FullIdlePeriod
<1> QED  BY <1>1, Invariance, PTL

----------------------------------------------------------------------------
(* The engine that has a browser do the work: BrowserRpc.                  *)

(* Who waits for a response waits for a process.                            *)
WaitShape == stage \in {"prepare", "work"} => process # 0

(* Who is about to ask for work has found the process ready.                *)
ReadyShape == stage = "ready" => prepared /\ process = checked

(* The queue holds nothing but what answers requests to this process.        *)
PipeOwn ==
  process # 0 => \A i \in 1..Len(responses) : responses[i].id \in asked \cup {Rpc!NoId}

Shapes == WaitShape /\ ReadyShape /\ Rpc!WorkOnProved /\ Rpc!NoneLeftBehind

Flags == closed \in BOOLEAN /\ prepared \in BOOLEAN

Numbers ==
  /\ started \in 0..MaxStarts
  /\ process \in 0..started
  /\ alive \subseteq 1..started /\ deaf \subseteq alive
  /\ proved \subseteq 1..started
  /\ checked \in 0..started

QueueTyped == asked \subseteq Rpc!Ids /\ responses \in Seq(Rpc!Message)

HolderTyped ==
  /\ lock \in Callers \cup {Nobody}
  /\ stage \in {"out", "start", "writePrepare", "prepare", "ready", "writeWork", "work"}
  /\ stage = "out" <=> lock = Nobody
  /\ left \in 0..Deadline
  /\ outcome \in [Callers -> Rpc!Ids \cup {Rpc!NoId, Rpc!Failed}]

RpcInv == Rpc!TypeOK /\ Shapes /\ PipeOwn /\ Rpc!ResultIsOwn

----------------------------------------------------------------------------

LEMMA Messages ==
  ASSUME NEW s \in Seq(Rpc!Message), s # <<>>
  PROVE  /\ Head(s) \in Rpc!Message /\ Head(s) = s[1] /\ 1 \in 1..Len(s)
         /\ Tail(s) \in Seq(Rpc!Message)
         /\ Len(Tail(s)) = Len(s) - 1
         /\ \A i \in 1..Len(Tail(s)) : Tail(s)[i] = s[i + 1] /\ i + 1 \in 1..Len(s)
OBVIOUS

LEMMA EmptyQueue == <<>> \in Seq(Rpc!Message) /\ Len(<<>>) = 0
OBVIOUS

(* What _start leaves: the process that runs, or a new one.                 *)
LEMMA StartGives ==
  ASSUME Rpc!RpcAssumption, Numbers, Rpc!Start
  PROVE  /\ ~closed
         /\ started' \in 0..MaxStarts /\ process' \in 1..started'
         /\ alive' \subseteq 1..started' /\ deaf' \subseteq alive' /\ process' \in alive'
         /\ 1..started \subseteq 1..started' /\ 0..started \subseteq 0..started'
         /\ \/ /\ process \in alive /\ process' = process /\ responses' = responses
               /\ alive' = alive /\ deaf' = deaf /\ (prepared' <=> prepared)
               /\ asked' = asked
            \/ /\ process \notin alive /\ process' = started + 1 /\ responses' = <<>>
               /\ alive' = alive \cup {started + 1} /\ deaf' = deaf /\ ~prepared'
               /\ asked' = {}
<1>1. CASE process \in alive
  <2>1. /\ UNCHANGED <<process, prepared, responses, started, alive, deaf>>
        /\ asked' = asked /\ ~closed
    BY <1>1 DEF Rpc!Start, Rpc!Spawn, Rpc!childVars
  <2> QED  BY <1>1, <2>1 DEF Numbers
<1>2. CASE process \notin alive
  <2>1. /\ started < MaxStarts /\ started' = started + 1 /\ process' = started + 1
        /\ alive' = alive \cup {started + 1} /\ deaf' = deaf
        /\ asked' = {} /\ responses' = <<>> /\ ~prepared' /\ ~closed
    BY <1>2 DEF Rpc!Start, Rpc!Spawn
  <2>2. started' \in 0..MaxStarts /\ 1..started \subseteq 1..started' /\ 0..started \subseteq 0..started'
    BY <2>1 DEF Rpc!RpcAssumption, Numbers
  <2> QED  BY <1>2, <2>1, <2>2 DEF Numbers
<1> QED  BY <1>1, <1>2

LEMMA StartFailsGives ==
  ASSUME Rpc!StartFails
  PROVE  /\ UNCHANGED <<process, started, alive, deaf, asked>>
         /\ \/ (prepared' <=> prepared) /\ responses' = responses
            \/ ~closed /\ ~prepared' /\ responses' = <<>> /\ process \notin alive
BY DEF Rpc!StartFails, Rpc!childVars

LEMMA RpcNames ==
  /\ \A c \in Callers : Rpc!Id(c, "prepare") \in Rpc!Ids /\ Rpc!Id(c, "work") \in Rpc!Ids
  /\ [id |-> Rpc!NoId, kind |-> "error"] \in Rpc!Message
  /\ \A i \in Rpc!Ids, k \in {"progress", "error", "result"} : [id |-> i, kind |-> k] \in Rpc!Message
  /\ \A m \in Rpc!Message : m.id \in Rpc!Ids \cup {Rpc!NoId}
  /\ \A c \in Callers : Rpc!Id(c, Rpc!Operation) \in Rpc!Ids
BY DEF Rpc!Id, Rpc!Ids, Rpc!Message, Rpc!Operation

(* Types, in three parts.                                                  *)
LEMMA NumbersKeep ==
  ASSUME Rpc!RpcAssumption, WaitShape, Numbers, [Rpc!Next]_rpcVars
  PROVE  Numbers'
<1> USE DEF Rpc!RpcAssumption, Rpc!childVars, Numbers, WaitShape
<1>1. ASSUME NEW c \in Callers, Rpc!Enter(c) PROVE Numbers'
  BY <1>1, StartGives, EmptyQueue DEF Rpc!Enter, Rpc!Comes
<1>2. ASSUME NEW c \in Callers, Rpc!TurnedAway(c) PROVE Numbers'
  BY <1>2, StartFailsGives, EmptyQueue DEF Rpc!TurnedAway, Rpc!Comes
<1>3. ASSUME NEW c \in Callers, Rpc!Call(c) PROVE Numbers'
  BY <1>3, StartGives, EmptyQueue DEF Rpc!Call
<1>4. ASSUME NEW c \in Callers, Rpc!CallFails(c) PROVE Numbers'
  <2>1. CASE Rpc!StartFails
    BY <1>4, <2>1, StartFailsGives DEF Rpc!CallFails, Rpc!Return
  <2>2. CASE UNCHANGED <<process, prepared, responses, Rpc!childVars>>
    BY <1>4, <2>2 DEF Rpc!CallFails, Rpc!Return
  <2> QED  BY <1>4, <2>1, <2>2 DEF Rpc!CallFails
<1>5. ASSUME NEW c \in Callers, Rpc!Progress(c) PROVE Numbers'
  BY <1>5 DEF Rpc!Progress, Rpc!GetOwn, Rpc!Get, Rpc!Waits
<1>6. ASSUME NEW c \in Callers, Rpc!Prepared(c) PROVE Numbers'
  BY <1>6 DEF Rpc!Prepared, Rpc!GetOwn, Rpc!Get, Rpc!Waits, Rpc!Own, Rpc!Operation, Rpc!Return
<1>7. ASSUME NEW c \in Callers, Rpc!Answered(c) PROVE Numbers'
  BY <1>7 DEF Rpc!Answered, Rpc!GetOwn, Rpc!Get, Rpc!Waits, Rpc!Own, Rpc!Operation, Rpc!Return
<1>8. ASSUME NEW c \in Callers, Rpc!Fails(c) PROVE Numbers'
  BY <1>8 DEF Rpc!Fails, Rpc!GetOwn, Rpc!Get, Rpc!Waits, Rpc!Return
<1>9. ASSUME NEW c \in Callers, Rpc!Timeout(c) PROVE Numbers'
  BY <1>9 DEF Rpc!Timeout, Rpc!Waits, Rpc!Stop, Rpc!Return
<1>10. ASSUME NEW c \in Callers, Rpc!Breach(c) PROVE Numbers'
  BY <1>10 DEF Rpc!Breach, Rpc!Get, Rpc!Waits, Rpc!Stop, Rpc!Return
<1>11. CASE Rpc!Close
  BY <1>11 DEF Rpc!Close, Rpc!Stop
<1>12. CASE Rpc!Emit
  BY <1>12 DEF Rpc!Emit
<1>13. CASE Rpc!Deafen
  BY <1>13 DEF Rpc!Deafen
<1>14. CASE Rpc!Tick
  BY <1>14 DEF Rpc!Tick
<1>15. ASSUME NEW g \in Rpc!Processes, Rpc!Die(g) PROVE Numbers'
  BY <1>15 DEF Rpc!Die
<1>16. CASE UNCHANGED rpcVars
  BY <1>16 DEF rpcVars, Rpc!vars
<1>17. ASSUME NEW c \in Callers, Rpc!Written(c) PROVE Numbers'
  BY <1>17, RpcNames DEF Rpc!Written, Rpc!Writes, Rpc!Listens, Rpc!Operation
<1>18. ASSUME NEW c \in Callers, Rpc!WriteFails(c) PROVE Numbers'
  BY <1>18 DEF Rpc!WriteFails, Rpc!Writes, Rpc!StopDeaf, Rpc!Return
<1> QED
  BY <1>1, <1>2, <1>3, <1>4, <1>5, <1>6, <1>7, <1>8, <1>9, <1>10,
     <1>11, <1>12, <1>13, <1>14, <1>15, <1>16, <1>17, <1>18 DEF Rpc!Next, Rpc!Step, Rpc!Child

(* The two flags.                                                         *)
LEMMA FlagsKeep ==
  ASSUME Rpc!RpcAssumption, Flags, [Rpc!Next]_rpcVars
  PROVE  Flags'
<1> USE DEF Flags, Rpc!childVars
<1>1. ASSUME NEW c \in Callers, Rpc!Enter(c) PROVE Flags'
  BY <1>1 DEF Rpc!Enter, Rpc!Comes, Rpc!Start, Rpc!Spawn
<1>2. ASSUME NEW c \in Callers, Rpc!TurnedAway(c) PROVE Flags'
  BY <1>2 DEF Rpc!TurnedAway, Rpc!Comes, Rpc!StartFails
<1>3. ASSUME NEW c \in Callers, Rpc!Call(c) PROVE Flags'
  BY <1>3 DEF Rpc!Call, Rpc!Start, Rpc!Spawn
<1>4. ASSUME NEW c \in Callers, Rpc!CallFails(c) PROVE Flags'
  BY <1>4 DEF Rpc!CallFails, Rpc!StartFails, Rpc!Return
<1>5. ASSUME NEW c \in Callers, Rpc!Progress(c) PROVE Flags'
  BY <1>5 DEF Rpc!Progress, Rpc!GetOwn, Rpc!Get, Rpc!Waits
<1>6. ASSUME NEW c \in Callers, Rpc!Prepared(c) PROVE Flags'
  BY <1>6 DEF Rpc!Prepared, Rpc!GetOwn, Rpc!Get, Rpc!Waits, Rpc!Own, Rpc!Operation, Rpc!Return
<1>7. ASSUME NEW c \in Callers, Rpc!Answered(c) PROVE Flags'
  BY <1>7 DEF Rpc!Answered, Rpc!GetOwn, Rpc!Get, Rpc!Waits, Rpc!Own, Rpc!Operation, Rpc!Return
<1>8. ASSUME NEW c \in Callers, Rpc!Fails(c) PROVE Flags'
  BY <1>8 DEF Rpc!Fails, Rpc!GetOwn, Rpc!Get, Rpc!Waits, Rpc!Return
<1>9. ASSUME NEW c \in Callers, Rpc!Timeout(c) PROVE Flags'
  BY <1>9 DEF Rpc!Timeout, Rpc!Waits, Rpc!Stop, Rpc!Return
<1>10. ASSUME NEW c \in Callers, Rpc!Breach(c) PROVE Flags'
  BY <1>10 DEF Rpc!Breach, Rpc!Get, Rpc!Waits, Rpc!Stop, Rpc!Return
<1>11. CASE Rpc!Close
  BY <1>11 DEF Rpc!Close, Rpc!Stop
<1>12. CASE Rpc!Emit
  BY <1>12 DEF Rpc!Emit
<1>13. CASE Rpc!Deafen
  BY <1>13 DEF Rpc!Deafen
<1>14. CASE Rpc!Tick
  BY <1>14 DEF Rpc!Tick
<1>15. ASSUME NEW g \in Rpc!Processes, Rpc!Die(g) PROVE Flags'
  BY <1>15 DEF Rpc!Die
<1>16. CASE UNCHANGED rpcVars
  BY <1>16 DEF rpcVars, Rpc!vars
<1>17. ASSUME NEW c \in Callers, Rpc!Written(c) PROVE Flags'
  BY <1>17, RpcNames DEF Rpc!Written, Rpc!Writes, Rpc!Listens, Rpc!Operation
<1>18. ASSUME NEW c \in Callers, Rpc!WriteFails(c) PROVE Flags'
  BY <1>18 DEF Rpc!WriteFails, Rpc!Writes, Rpc!StopDeaf, Rpc!Return
<1> QED
  BY <1>1, <1>2, <1>3, <1>4, <1>5, <1>6, <1>7, <1>8, <1>9, <1>10,
     <1>11, <1>12, <1>13, <1>14, <1>15, <1>16, <1>17, <1>18 DEF Rpc!Next, Rpc!Step, Rpc!Child

(* The queue and what was asked.                                           *)
LEMMA QueueKeeps ==
  ASSUME Rpc!RpcAssumption, Numbers, QueueTyped, [Rpc!Next]_rpcVars
  PROVE  QueueTyped'
<1> USE DEF QueueTyped, Rpc!childVars
<1>1. ASSUME NEW c \in Callers, Rpc!Enter(c) PROVE QueueTyped'
  <2>1. Rpc!Start
    BY <1>1 DEF Rpc!Enter
  <2>2. /\ responses' = responses \/ responses' = <<>>
        /\ asked' \subseteq asked
    BY <2>1, StartGives
  <2> QED  BY <2>2, EmptyQueue
<1>2. ASSUME NEW c \in Callers, Rpc!TurnedAway(c) PROVE QueueTyped'
  BY <1>2, StartFailsGives, EmptyQueue DEF Rpc!TurnedAway, Rpc!Comes
<1>3. ASSUME NEW c \in Callers, Rpc!Call(c) PROVE QueueTyped'
  <2>1. Rpc!Start
    BY <1>3 DEF Rpc!Call
  <2>2. /\ responses' = responses \/ responses' = <<>>
        /\ asked' \subseteq asked
    BY <2>1, StartGives
  <2> QED  BY <2>2, EmptyQueue
<1>4. ASSUME NEW c \in Callers, Rpc!CallFails(c) PROVE QueueTyped'
  BY <1>4, StartFailsGives, EmptyQueue DEF Rpc!CallFails, Rpc!Return
<1>5. ASSUME NEW c \in Callers, Rpc!Progress(c) PROVE QueueTyped'
  BY <1>5, Messages DEF Rpc!Progress, Rpc!GetOwn, Rpc!Get, Rpc!Waits
<1>6. ASSUME NEW c \in Callers, Rpc!Prepared(c) PROVE QueueTyped'
  BY <1>6, Messages DEF Rpc!Prepared, Rpc!GetOwn, Rpc!Get, Rpc!Waits, Rpc!Own, Rpc!Operation, Rpc!Return
<1>7. ASSUME NEW c \in Callers, Rpc!Answered(c) PROVE QueueTyped'
  BY <1>7, Messages DEF Rpc!Answered, Rpc!GetOwn, Rpc!Get, Rpc!Waits, Rpc!Own, Rpc!Operation, Rpc!Return
<1>8. ASSUME NEW c \in Callers, Rpc!Fails(c) PROVE QueueTyped'
  BY <1>8, Messages DEF Rpc!Fails, Rpc!GetOwn, Rpc!Get, Rpc!Waits, Rpc!Return
<1>9. ASSUME NEW c \in Callers, Rpc!Timeout(c) PROVE QueueTyped'
  BY <1>9 DEF Rpc!Timeout, Rpc!Waits, Rpc!Stop, Rpc!Return
<1>10. ASSUME NEW c \in Callers, Rpc!Breach(c) PROVE QueueTyped'
  BY <1>10, Messages DEF Rpc!Breach, Rpc!Get, Rpc!Waits, Rpc!Stop, Rpc!Return
<1>11. CASE Rpc!Close
  BY <1>11 DEF Rpc!Close, Rpc!Stop
<1>12. CASE Rpc!Emit
  <2>1. PICK m \in [id : asked, kind : {"progress", "error", "result"}]
              \cup {[id |-> Rpc!NoId, kind |-> "error"]} : responses' = Append(responses, m)
    BY <1>12 DEF Rpc!Emit
  <2>2. m \in Rpc!Message
    BY <2>1, RpcNames DEF Rpc!Message
  <2>3. asked' = asked
    BY <1>12 DEF Rpc!Emit
  <2> QED  BY <2>1, <2>2, <2>3
<1>13. CASE Rpc!Deafen
  BY <1>13 DEF Rpc!Deafen
<1>14. CASE Rpc!Tick
  BY <1>14 DEF Rpc!Tick
<1>15. ASSUME NEW g \in Rpc!Processes, Rpc!Die(g) PROVE QueueTyped'
  BY <1>15, RpcNames DEF Rpc!Die
<1>16. CASE UNCHANGED rpcVars
  BY <1>16 DEF rpcVars, Rpc!vars
<1>17. ASSUME NEW c \in Callers, Rpc!Written(c) PROVE QueueTyped'
  BY <1>17, RpcNames DEF Rpc!Written, Rpc!Writes, Rpc!Listens, Rpc!Operation
<1>18. ASSUME NEW c \in Callers, Rpc!WriteFails(c) PROVE QueueTyped'
  BY <1>18 DEF Rpc!WriteFails, Rpc!Writes, Rpc!StopDeaf, Rpc!Return
<1> QED
  BY <1>1, <1>2, <1>3, <1>4, <1>5, <1>6, <1>7, <1>8, <1>9, <1>10,
     <1>11, <1>12, <1>13, <1>14, <1>15, <1>16, <1>17, <1>18 DEF Rpc!Next, Rpc!Step, Rpc!Child

(* The holder of the lock.                                                 *)
LEMMA HolderKeeps ==
  ASSUME Rpc!RpcAssumption, QueueTyped, HolderTyped, [Rpc!Next]_rpcVars
  PROVE  HolderTyped'
<1> USE DEF Rpc!RpcAssumption, Rpc!childVars, HolderTyped
<1>1. ASSUME NEW c \in Callers, Rpc!Enter(c) PROVE HolderTyped'
  BY <1>1 DEF Rpc!Enter, Rpc!Comes, Rpc!Start, Rpc!Spawn
<1>2. ASSUME NEW c \in Callers, Rpc!TurnedAway(c) PROVE HolderTyped'
  BY <1>2 DEF Rpc!TurnedAway, Rpc!Comes, Rpc!StartFails
<1>3. ASSUME NEW c \in Callers, Rpc!Call(c) PROVE HolderTyped'
  BY <1>3 DEF Rpc!Call, Rpc!Start, Rpc!Spawn
<1>4. ASSUME NEW c \in Callers, Rpc!CallFails(c) PROVE HolderTyped'
  BY <1>4 DEF Rpc!CallFails, Rpc!StartFails, Rpc!Return
<1>5. ASSUME NEW c \in Callers, Rpc!Progress(c) PROVE HolderTyped'
  BY <1>5 DEF Rpc!Progress, Rpc!GetOwn, Rpc!Get, Rpc!Waits
<1>6. ASSUME NEW c \in Callers, Rpc!Prepared(c) PROVE HolderTyped'
  <2>1. CASE Rpc!Return(c, Rpc!Id(c, "prepare"))
    BY <2>1, RpcNames DEF Rpc!Return
  <2>2. CASE UNCHANGED <<lock, outcome>> /\ stage' = "ready" /\ left' = 0
    <3>1. lock = c /\ stage # "out"
      BY <1>6 DEF Rpc!Prepared, Rpc!GetOwn, Rpc!Get, Rpc!Waits
    <3> QED  BY <2>2, <3>1
  <2> QED  BY <1>6, <2>1, <2>2 DEF Rpc!Prepared
<1>7. ASSUME NEW c \in Callers, Rpc!Answered(c) PROVE HolderTyped'
  BY <1>7, Messages, RpcNames DEF Rpc!Answered, Rpc!GetOwn, Rpc!Get, Rpc!Waits, Rpc!Own, Rpc!Operation, Rpc!Return
<1>8. ASSUME NEW c \in Callers, Rpc!Fails(c) PROVE HolderTyped'
  BY <1>8 DEF Rpc!Fails, Rpc!GetOwn, Rpc!Get, Rpc!Waits, Rpc!Return
<1>9. ASSUME NEW c \in Callers, Rpc!Timeout(c) PROVE HolderTyped'
  BY <1>9 DEF Rpc!Timeout, Rpc!Waits, Rpc!Stop, Rpc!Return
<1>10. ASSUME NEW c \in Callers, Rpc!Breach(c) PROVE HolderTyped'
  BY <1>10 DEF Rpc!Breach, Rpc!Get, Rpc!Waits, Rpc!Stop, Rpc!Return
<1>11. CASE Rpc!Close
  BY <1>11 DEF Rpc!Close, Rpc!Stop
<1>12. CASE Rpc!Emit
  BY <1>12 DEF Rpc!Emit
<1>13. CASE Rpc!Deafen
  BY <1>13 DEF Rpc!Deafen
<1>14. CASE Rpc!Tick
  BY <1>14 DEF Rpc!Tick
<1>15. ASSUME NEW g \in Rpc!Processes, Rpc!Die(g) PROVE HolderTyped'
  BY <1>15 DEF Rpc!Die
<1>16. CASE UNCHANGED rpcVars
  BY <1>16 DEF rpcVars, Rpc!vars
<1>17. ASSUME NEW c \in Callers, Rpc!Written(c) PROVE HolderTyped'
  BY <1>17, RpcNames DEF Rpc!Written, Rpc!Writes, Rpc!Listens, Rpc!Operation
<1>18. ASSUME NEW c \in Callers, Rpc!WriteFails(c) PROVE HolderTyped'
  BY <1>18 DEF Rpc!WriteFails, Rpc!Writes, Rpc!StopDeaf, Rpc!Return
<1> QED
  BY <1>1, <1>2, <1>3, <1>4, <1>5, <1>6, <1>7, <1>8, <1>9, <1>10,
     <1>11, <1>12, <1>13, <1>14, <1>15, <1>16, <1>17, <1>18 DEF Rpc!Next, Rpc!Step, Rpc!Child

(* Processes and what they have proved.                                     *)
LEMMA ShapesKeep ==
  ASSUME Rpc!RpcAssumption, Rpc!TypeOK, Numbers, Shapes, [Rpc!Next]_rpcVars
  PROVE  Shapes'
<1> USE DEF Rpc!TypeOK, Rpc!RpcAssumption, Rpc!childVars, Shapes, WaitShape, ReadyShape, Rpc!WorkOnProved, Rpc!NoneLeftBehind, Rpc!Processes
<1>1. ASSUME NEW c \in Callers, Rpc!Enter(c) PROVE Shapes'
  BY <1>1, StartGives, EmptyQueue DEF Rpc!Enter, Rpc!Comes
<1>2. ASSUME NEW c \in Callers, Rpc!TurnedAway(c) PROVE Shapes'
  BY <1>2, StartFailsGives, EmptyQueue DEF Rpc!TurnedAway, Rpc!Comes
<1>3. ASSUME NEW c \in Callers, Rpc!Call(c) PROVE Shapes'
  <2>1. Rpc!Start
    BY <1>3 DEF Rpc!Call
  <2>2. /\ stage' \in {"writePrepare", "writeWork"} /\ lock' = c
        /\ checked' = checked /\ proved' = proved
        /\ stage' = "writeWork" => stage = "ready"
    BY <1>3 DEF Rpc!Call
  <2>3. /\ ~closed /\ process' # 0
        /\ \/ /\ process \in alive /\ process' = process
              /\ alive' = alive /\ deaf' = deaf /\ (prepared' <=> prepared)
           \/ /\ process \notin alive /\ process' = started + 1
              /\ alive' = alive \cup {started + 1} /\ deaf' = deaf /\ ~prepared'
    BY <2>1, StartGives
  <2>4. ~closed'
    BY <1>3, <2>3, Zenon DEF Rpc!Call
  <2>5. (prepared' => process' \in proved') /\ alive' \ deaf' \subseteq {process'}
    BY <2>2, <2>3
  <2>6. ASSUME stage' \in {"writeWork", "work"} PROVE process' \in proved' \/ checked' \notin alive'
    <3>1. stage = "ready"
      BY <2>2, <2>6
    <3>2. prepared /\ process = checked
      BY <3>1
    <3>3. process \in proved /\ checked \in 0..started
      BY <3>2
    <3> QED  BY <2>2, <2>3, <3>2, <3>3
  <2>7. stage' # "ready"
    BY <2>2
  <2> QED  BY <2>3, <2>4, <2>5, <2>6, <2>7
<1>4. ASSUME NEW c \in Callers, Rpc!CallFails(c) PROVE Shapes'
  BY <1>4, StartFailsGives DEF Rpc!CallFails, Rpc!Return
<1>5. ASSUME NEW c \in Callers, Rpc!Progress(c) PROVE Shapes'
  BY <1>5 DEF Rpc!Progress, Rpc!GetOwn, Rpc!Get, Rpc!Waits
<1>6. ASSUME NEW c \in Callers, Rpc!Prepared(c) PROVE Shapes'
  BY <1>6 DEF Rpc!Prepared, Rpc!GetOwn, Rpc!Get, Rpc!Waits, Rpc!Own, Rpc!Operation, Rpc!Return
<1>7. ASSUME NEW c \in Callers, Rpc!Answered(c) PROVE Shapes'
  BY <1>7 DEF Rpc!Answered, Rpc!GetOwn, Rpc!Get, Rpc!Waits, Rpc!Own, Rpc!Operation, Rpc!Return
<1>8. ASSUME NEW c \in Callers, Rpc!Fails(c) PROVE Shapes'
  BY <1>8 DEF Rpc!Fails, Rpc!GetOwn, Rpc!Get, Rpc!Waits, Rpc!Return
<1>9. ASSUME NEW c \in Callers, Rpc!Timeout(c) PROVE Shapes'
  BY <1>9 DEF Rpc!Timeout, Rpc!Waits, Rpc!Stop, Rpc!Return
<1>10. ASSUME NEW c \in Callers, Rpc!Breach(c) PROVE Shapes'
  BY <1>10 DEF Rpc!Breach, Rpc!Get, Rpc!Waits, Rpc!Stop, Rpc!Return
<1>11. CASE Rpc!Close
  BY <1>11 DEF Rpc!Close, Rpc!Stop
<1>12. CASE Rpc!Emit
  BY <1>12 DEF Rpc!Emit
<1>13. CASE Rpc!Deafen
  BY <1>13 DEF Rpc!Deafen
<1>14. CASE Rpc!Tick
  BY <1>14 DEF Rpc!Tick
<1>15. ASSUME NEW g \in Rpc!Processes, Rpc!Die(g) PROVE Shapes'
  BY <1>15 DEF Rpc!Die
<1>16. CASE UNCHANGED rpcVars
  BY <1>16 DEF rpcVars, Rpc!vars
<1>17. ASSUME NEW c \in Callers, Rpc!Written(c) PROVE Shapes'
  BY <1>17, RpcNames DEF Rpc!Written, Rpc!Writes, Rpc!Listens, Rpc!Operation
<1>18. ASSUME NEW c \in Callers, Rpc!WriteFails(c) PROVE Shapes'
  BY <1>18 DEF Rpc!WriteFails, Rpc!Writes, Rpc!Listens, Rpc!StopDeaf, Rpc!Return
<1> QED
  BY <1>1, <1>2, <1>3, <1>4, <1>5, <1>6, <1>7, <1>8, <1>9, <1>10,
     <1>11, <1>12, <1>13, <1>14, <1>15, <1>16, <1>17, <1>18 DEF Rpc!Next, Rpc!Step, Rpc!Child

(* What is in the queue.                                                   *)
LEMMA PipeKeeps ==
  ASSUME Rpc!RpcAssumption, Rpc!TypeOK, PipeOwn, [Rpc!Next]_rpcVars
  PROVE  PipeOwn'
<1> USE DEF Rpc!TypeOK, Rpc!RpcAssumption, Rpc!childVars, PipeOwn
<1>1. ASSUME NEW c \in Callers, Rpc!Enter(c) PROVE PipeOwn'
  BY <1>1 DEF Rpc!Enter, Rpc!Comes, Rpc!Start, Rpc!Spawn
<1>2. ASSUME NEW c \in Callers, Rpc!TurnedAway(c) PROVE PipeOwn'
  BY <1>2 DEF Rpc!TurnedAway, Rpc!Comes, Rpc!StartFails
<1>3. ASSUME NEW c \in Callers, Rpc!Call(c) PROVE PipeOwn'
  BY <1>3 DEF Rpc!Call, Rpc!Start, Rpc!Spawn
<1>4. ASSUME NEW c \in Callers, Rpc!CallFails(c) PROVE PipeOwn'
  BY <1>4 DEF Rpc!CallFails, Rpc!StartFails, Rpc!Return
<1>5. ASSUME NEW c \in Callers, Rpc!Progress(c) PROVE PipeOwn'
  BY <1>5, Messages DEF Rpc!Progress, Rpc!GetOwn, Rpc!Get, Rpc!Waits
<1>6. ASSUME NEW c \in Callers, Rpc!Prepared(c) PROVE PipeOwn'
  BY <1>6, Messages DEF Rpc!Prepared, Rpc!GetOwn, Rpc!Get, Rpc!Waits, Rpc!Own, Rpc!Operation, Rpc!Return
<1>7. ASSUME NEW c \in Callers, Rpc!Answered(c) PROVE PipeOwn'
  BY <1>7, Messages DEF Rpc!Answered, Rpc!GetOwn, Rpc!Get, Rpc!Waits, Rpc!Own, Rpc!Operation, Rpc!Return
<1>8. ASSUME NEW c \in Callers, Rpc!Fails(c) PROVE PipeOwn'
  <2>1. responses # <<>> /\ responses' = Tail(responses) /\ UNCHANGED <<process, asked>>
    BY <1>8 DEF Rpc!Fails, Rpc!GetOwn, Rpc!Get
  <2> QED  BY <2>1, Messages
<1>9. ASSUME NEW c \in Callers, Rpc!Timeout(c) PROVE PipeOwn'
  BY <1>9 DEF Rpc!Timeout, Rpc!Waits, Rpc!Stop, Rpc!Return
<1>10. ASSUME NEW c \in Callers, Rpc!Breach(c) PROVE PipeOwn'
  BY <1>10, Messages DEF Rpc!Breach, Rpc!Get, Rpc!Waits, Rpc!Stop, Rpc!Return
<1>11. CASE Rpc!Close
  BY <1>11 DEF Rpc!Close, Rpc!Stop
<1>12. CASE Rpc!Emit
  BY <1>12 DEF Rpc!Emit
<1>13. CASE Rpc!Deafen
  BY <1>13 DEF Rpc!Deafen
<1>14. CASE Rpc!Tick
  BY <1>14 DEF Rpc!Tick
<1>15. ASSUME NEW g \in Rpc!Processes, Rpc!Die(g) PROVE PipeOwn'
  BY <1>15 DEF Rpc!Die
<1>16. CASE UNCHANGED rpcVars
  BY <1>16 DEF rpcVars, Rpc!vars
<1>17. ASSUME NEW c \in Callers, Rpc!Written(c) PROVE PipeOwn'
  BY <1>17, RpcNames DEF Rpc!Written, Rpc!Writes, Rpc!Listens, Rpc!Operation
<1>18. ASSUME NEW c \in Callers, Rpc!WriteFails(c) PROVE PipeOwn'
  BY <1>18 DEF Rpc!WriteFails, Rpc!Writes, Rpc!StopDeaf, Rpc!Return
<1> QED
  BY <1>1, <1>2, <1>3, <1>4, <1>5, <1>6, <1>7, <1>8, <1>9, <1>10,
     <1>11, <1>12, <1>13, <1>14, <1>15, <1>16, <1>17, <1>18 DEF Rpc!Next, Rpc!Step, Rpc!Child

(* Whose results there are.                                                *)
LEMMA ResultKeeps ==
  ASSUME Rpc!RpcAssumption, Rpc!TypeOK, Rpc!ResultIsOwn, [Rpc!Next]_rpcVars
  PROVE  Rpc!ResultIsOwn'
<1> USE DEF Rpc!TypeOK, Rpc!RpcAssumption, Rpc!childVars, Rpc!ResultIsOwn, Rpc!Id, Rpc!Ids, Rpc!NoId, Rpc!Failed
<1>1. ASSUME NEW c \in Callers, Rpc!Enter(c) PROVE Rpc!ResultIsOwn'
  BY <1>1 DEF Rpc!Enter, Rpc!Comes, Rpc!Start, Rpc!Spawn
<1>2. ASSUME NEW c \in Callers, Rpc!TurnedAway(c) PROVE Rpc!ResultIsOwn'
  BY <1>2 DEF Rpc!TurnedAway, Rpc!Comes, Rpc!StartFails
<1>3. ASSUME NEW c \in Callers, Rpc!Call(c) PROVE Rpc!ResultIsOwn'
  BY <1>3 DEF Rpc!Call, Rpc!Start, Rpc!Spawn
<1>4. ASSUME NEW c \in Callers, Rpc!CallFails(c) PROVE Rpc!ResultIsOwn'
  BY <1>4 DEF Rpc!CallFails, Rpc!StartFails, Rpc!Return
<1>5. ASSUME NEW c \in Callers, Rpc!Progress(c) PROVE Rpc!ResultIsOwn'
  BY <1>5 DEF Rpc!Progress, Rpc!GetOwn, Rpc!Get, Rpc!Waits
<1>6. ASSUME NEW c \in Callers, Rpc!Prepared(c) PROVE Rpc!ResultIsOwn'
  <2>1. CASE Rpc!Return(c, Rpc!Id(c, "prepare"))
    BY <2>1 DEF Rpc!Return
  <2>2. CASE outcome' = outcome
    BY <2>2
  <2> QED  BY <1>6, <2>1, <2>2 DEF Rpc!Prepared
<1>7. ASSUME NEW c \in Callers, Rpc!Answered(c) PROVE Rpc!ResultIsOwn'
  BY <1>7, Messages DEF Rpc!Answered, Rpc!GetOwn, Rpc!Get, Rpc!Waits, Rpc!Own, Rpc!Operation, Rpc!Return
<1>8. ASSUME NEW c \in Callers, Rpc!Fails(c) PROVE Rpc!ResultIsOwn'
  BY <1>8 DEF Rpc!Fails, Rpc!GetOwn, Rpc!Get, Rpc!Waits, Rpc!Return
<1>9. ASSUME NEW c \in Callers, Rpc!Timeout(c) PROVE Rpc!ResultIsOwn'
  BY <1>9 DEF Rpc!Timeout, Rpc!Waits, Rpc!Stop, Rpc!Return
<1>10. ASSUME NEW c \in Callers, Rpc!Breach(c) PROVE Rpc!ResultIsOwn'
  BY <1>10 DEF Rpc!Breach, Rpc!Get, Rpc!Waits, Rpc!Stop, Rpc!Return
<1>11. CASE Rpc!Close
  BY <1>11 DEF Rpc!Close, Rpc!Stop
<1>12. CASE Rpc!Emit
  BY <1>12 DEF Rpc!Emit
<1>13. CASE Rpc!Deafen
  BY <1>13 DEF Rpc!Deafen
<1>14. CASE Rpc!Tick
  BY <1>14 DEF Rpc!Tick
<1>15. ASSUME NEW g \in Rpc!Processes, Rpc!Die(g) PROVE Rpc!ResultIsOwn'
  BY <1>15 DEF Rpc!Die
<1>16. CASE UNCHANGED rpcVars
  BY <1>16 DEF rpcVars, Rpc!vars
<1>17. ASSUME NEW c \in Callers, Rpc!Written(c) PROVE Rpc!ResultIsOwn'
  BY <1>17, RpcNames DEF Rpc!Written, Rpc!Writes, Rpc!Listens, Rpc!Operation
<1>18. ASSUME NEW c \in Callers, Rpc!WriteFails(c) PROVE Rpc!ResultIsOwn'
  BY <1>18 DEF Rpc!WriteFails, Rpc!Writes, Rpc!StopDeaf, Rpc!Return
<1> QED
  BY <1>1, <1>2, <1>3, <1>4, <1>5, <1>6, <1>7, <1>8, <1>9, <1>10,
     <1>11, <1>12, <1>13, <1>14, <1>15, <1>16, <1>17, <1>18 DEF Rpc!Next, Rpc!Step, Rpc!Child

THEOREM RpcInductive == Rpc!RpcAssumption /\ RpcInv /\ [Rpc!Next]_rpcVars => RpcInv'
<1>1. Rpc!TypeOK <=> Flags /\ Numbers /\ QueueTyped /\ HolderTyped
  BY DEF Rpc!TypeOK, Flags, Numbers, QueueTyped, HolderTyped
<1>2. Rpc!TypeOK' <=> Flags' /\ Numbers' /\ QueueTyped' /\ HolderTyped'
  BY DEF Rpc!TypeOK, Flags, Numbers, QueueTyped, HolderTyped
<1> QED
  BY <1>1, <1>2, FlagsKeep, NumbersKeep, QueueKeeps, HolderKeeps, ShapesKeep,
     PipeKeeps, ResultKeeps DEF RpcInv, Shapes

THEOREM RpcInitial == Rpc!RpcAssumption /\ Rpc!Init => RpcInv
<1> SUFFICES ASSUME Rpc!RpcAssumption, Rpc!Init PROVE RpcInv
  OBVIOUS
<1> USE DEF Rpc!RpcAssumption, Rpc!Init
<1>1. Numbers
  BY DEF Numbers
<1>2. Flags
  BY DEF Flags
<1>3. HolderTyped
  BY DEF HolderTyped
<1>4. QueueTyped
  BY EmptyQueue DEF QueueTyped
<1>5. Rpc!TypeOK
  BY <1>1, <1>2, <1>3, <1>4 DEF Rpc!TypeOK, Flags, Numbers, HolderTyped, QueueTyped
<1>6. Shapes /\ PipeOwn
  BY DEF Shapes, WaitShape, ReadyShape, Rpc!WorkOnProved, Rpc!NoneLeftBehind, PipeOwn
<1>7. Rpc!ResultIsOwn
  BY DEF Rpc!ResultIsOwn, Rpc!Ids, Rpc!NoId
<1> QED  BY <1>5, <1>6, <1>7 DEF RpcInv

----------------------------------------------------------------------------
(* Either engine alone: the other stays as it was at the start.              *)

BrowserIdle ==
  /\ process = 0 /\ started = 0
  /\ alive = {} /\ deaf = {} /\ proved = {} /\ asked = {}
  /\ prepared = FALSE /\ responses = <<>>
  /\ lock = Nobody /\ stage = "out" /\ left = 0 /\ checked = 0
  /\ outcome = [c \in Callers |-> Rpc!NoId]

ModelsIdle ==
  /\ active = 0 /\ generation = 0
  /\ idleTimer = {} /\ counting = {} /\ due = {} /\ loaded = {}
  /\ unloading = "no" /\ gpu = Nobody
  /\ pc = [r \in Requests |-> "idle"] /\ rejected = {}

ClosedTyped == closed \in BOOLEAN

EnginesInv ==
  /\ IInv /\ RpcInv
  /\ InBrowser => ModelsIdle
  /\ ~InBrowser => BrowserIdle

(* Only closed is shared, and it matters to neither engine at rest.          *)
LEMMA BrowserAtRest == BrowserIdle /\ ClosedTyped => RpcInv
<1> SUFFICES ASSUME BrowserIdle, ClosedTyped PROVE RpcInv
  OBVIOUS
<1> USE DEF BrowserIdle, ClosedTyped
<1>1. Numbers
  BY EnginesAssumption DEF Numbers, Rpc!RpcAssumption
<1>2. Flags
  BY DEF Flags
<1>3. HolderTyped
  BY EnginesAssumption DEF HolderTyped, Rpc!RpcAssumption
<1>4. QueueTyped
  BY EmptyQueue DEF QueueTyped
<1>5. Rpc!TypeOK
  BY <1>1, <1>2, <1>3, <1>4 DEF Rpc!TypeOK, Flags, Numbers, QueueTyped, HolderTyped
<1>6. Shapes /\ PipeOwn
  BY DEF Shapes, WaitShape, ReadyShape, PipeOwn, Rpc!WorkOnProved, Rpc!NoneLeftBehind
<1>7. Rpc!ResultIsOwn
  BY EnginesAssumption DEF Rpc!ResultIsOwn, Rpc!Ids, Rpc!NoId, Rpc!RpcAssumption
<1> QED  BY <1>5, <1>6, <1>7 DEF RpcInv

LEMMA ModelsAtRest == ModelsIdle /\ ClosedTyped => IInv
<1> SUFFICES ASSUME ModelsIdle, ClosedTyped PROVE IInv
  OBVIOUS
<1> USE DEF ModelsIdle, ClosedTyped
<1>1. TypeOK
  BY DEF TypeOK, Places
<1>2. InSession = {} /\ Nested = {}
  BY DEF InSession, Nested
<1>3. SessionsExact
  BY <1>2, FS_EmptySet DEF SessionsExact
<1>4. TimerShape /\ LockShape /\ IdleModelsWatched
  BY ResidencyAssumption DEF TimerShape, LockShape, IdleModelsWatched
<1> QED  BY <1>1, <1>3, <1>4 DEF IInv

THEOREM EnginesInductive == EnginesInv /\ [EnginesNext]_enginesVars => EnginesInv'
<1> SUFFICES ASSUME EnginesInv, [EnginesNext]_enginesVars PROVE EnginesInv'
  OBVIOUS
<1>1. CASE ~InBrowser /\ Next /\ UNCHANGED browserVars /\ UNCHANGED runtime
  <2>1. IInv'
    BY <1>1, Inductive DEF EnginesInv
  <2>2. BrowserIdle'
    BY <1>1 DEF EnginesInv, InBrowser, BrowserIdle, browserVars
  <2>3. ClosedTyped'
    BY <2>1 DEF ClosedTyped, IInv, TypeOK
  <2>4. RpcInv'
    BY <2>2, <2>3, BrowserAtRest, PTL
  <2> QED  BY <1>1, <2>1, <2>2, <2>4 DEF EnginesInv, InBrowser
<1>2. CASE InBrowser /\ Rpc!Next /\ UNCHANGED modelVars /\ UNCHANGED runtime
  <2>1. RpcInv'
    BY <1>2, RpcInductive, EnginesAssumption DEF EnginesInv
  <2>2. ModelsIdle'
    BY <1>2 DEF EnginesInv, InBrowser, ModelsIdle, modelVars, timerVars
  <2>3. ClosedTyped'
    BY <2>1 DEF ClosedTyped, RpcInv, Rpc!TypeOK
  <2>4. IInv'
    BY <2>2, <2>3, ModelsAtRest, PTL
  <2> QED  BY <1>2, <2>1, <2>2, <2>4 DEF EnginesInv, InBrowser
<1>3. CASE UNCHANGED enginesVars
  <2>1. UNCHANGED vars /\ UNCHANGED browserVars /\ UNCHANGED runtime
    BY <1>3 DEF enginesVars
  <2>2. UNCHANGED rpcVars
    BY <2>1 DEF vars, browserVars, rpcVars, Rpc!vars, Rpc!childVars
  <2>3. IInv' /\ RpcInv'
    BY <2>1, <2>2, Inductive, RpcInductive, EnginesAssumption DEF EnginesInv
  <2> QED
    BY <2>1, <2>3 DEF EnginesInv, InBrowser, ModelsIdle, BrowserIdle, vars, browserVars
<1> QED  BY <1>1, <1>2, <1>3 DEF EnginesNext

THEOREM EnginesInvariance == EnginesSpec => []EnginesInv
<1>1. EnginesInit => EnginesInv
  <2> SUFFICES ASSUME EnginesInit PROVE EnginesInv
    OBVIOUS
  <2>1. ModelsIdle /\ BrowserIdle /\ ClosedTyped
    BY DEF EnginesInit, ClosedTyped, Init, Rpc!Init, ModelsIdle, BrowserIdle
  <2> QED  BY <2>1, BrowserAtRest, ModelsAtRest DEF EnginesInv
<1> QED  BY <1>1, EnginesInductive, PTL DEF EnginesSpec

(* Whichever engine the app has, every variable of both keeps its type.      *)
THEOREM EnginesTyped == EnginesSpec => []EnginesTypeOK
<1>1. EnginesInv => EnginesTypeOK
  BY DEF EnginesInv, IInv, RpcInv, EnginesTypeOK
<1> QED  BY <1>1, EnginesInvariance, PTL

(* Models stay while they are used and are evicted after a whole idle period, *)
(* also where close is called by the lifespan of either engine (app.py:254).  *)
THEOREM EnginesKeepModels == EnginesSpec => [](HeldWhileUsed /\ FullIdlePeriod)
<1>1. IInv => FullIdlePeriod
  BY DEF IInv, LockShape, FullIdlePeriod
<1> QED  BY <1>1, UsersAreCounted, EnginesInvariance, PTL DEF EnginesInv

(* A caller gets the result of its own request, and no process is stopped    *)
(* for a line that an earlier one wrote (browser_engine.py:81).             *)
THEOREM OwnAnswersHold == EnginesSpec => []OwnAnswers
<1>1. RpcInv => OwnAnswers
  BY DEF RpcInv, Shapes, WaitShape, PipeOwn, OwnAnswers, Rpc!OwnAnswers, Rpc!BlamedForItsOwn
<1> QED  BY <1>1, EnginesInvariance, PTL DEF EnginesInv

(* Work goes to a process that passed the preflight, unless that one died    *)
(* within the same call (browser_engine.py:128).                           *)
THEOREM WorkOnProvedHolds == EnginesSpec => []WorkOnProved
<1>1. RpcInv => WorkOnProved
  BY DEF RpcInv, Shapes, WorkOnProved
<1> QED  BY <1>1, EnginesInvariance, PTL DEF EnginesInv

(* No process that still listens is ever forgotten (browser_engine.py:191).  *)
THEOREM NoneLeftBehindHolds == EnginesSpec => []NoneLeftBehind
<1>1. RpcInv => NoneLeftBehind
  BY DEF RpcInv, Shapes, NoneLeftBehind
<1> QED  BY <1>1, EnginesInvariance, PTL DEF EnginesInv

=============================================================================
