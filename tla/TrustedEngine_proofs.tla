------------------------ MODULE TrustedEngine_proofs ------------------------
(***************************************************************************)
(* Theorems about the trusted engine's gate, for any number of requests,    *)
(* any repetition of request IDs and any bounds.                           *)
(***************************************************************************)
EXTENDS TrustedEngine, CollectionLemmas

(* What makes the invariants inductive: the line has no repetitions and its  *)
(* members have not been told yet, and a handler's place says whether its    *)
(* thread exists.                                                          *)
LineShape ==
  /\ IsInjective(waiting)
  /\ running \notin ToSet(waiting)
  /\ \A t \in ToSet(waiting) : ~ready[t] /\ pc[t] = "queued"
  /\ \A t \in Requests :
       /\ pc[t] \in {"idle", "uploading"} => ~ready[t]
       /\ thread[t] # "none" <=> pc[t] = "inferring"

IInv ==
  /\ TypeOK
  /\ SlotsExact
  /\ LineShape
  /\ OneInference
  /\ TurnHasOwner
  /\ IdsDistinct
  /\ ProgressIsOwn

----------------------------------------------------------------------------
THEOREM InitIInv == Init => IInv
<1> SUFFICES ASSUME Init PROVE IInv
  OBVIOUS
<1> USE DEF Init, QueueInit
<1>1. /\ waiting \in Seq(Requests) /\ completed \in Seq(Requests)
      /\ DOMAIN waiting = {} /\ DOMAIN completed = {} /\ Len(completed) = 0
  BY EmptySeq, LenProperties
<1>2. ToSet(waiting) = {} /\ ToSet(completed) = {} /\ IsInjective(waiting)
  BY <1>1 DEF ToSet, IsInjective
<1>3. TypeOK
  BY <1>1, TicketsAssumption, EngineAssumption DEF TypeOK, QueueTypeOK, Places
<1>4. SlotsExact
  <2>1. Inside = {}
    BY DEF Inside
  <2> QED  BY <2>1, FS_EmptySet DEF SlotsExact
<1>5. LineShape /\ OneInference /\ TurnHasOwner /\ IdsDistinct /\ ProgressIsOwn
  BY <1>1, <1>2, TicketsAssumption
  DEF LineShape, OneInference, TurnHasOwner, IdsDistinct, ProgressIsOwn
<1> QED  BY <1>3, <1>4, <1>5 DEF IInv

----------------------------------------------------------------------------
(* Lemmas on the gate and on the queue's methods.                          *)

(* Entering, leaving and moving inside the admission gate.                 *)
LEMMA GateCount ==
  ASSUME SlotsExact, pc \in [Requests -> Places],
         NEW t \in Requests, NEW to \in Places, pc' = [pc EXCEPT ![t] = to]
  PROVE  /\ inflight \in Nat
         /\ t \notin Inside /\ to \notin {"idle", "done"} /\ inflight' = inflight + 1
              => SlotsExact'
         /\ t \in Inside /\ to = "done" /\ inflight' = inflight - 1
              => SlotsExact' /\ inflight > 0
         /\ t \in Inside /\ to \notin {"idle", "done"} /\ inflight' = inflight
              => SlotsExact'
         /\ t \notin Inside /\ to = "done" /\ inflight' = inflight
              => SlotsExact'
<1>1. IsFiniteSet(Inside)
  BY FS_Subset, TicketsAssumption DEF Inside
<1>2. Cardinality(Inside) \in Nat
  BY <1>1, FS_CardinalityType
<1>3. ASSUME to \notin {"idle", "done"} PROVE Inside' = Inside \cup {t}
  BY <1>3 DEF Inside, Places
<1>4. ASSUME to = "done" PROVE Inside' = Inside \ {t}
  BY <1>4 DEF Inside
<1>5. /\ Cardinality(Inside \cup {t}) =
           IF t \in Inside THEN Cardinality(Inside) ELSE Cardinality(Inside) + 1
      /\ Cardinality(Inside \ {t}) =
           IF t \in Inside THEN Cardinality(Inside) - 1 ELSE Cardinality(Inside)
  BY <1>1, FS_AddElement, FS_RemoveElement
<1>6. ASSUME t \in Inside PROVE Cardinality(Inside) > 0
  <2>1. Inside # {}
    BY <1>6
  <2> QED  BY <2>1, <1>1, <1>2, FS_EmptySet
<1>7. ASSUME t \notin Inside, to \notin {"idle", "done"}, inflight' = inflight + 1
      PROVE  SlotsExact'
  BY <1>7, <1>3, <1>5 DEF SlotsExact
<1>8. ASSUME t \in Inside, to = "done", inflight' = inflight - 1
      PROVE  SlotsExact' /\ inflight > 0
  BY <1>8, <1>4, <1>5, <1>6 DEF SlotsExact
<1>9. ASSUME t \in Inside, to \notin {"idle", "done"}, inflight' = inflight
      PROVE  SlotsExact'
  BY <1>9, <1>3, <1>5 DEF SlotsExact
<1>10. ASSUME t \notin Inside, to = "done", inflight' = inflight
      PROVE  SlotsExact'
  BY <1>10, <1>4, <1>5 DEF SlotsExact
<1> QED  BY <1>2, <1>7, <1>8, <1>9, <1>10 DEF SlotsExact

(* _prune_completed drops tickets from the front, and their progress.      *)
LEMMA PruneKeeps ==
  ASSUME QueueTypeOK, NEW done \in Seq(Requests), lapsed <= Len(done), PruneCompleted(done)
  PROVE  /\ completed' \in Seq(Requests)
         /\ lapsed' \in 0..Len(completed')
         /\ progress' \in [RequestIds -> Requests \cup {Nobody}]
         /\ \E n \in 0..Len(done) :
              \A i \in DOMAIN completed' : n + i \in DOMAIN done /\ completed'[i] = done[n + i]
         /\ \A id \in RequestIds : progress'[id] # Nobody =>
              /\ progress'[id] = progress[id]
              /\ progress[id] \in ToSet(done) /\ IdOf[progress[id]] = id
                   => progress[id] \in ToSet(completed')
<1> DEFINE n == Surplus(done)
<1>0. /\ Len(done) \in Nat /\ DOMAIN done = 1..Len(done)
      /\ lapsed \in Nat /\ MaxCompleted \in Nat
  BY LenProperties, TicketsAssumption DEF QueueTypeOK
<1>1. n \in 0..Len(done)
  BY <1>0 DEF Surplus
<1>2. completed' = SubSeq(done, n + 1, Len(done)) /\ lapsed' = 0
  BY DEF PruneCompleted
<1>3. \A id \in RequestIds :
        progress'[id] # Nobody => progress'[id] = progress[id] /\ id \notin Forgotten(done)
  BY DEF PruneCompleted
<1>4. progress' \in [RequestIds -> Requests \cup {Nobody}]
  BY DEF PruneCompleted, QueueTypeOK
<1>5. \A i \in 1..n : IdOf[done[i]] \in Forgotten(done)
  BY DEF Forgotten
<1> HIDE DEF n
<1>6. /\ completed' \in Seq(Requests) /\ Len(completed') = Len(done) - n
      /\ \A i \in 1..(Len(done) - n) : completed'[i] = done[n + i]
  BY <1>1, <1>2, DropFront
<1>7. DOMAIN completed' = 1..(Len(done) - n) /\ 0 \in 0..Len(completed')
  BY <1>0, <1>1, <1>6, LenProperties
<1>8. \A i \in DOMAIN completed' : n + i \in DOMAIN done /\ completed'[i] = done[n + i]
  BY <1>0, <1>1, <1>6, <1>7
<1>9. ASSUME NEW id \in RequestIds, progress'[id] # Nobody,
             progress[id] \in ToSet(done), IdOf[progress[id]] = id
      PROVE  progress[id] \in ToSet(completed')
  <2>1. PICK k \in 1..Len(done) : done[k] = progress[id]
    BY <1>9, <1>0 DEF ToSet
  <2>2. ~(k \in 1..n)
    BY <2>1, <1>9, <1>3, <1>5
  <2>3. k - n \in DOMAIN completed' /\ n + (k - n) = k
    BY <2>1, <2>2, <1>0, <1>1, <1>7
  <2>4. completed'[k - n] = done[k]
    BY <2>3, <1>8
  <2> QED  BY <2>1, <2>3, <2>4 DEF ToSet
<1> QED  BY <1>1, <1>2, <1>3, <1>4, <1>6, <1>7, <1>8, <1>9

(* _promote_next gives the turn to the first in line, if there is one.      *)
LEMMA PromoteFirst ==
  ASSUME QueueTypeOK, IsInjective(waiting), Promote,
         \A t \in ToSet(waiting) : active'[IdOf[t]] = t
  PROVE  \/ waiting = <<>> /\ running' = Nobody /\ waiting' = <<>> /\ ready' = ready
         \/ /\ waiting # <<>> /\ Head(waiting) \in Requests
            /\ running' = Head(waiting) /\ waiting' = Tail(waiting)
            /\ ready' = [ready EXCEPT ![Head(waiting)] = TRUE]
<1>0. waiting \in Seq(Requests) /\ DOMAIN waiting = 1..Len(waiting) /\ Len(waiting) \in Nat
  BY LenProperties DEF QueueTypeOK
<1>1. Promotable = DOMAIN waiting
  BY DEF Promotable, ToSet
<1>2. CASE waiting = <<>>
  <2>1. DOMAIN waiting = {}
    BY <1>0, <1>2, EmptySeq
  <2> QED  BY <2>1, <1>1, <1>2 DEF Promote
<1>3. CASE waiting # <<>>
  <2>1. /\ Head(waiting) = waiting[1] /\ 1 \in DOMAIN waiting /\ Head(waiting) \in Requests
        /\ Tail(waiting) = SubSeq(waiting, 2, Len(waiting))
    BY <1>0, <1>3, PopFront
  <2>2. PICK i \in Promotable :
          /\ \A k \in Promotable : i <= k
          /\ running' = waiting[i]
          /\ waiting' = SubSeq(waiting, i + 1, Len(waiting))
          /\ ready' = [ready EXCEPT ![waiting[i]] = TRUE]
    BY <2>1, <1>1 DEF Promote
  <2>3. i = 1
    BY <2>1, <2>2, <1>0, <1>1
  <2> QED  BY <2>1, <2>2, <2>3, <1>3
<1> QED  BY <1>2, <1>3

----------------------------------------------------------------------------
(* Steps that leave the queue alone.                                       *)

LEMMA HandlerOnlyKeeps ==
  ASSUME IInv, NEW t \in Requests,
         TurnAway(t) \/ Admit(t) \/ EndEarly(t) \/ HangUp(t) \/ PostUpdate(t)
           \/ ThreadReturns(t) \/ Leave(t) \/ StartInference(t)
  PROVE  IInv'
<1>0. TypeOK /\ QueueTypeOK /\ SlotsExact /\ pc \in [Requests -> Places]
  BY DEF IInv, TypeOK
<1>1. UNCHANGED <<running, waiting, active, completed, lapsed, progress, ready>>
  BY DEF TurnAway, Admit, EndEarly, HangUp, PostUpdate, ThreadReturns, Leave,
         StartInference, queueVars
<1>2. IdsDistinct' /\ ProgressIsOwn'
  BY <1>1 DEF IInv, IdsDistinct, ProgressIsOwn
<1>3. QueueTypeOK'
  BY <1>0, <1>1 DEF QueueTypeOK
<1>4. CASE TurnAway(t) \/ Admit(t) \/ EndEarly(t) \/ Leave(t)
  <2>1. UNCHANGED <<cut, thread, posted>>
    BY <1>4 DEF TurnAway, Admit, EndEarly, Leave
  <2>2. \E to \in {"done", "uploading", "closing"} :
          pc[t] \in {"idle", "uploading", "closing"}
            /\ (to = "uploading" => pc[t] = "idle") /\ pc' = [pc EXCEPT ![t] = to]
    BY <1>4 DEF TurnAway, Admit, EndEarly, Leave, Goto
  <2>3. SlotsExact' /\ inflight' \in 0..MaxInflight
    <3>1. CASE TurnAway(t)
      BY <3>1, <1>0, GateCount DEF TurnAway, Goto, Inside, Places, TypeOK
    <3>2. CASE Admit(t)
      <4>1. /\ t \notin Inside /\ "uploading" \in Places /\ pc' = [pc EXCEPT ![t] = "uploading"]
            /\ inflight' = inflight + 1 /\ inflight < MaxInflight
        BY <3>2 DEF Admit, Goto, Inside, Places
      <4>2. SlotsExact'
        BY <4>1, <1>0, GateCount
      <4>3. inflight \in 0..MaxInflight /\ MaxInflight \in Nat
        BY <1>0, EngineAssumption DEF TypeOK
      <4> QED  BY <4>1, <4>2, <4>3
    <3>3. CASE EndEarly(t)
      BY <3>3, <1>0, GateCount DEF EndEarly, Goto, Inside, Places, TypeOK
    <3>4. CASE Leave(t)
      <4>1. /\ t \in Inside /\ "done" \in Places /\ pc' = [pc EXCEPT ![t] = "done"]
            /\ inflight' = inflight - 1
        BY <3>4 DEF Leave, Goto, Inside, Places
      <4>2. SlotsExact' /\ inflight > 0
        BY <4>1, <1>0, GateCount
      <4>3. inflight \in 0..MaxInflight /\ MaxInflight \in Nat
        BY <1>0, EngineAssumption DEF TypeOK
      <4> QED  BY <4>1, <4>2, <4>3
    <3> QED  BY <1>4, <3>1, <3>2, <3>3, <3>4
  <2>4. TypeOK'
    BY <1>0, <1>3, <2>1, <2>2, <2>3 DEF TypeOK, Places
  <2>5. LineShape'
    BY <1>0, <1>1, <2>1, <2>2 DEF IInv, LineShape
  <2>6. OneInference'
    BY <1>1, <2>1 DEF IInv, OneInference
  <2>7. TurnHasOwner'
    BY <1>0, <1>1, <2>2 DEF IInv, TurnHasOwner, QueueTypeOK
  <2> QED  BY <1>2, <2>3, <2>4, <2>5, <2>6, <2>7 DEF IInv
<1>5. CASE HangUp(t) \/ PostUpdate(t) \/ ThreadReturns(t)
  <2>1. /\ UNCHANGED <<pc, inflight>>
        /\ cut' \in [Requests -> BOOLEAN]
        /\ posted' \in [Requests -> 0..MaxUpdates]
        /\ thread' \in [Requests -> {"none", "running", "returned"}]
        /\ \A u \in Requests : thread'[u] # "none" <=> thread[u] # "none"
    <3>1. CASE HangUp(t)
      BY <3>1, <1>0 DEF HangUp, TypeOK
    <3>2. CASE PostUpdate(t)
      <4>1. /\ posted[t] \in 0..MaxUpdates /\ posted[t] < MaxUpdates /\ MaxUpdates \in Nat
            /\ posted' = [posted EXCEPT ![t] = posted[t] + 1]
            /\ UNCHANGED <<pc, cut, thread, inflight>>
        BY <3>2, <1>0, EngineAssumption DEF PostUpdate, TypeOK
      <4>2. posted[t] + 1 \in 0..MaxUpdates
        BY <4>1
      <4> QED  BY <4>1, <4>2, <1>0 DEF TypeOK
    <3>3. CASE ThreadReturns(t)
      BY <3>3, <1>0 DEF ThreadReturns, TypeOK
    <3> QED  BY <1>5, <3>1, <3>2, <3>3
  <2>2. TypeOK'
    BY <1>0, <1>3, <2>1 DEF TypeOK
  <2>3. SlotsExact'
    BY <2>1 DEF IInv, SlotsExact, Inside
  <2>4. LineShape' /\ OneInference' /\ TurnHasOwner'
    BY <1>1, <2>1 DEF IInv, LineShape, OneInference, TurnHasOwner
  <2> QED  BY <1>2, <2>2, <2>3, <2>4 DEF IInv
<1>6. CASE StartInference(t)
  <2>1. /\ pc[t] = "queued" /\ ready[t] /\ pc' = [pc EXCEPT ![t] = "inferring"]
        /\ thread' = [thread EXCEPT ![t] = "running"]
        /\ UNCHANGED <<cut, posted, inflight>>
    BY <1>6 DEF StartInference, Goto
  <2>2. t = running
    BY <2>1 DEF IInv, TurnHasOwner, LineShape
  <2>3. SlotsExact'
    BY <2>1, <1>0, GateCount DEF Inside, Places
  <2>4. TypeOK'
    BY <1>0, <1>3, <2>1 DEF TypeOK, Places
  <2>5. LineShape'
    BY <1>0, <1>1, <2>1, <2>2 DEF IInv, LineShape, TypeOK
  <2>6. OneInference' /\ TurnHasOwner'
    BY <1>0, <1>1, <2>1, <2>2 DEF IInv, OneInference, TurnHasOwner, TypeOK, QueueTypeOK
  <2> QED  BY <1>2, <2>3, <2>4, <2>5, <2>6 DEF IInv
<1> QED  BY <1>4, <1>5, <1>6

----------------------------------------------------------------------------
(* Steps that prune the completed IDs and leave the line alone.            *)

LEMMA PruneOnlyKeeps ==
  ASSUME IInv, PruneCompleted(completed), UNCHANGED <<running, waiting, active, ready>>
  PROVE  QueueTypeOK' /\ IdsDistinct' /\ ProgressIsOwn'
<1>0. QueueTypeOK /\ completed \in Seq(Requests) /\ lapsed <= Len(completed)
  BY LenProperties DEF IInv, TypeOK, QueueTypeOK
<1>1. /\ completed' \in Seq(Requests)
      /\ lapsed' \in 0..Len(completed')
      /\ progress' \in [RequestIds -> Requests \cup {Nobody}]
      /\ \E n \in 0..Len(completed) :
           \A i \in DOMAIN completed' :
             n + i \in DOMAIN completed /\ completed'[i] = completed[n + i]
      /\ \A id \in RequestIds : progress'[id] # Nobody =>
           /\ progress'[id] = progress[id]
           /\ progress[id] \in ToSet(completed) /\ IdOf[progress[id]] = id
                => progress[id] \in ToSet(completed')
  BY <1>0, PruneKeeps
<1>2. QueueTypeOK'
  BY <1>0, <1>1 DEF QueueTypeOK
<1>3. PICK n \in 0..Len(completed) :
        \A i \in DOMAIN completed' :
          n + i \in DOMAIN completed /\ completed'[i] = completed[n + i]
  BY <1>1
<1>4. DOMAIN completed' \subseteq Int /\ n \in Int
  BY <1>0, <1>1, LenProperties
<1>5. IdsDistinct'
  <2>1. ASSUME NEW i \in DOMAIN completed', NEW k \in DOMAIN completed',
               IdOf[completed'[i]] = IdOf[completed'[k]]
        PROVE  i = k
    <3>1. n + i = n + k
      BY <2>1, <1>3 DEF IInv, IdsDistinct
    <3> QED  BY <3>1, <1>4
  <2>2. \A i \in DOMAIN completed' : active[IdOf[completed'[i]]] = Nobody
    BY <1>3 DEF IInv, IdsDistinct
  <2> QED  BY <2>1, <2>2 DEF IInv, IdsDistinct
<1>6. ProgressIsOwn'
  BY <1>1 DEF IInv, ProgressIsOwn
<1> QED  BY <1>2, <1>5, <1>6

LEMMA DuplicateKeeps ==
  ASSUME IInv, NEW t \in Requests, Duplicate(t)
  PROVE  IInv'
<1>0. TypeOK /\ SlotsExact /\ pc \in [Requests -> Places]
  BY DEF IInv, TypeOK
<1>1. /\ PruneCompleted(completed) /\ UNCHANGED <<running, waiting, active, ready>>
      /\ UNCHANGED <<cut, thread, posted, inflight>>
      /\ \E to \in {"closing", "done"} :
           /\ pc[t] = (IF to = "closing" THEN "uploading" ELSE "idle")
           /\ pc' = [pc EXCEPT ![t] = to]
  BY DEF Duplicate, Refuse, Goto
<1>2. QueueTypeOK' /\ IdsDistinct' /\ ProgressIsOwn'
  BY <1>1, PruneOnlyKeeps
<1>3. SlotsExact'
  BY <1>0, <1>1, GateCount DEF Inside, Places
<1>4. TypeOK'
  BY <1>0, <1>1, <1>2 DEF TypeOK, Places
<1>5. LineShape' /\ OneInference'
  BY <1>0, <1>1 DEF IInv, LineShape, OneInference
<1>6. TurnHasOwner'
  BY <1>0, <1>1 DEF IInv, TurnHasOwner, TypeOK, QueueTypeOK
<1> QED  BY <1>2, <1>3, <1>4, <1>5, <1>6 DEF IInv

LEMMA ObserveKeeps ==
  ASSUME IInv, Observe \/ Time
  PROVE  IInv'
<1>1. UNCHANGED <<running, waiting, active, ready, pc, cut, thread, posted, inflight>>
  BY DEF Observe, Time, Status, Lapse, handlerVars
<1>2. QueueTypeOK' /\ IdsDistinct' /\ ProgressIsOwn'
  <2>1. CASE Observe
    BY <2>1, PruneOnlyKeeps DEF Observe, Status
  <2>2. CASE Time
    <3>1. UNCHANGED <<completed, progress>> /\ lapsed < Len(completed) /\ lapsed' = lapsed + 1
      BY <2>2 DEF Time, Lapse
    <3>2. QueueTypeOK'
      <4>1. QueueTypeOK /\ Len(completed) \in Nat /\ lapsed \in 0..Len(completed)
        BY LenProperties DEF IInv, TypeOK, QueueTypeOK
      <4>2. lapsed' \in 0..Len(completed)
        BY <3>1, <4>1
      <4> QED  BY <1>1, <3>1, <4>1, <4>2 DEF QueueTypeOK
    <3>3. IdsDistinct' /\ ProgressIsOwn'
      BY <1>1, <3>1 DEF IInv, IdsDistinct, ProgressIsOwn
    <3> QED  BY <3>2, <3>3
  <2> QED  BY <2>1, <2>2
<1>3. TypeOK'
  BY <1>1, <1>2 DEF IInv, TypeOK
<1>4. SlotsExact' /\ LineShape' /\ OneInference' /\ TurnHasOwner'
  BY <1>1 DEF IInv, SlotsExact, Inside, LineShape, OneInference, TurnHasOwner
<1> QED  BY <1>2, <1>3, <1>4 DEF IInv

LEMMA DeliverKeeps ==
  ASSUME IInv, NEW t \in Requests, DeliverUpdate(t)
  PROVE  IInv'
<1>1. UNCHANGED <<running, waiting, active, completed, lapsed, ready, pc, cut, thread, inflight>>
  BY DEF DeliverUpdate, UpdateProgress
<1>2. progress' = IF running = t /\ active[IdOf[t]] = t
                    THEN [progress EXCEPT ![IdOf[t]] = t] ELSE progress
  BY DEF DeliverUpdate, UpdateProgress
<1>3. posted[t] > 0 /\ posted' = [posted EXCEPT ![t] = posted[t] - 1]
  BY DEF DeliverUpdate
<1>4. TypeOK'
  <2>1. QueueTypeOK'
    BY <1>1, <1>2, TicketsAssumption DEF IInv, TypeOK, QueueTypeOK
  <2>2. posted[t] \in 0..MaxUpdates /\ MaxUpdates \in Nat
    BY EngineAssumption DEF IInv, TypeOK
  <2>3. posted[t] - 1 \in 0..MaxUpdates
    BY <2>2, <1>3
  <2> QED  BY <1>1, <1>3, <2>1, <2>3 DEF IInv, TypeOK
<1>5. ProgressIsOwn'
  <2> SUFFICES ASSUME NEW id \in RequestIds, progress'[id] # Nobody
               PROVE  \/ progress'[id] = running /\ IdOf[running] = id
                      \/ progress'[id] \in ToSet(completed) /\ IdOf[progress'[id]] = id
    BY <1>1 DEF ProgressIsOwn
  <2> QED  BY <1>2 DEF IInv, ProgressIsOwn, TypeOK, QueueTypeOK
<1>6. SlotsExact' /\ LineShape' /\ OneInference' /\ TurnHasOwner' /\ IdsDistinct'
  BY <1>1 DEF IInv, SlotsExact, Inside, LineShape, OneInference, TurnHasOwner, IdsDistinct
<1> QED  BY <1>4, <1>5, <1>6 DEF IInv

----------------------------------------------------------------------------
(* A ticket is taken.                                                      *)

LEMMA TakeTicketKeeps ==
  ASSUME IInv, NEW t \in Requests, TakeTicket(t)
  PROVE  IInv'
<1>0. /\ TypeOK /\ QueueTypeOK /\ SlotsExact /\ pc \in [Requests -> Places]
      /\ waiting \in Seq(Requests) /\ completed \in Seq(Requests) /\ lapsed <= Len(completed)
      /\ IdOf \in [Requests -> RequestIds] /\ Nobody \notin Requests
  BY LenProperties, TicketsAssumption DEF IInv, TypeOK, QueueTypeOK
<1>1. /\ PruneCompleted(completed) /\ ~Known(t)
      /\ active' = [active EXCEPT ![IdOf[t]] = t]
      /\ pc' = [pc EXCEPT ![t] = "queued"]
      /\ UNCHANGED <<cut, thread, posted>>
  BY DEF TakeTicket, Register, Goto
<1>2. /\ pc[t] \in {"idle", "uploading"}
      /\ SlotsExact' /\ inflight' \in 0..MaxInflight
  <2>1. CASE Goto(t, "uploading", "queued") /\ UNCHANGED inflight
    BY <2>1, <1>0, GateCount DEF Goto, Inside, Places, TypeOK
  <2>2. CASE Goto(t, "idle", "queued") /\ inflight < MaxInflight /\ inflight' = inflight + 1
    <3>1. t \notin Inside /\ "queued" \in Places /\ pc[t] = "idle"
      BY <2>2 DEF Goto, Inside, Places
    <3>2. SlotsExact'
      BY <2>2, <3>1, <1>0, <1>1, GateCount
    <3>3. inflight \in 0..MaxInflight /\ MaxInflight \in Nat
      BY <1>0, EngineAssumption DEF TypeOK
    <3> QED  BY <2>2, <3>1, <3>2, <3>3
  <2> QED  BY <2>1, <2>2 DEF TakeTicket
<1>3. /\ t # running /\ t \notin ToSet(waiting) /\ ~ready[t] /\ thread[t] = "none"
      /\ active[IdOf[t]] = Nobody
      /\ \A c \in ToSet(completed') : IdOf[c] # IdOf[t]
  BY <1>0, <1>1, <1>2 DEF IInv, LineShape, TurnHasOwner, Known
<1>4. /\ completed' \in Seq(Requests)
      /\ lapsed' \in 0..Len(completed')
      /\ progress' \in [RequestIds -> Requests \cup {Nobody}]
      /\ \E n \in 0..Len(completed) :
           \A i \in DOMAIN completed' :
             n + i \in DOMAIN completed /\ completed'[i] = completed[n + i]
      /\ \A id \in RequestIds : progress'[id] # Nobody =>
           /\ progress'[id] = progress[id]
           /\ progress[id] \in ToSet(completed) /\ IdOf[progress[id]] = id
                => progress[id] \in ToSet(completed')
  BY <1>0, <1>1, PruneKeeps
<1>5. /\ running' \in Requests /\ running' = (IF running = Nobody THEN t ELSE running)
      /\ waiting' \in Seq(Requests) /\ IsInjective(waiting')
      /\ ToSet(waiting') = (IF running = Nobody THEN {} ELSE ToSet(waiting) \cup {t})
      /\ (running = Nobody => waiting = <<>> /\ waiting' = <<>> /\ ToSet(waiting) = {})
      /\ ready' = (IF running = Nobody THEN [ready EXCEPT ![t] = TRUE] ELSE ready)
  <2>1. CASE running = Nobody
    <3>1. waiting = <<>> /\ running' = t /\ waiting' = waiting
          /\ ready' = [ready EXCEPT ![t] = TRUE]
      BY <2>1 DEF IInv, TurnHasOwner, TakeTicket, Register
    <3>2. ToSet(waiting) = {}
      <4>1. DOMAIN waiting = {}
        BY <3>1, <1>0, EmptySeq, LenProperties
      <4> QED  BY <4>1 DEF ToSet
    <3> QED  BY <2>1, <3>1, <3>2, <1>0 DEF IInv, LineShape
  <2>2. CASE running # Nobody
    <3>1. waiting' = Append(waiting, t) /\ running' = running /\ ready' = ready
      BY <2>2 DEF TakeTicket, Register
    <3> QED  BY <2>2, <3>1, <1>0, <1>3, AppendNew DEF IInv, LineShape, QueueTypeOK
  <2> QED  BY <2>1, <2>2
<1>6. TypeOK'
  <2>1. ready' \in [Requests -> BOOLEAN] /\ active' \in [RequestIds -> Requests \cup {Nobody}]
    BY <1>0, <1>1, <1>5 DEF QueueTypeOK
  <2>2. QueueTypeOK'
    BY <1>4, <1>5, <2>1 DEF QueueTypeOK
  <2> QED  BY <1>0, <1>1, <1>2, <2>2 DEF TypeOK, Places
<1>7. LineShape'
  <2>1. IsInjective(waiting') /\ running' \notin ToSet(waiting')
    BY <1>0, <1>3, <1>5 DEF IInv, LineShape
  <2>2. \A u \in ToSet(waiting') : ~ready'[u] /\ pc'[u] = "queued"
    BY <1>0, <1>1, <1>3, <1>5 DEF IInv, LineShape
  <2>3. ASSUME NEW u \in Requests
        PROVE  /\ pc'[u] \in {"idle", "uploading"} => ~ready'[u]
               /\ thread'[u] # "none" <=> pc'[u] = "inferring"
    BY <1>0, <1>1, <1>3, <1>5 DEF IInv, LineShape, QueueTypeOK
  <2> QED  BY <2>1, <2>2, <2>3 DEF LineShape
<1>8. OneInference'
  BY <1>0, <1>1, <1>3, <1>5 DEF IInv, OneInference
<1>9. TurnHasOwner'
  <2>1. ASSUME NEW u \in Requests
        PROVE  pc'[u] \in {"queued", "inferring"} <=> u = running' \/ u \in ToSet(waiting')
    BY <1>0, <1>1, <1>3, <1>5 DEF IInv, TurnHasOwner
  <2>2. ready'[running']
    BY <1>0, <1>5 DEF IInv, TurnHasOwner, QueueTypeOK
  <2> QED  BY <1>0, <1>5, <2>1, <2>2 DEF TurnHasOwner
<1>10. IdsDistinct'
  <2>1. ASSUME NEW u \in Requests
        PROVE  active'[IdOf[u]] = u <=> (u = running' \/ u \in ToSet(waiting'))
    BY <1>0, <1>1, <1>3, <1>5 DEF IInv, IdsDistinct, QueueTypeOK
  <2>2. PICK n \in 0..Len(completed) :
          \A i \in DOMAIN completed' :
            n + i \in DOMAIN completed /\ completed'[i] = completed[n + i]
    BY <1>4
  <2>3. DOMAIN completed' \subseteq Int /\ n \in Int
    BY <1>0, <1>4, LenProperties
  <2>4. ASSUME NEW i \in DOMAIN completed', NEW m \in DOMAIN completed',
               IdOf[completed'[i]] = IdOf[completed'[m]]
        PROVE  i = m
    <3>1. n + i = n + m
      BY <2>4, <2>2 DEF IInv, IdsDistinct
    <3> QED  BY <3>1, <2>3
  <2>5. ASSUME NEW i \in DOMAIN completed' PROVE active'[IdOf[completed'[i]]] = Nobody
    <3>1. active[IdOf[completed'[i]]] = Nobody
      BY <2>2 DEF IInv, IdsDistinct
    <3>2. completed'[i] \in ToSet(completed')
      BY DEF ToSet
    <3> QED  BY <3>1, <3>2, <1>0, <1>1, <1>3 DEF QueueTypeOK
  <2> QED  BY <2>1, <2>4, <2>5 DEF IdsDistinct
<1>11. ProgressIsOwn'
  <2> SUFFICES ASSUME NEW id \in RequestIds, progress'[id] # Nobody
               PROVE  \/ progress'[id] = running' /\ IdOf[running'] = id
                      \/ progress'[id] \in ToSet(completed') /\ IdOf[progress'[id]] = id
    BY DEF ProgressIsOwn
  <2> QED  BY <1>4, <1>5 DEF IInv, ProgressIsOwn
<1> QED  BY <1>2, <1>6, <1>7, <1>8, <1>9, <1>10, <1>11 DEF IInv

----------------------------------------------------------------------------
(* A ticket is given back.                                                 *)

(* The one whose turn it is goes, and the next in line is promoted.        *)
LEMMA TurnPasses ==
  ASSUME IInv, NEW t \in Requests, running = t, Promote,
         active' = [active EXCEPT ![IdOf[t]] = Nobody],
         NEW to \in {"closing", "done"}, pc' = [pc EXCEPT ![t] = to],
         thread' = [thread EXCEPT ![t] = "none"]
  PROVE  /\ running' \in Requests \cup {Nobody} /\ waiting' \in Seq(Requests)
         /\ active' \in [RequestIds -> Requests \cup {Nobody}]
         /\ ready' \in [Requests -> BOOLEAN]
         /\ LineShape' /\ OneInference' /\ TurnHasOwner'
         /\ \A u \in Requests :
              active'[IdOf[u]] = u <=> (u = running' \/ u \in ToSet(waiting'))
<1>0. /\ QueueTypeOK /\ pc \in [Requests -> Places] /\ waiting \in Seq(Requests)
      /\ thread \in [Requests -> {"none", "running", "returned"}]
      /\ IdOf \in [Requests -> RequestIds] /\ Nobody \notin Requests
      /\ IsInjective(waiting) /\ t \notin ToSet(waiting)
      /\ ToSet(waiting) \subseteq Requests
  <2>1. ToSet(waiting) \subseteq Requests
    BY LenProperties, ElementOfSeq DEF IInv, TypeOK, QueueTypeOK, ToSet
  <2> QED  BY <2>1, TicketsAssumption DEF IInv, TypeOK, QueueTypeOK, LineShape
<1>1. active[IdOf[t]] = t /\ \A u \in ToSet(waiting) : active[IdOf[u]] = u
  BY <1>0 DEF IInv, IdsDistinct
<1>2. \A u \in ToSet(waiting) : active'[IdOf[u]] = u
  BY <1>0, <1>1 DEF QueueTypeOK
<1>3. /\ active' \in [RequestIds -> Requests \cup {Nobody}]
      /\ \A u \in Requests : active'[IdOf[u]] = u <=> u \in ToSet(waiting)
  BY <1>0, <1>1, <1>2 DEF IInv, IdsDistinct, QueueTypeOK
<1>4. /\ running' \in ToSet(waiting) \cup {Nobody}
      /\ waiting' \in Seq(Requests) /\ IsInjective(waiting')
      /\ ToSet(waiting') = ToSet(waiting) \ {running'}
      /\ ready' = (IF running' = Nobody THEN ready ELSE [ready EXCEPT ![running'] = TRUE])
      /\ running' = Nobody => waiting' = <<>> /\ ToSet(waiting) = {}
  <2>1. CASE waiting = <<>> /\ running' = Nobody /\ waiting' = <<>> /\ ready' = ready
    <3>1. DOMAIN waiting = {}
      BY <2>1, <1>0, EmptySeq, LenProperties
    <3>2. ToSet(waiting) = {}
      BY <3>1 DEF ToSet
    <3> QED  BY <2>1, <3>2, <1>0
  <2>2. CASE /\ waiting # <<>> /\ Head(waiting) \in Requests
             /\ running' = Head(waiting) /\ waiting' = Tail(waiting)
             /\ ready' = [ready EXCEPT ![Head(waiting)] = TRUE]
    <3>1. /\ Tail(waiting) \in Seq(Requests)
          /\ ToSet(waiting) = {Head(waiting)} \cup ToSet(Tail(waiting))
          /\ Head(waiting) \notin ToSet(Tail(waiting)) /\ IsInjective(Tail(waiting))
      BY <2>2, <1>0, PopFront
    <3> QED  BY <2>2, <3>1, <1>0
  <2> QED  BY <2>1, <2>2, <1>0, <1>2, PromoteFirst
<1>5. LineShape'
  <2>1. running' \notin ToSet(waiting')
    BY <1>4
  <2>2. \A u \in ToSet(waiting') : ~ready'[u] /\ pc'[u] = "queued"
    BY <1>0, <1>4 DEF IInv, LineShape, QueueTypeOK
  <2>3. ASSUME NEW u \in Requests
        PROVE  /\ pc'[u] \in {"idle", "uploading"} => ~ready'[u]
               /\ thread'[u] # "none" <=> pc'[u] = "inferring"
    BY <1>0, <1>4 DEF IInv, LineShape, QueueTypeOK
  <2> QED  BY <1>4, <2>1, <2>2, <2>3 DEF LineShape
<1>6. OneInference'
  BY <1>0 DEF IInv, OneInference
<1>7. TurnHasOwner'
  <2>1. ASSUME NEW u \in Requests
        PROVE  pc'[u] \in {"queued", "inferring"} <=> u = running' \/ u \in ToSet(waiting')
    BY <1>0, <1>4 DEF IInv, TurnHasOwner
  <2>2. running' # Nobody => pc'[running'] \in {"queued", "inferring"} /\ ready'[running']
    BY <1>0, <1>4 DEF IInv, LineShape, QueueTypeOK
  <2> QED  BY <1>4, <2>1, <2>2 DEF TurnHasOwner
<1>8. ASSUME NEW u \in Requests
      PROVE  active'[IdOf[u]] = u <=> (u = running' \/ u \in ToSet(waiting'))
  BY <1>0, <1>3, <1>4
<1>9. ready' \in [Requests -> BOOLEAN] /\ running' \in Requests \cup {Nobody}
  BY <1>0, <1>4 DEF QueueTypeOK
<1> QED  BY <1>3, <1>4, <1>5, <1>6, <1>7, <1>8, <1>9

(* Whichever way a handler is through with its ticket, the gate still       *)
(* counts.                                                                 *)
LEMMA FinishCounts ==
  ASSUME TypeOK, SlotsExact, NEW t \in Requests, t \in Inside, Finish(t)
  PROVE  /\ SlotsExact' /\ inflight' \in 0..MaxInflight
         /\ \E to \in {"closing", "done"} : pc' = [pc EXCEPT ![t] = to]
<1>1. CASE pc' = [pc EXCEPT ![t] = "done"] /\ inflight' = inflight - 1
  <2>1. SlotsExact' /\ inflight > 0
    BY <1>1, GateCount DEF TypeOK, Places
  <2>2. inflight \in 0..MaxInflight /\ MaxInflight \in Nat
    BY EngineAssumption DEF TypeOK
  <2> QED  BY <1>1, <2>1, <2>2
<1>2. CASE pc' = [pc EXCEPT ![t] = "closing"] /\ UNCHANGED inflight
  <2>1. SlotsExact'
    BY <1>2, GateCount DEF TypeOK, Places
  <2> QED  BY <1>2, <2>1 DEF TypeOK
<1> QED  BY <1>1, <1>2 DEF Finish

LEMMA InferenceEndsKeeps ==
  ASSUME IInv, NEW t \in Requests, InferenceEnds(t)
  PROVE  IInv'
<1>0. /\ TypeOK /\ QueueTypeOK /\ SlotsExact
      /\ completed \in Seq(Requests) /\ lapsed <= Len(completed) /\ Len(completed) \in Nat
      /\ DOMAIN completed = 1..Len(completed) /\ lapsed \in Nat
      /\ IdOf \in [Requests -> RequestIds] /\ Nobody \notin Requests
  BY LenProperties, TicketsAssumption DEF IInv, TypeOK, QueueTypeOK
<1>1. running = t /\ t \in Inside /\ active[IdOf[t]] = t
  BY DEF IInv, InferenceEnds, OneInference, Inside, IdsDistinct
<1> DEFINE done == Append(completed, t)
<1>2. /\ active' = [active EXCEPT ![IdOf[t]] = Nobody]
      /\ PruneCompleted(done) /\ Promote
      /\ thread' = [thread EXCEPT ![t] = "none"] /\ UNCHANGED <<cut, posted>>
  BY <1>1 DEF InferenceEnds, Complete
<1>3. /\ SlotsExact' /\ inflight' \in 0..MaxInflight
      /\ \E to \in {"closing", "done"} : pc' = [pc EXCEPT ![t] = to]
  BY <1>0, <1>1, FinishCounts DEF InferenceEnds
<1>4. /\ running' \in Requests \cup {Nobody} /\ waiting' \in Seq(Requests)
      /\ active' \in [RequestIds -> Requests \cup {Nobody}]
      /\ ready' \in [Requests -> BOOLEAN]
      /\ LineShape' /\ OneInference' /\ TurnHasOwner'
      /\ \A u \in Requests :
           active'[IdOf[u]] = u <=> (u = running' \/ u \in ToSet(waiting'))
  BY <1>1, <1>2, <1>3, TurnPasses
<1>5. /\ done \in Seq(Requests) /\ Len(done) = Len(completed) + 1
      /\ \A i \in 1..Len(completed) : done[i] = completed[i]
      /\ done[Len(completed) + 1] = t
      /\ ToSet(done) = ToSet(completed) \cup {t}
  BY <1>0, AppendProperties, AppendNew
<1> HIDE DEF done
<1>6. DOMAIN done = 1..(Len(completed) + 1) /\ lapsed <= Len(done)
  BY <1>0, <1>5, LenProperties
<1>7. /\ completed' \in Seq(Requests)
      /\ lapsed' \in 0..Len(completed')
      /\ progress' \in [RequestIds -> Requests \cup {Nobody}]
      /\ \E n \in 0..Len(done) :
           \A i \in DOMAIN completed' : n + i \in DOMAIN done /\ completed'[i] = done[n + i]
      /\ \A id \in RequestIds : progress'[id] # Nobody =>
           /\ progress'[id] = progress[id]
           /\ progress[id] \in ToSet(done) /\ IdOf[progress[id]] = id
                => progress[id] \in ToSet(completed')
  BY <1>0, <1>2, <1>5, <1>6, PruneKeeps
<1>8. TypeOK'
  <2>1. QueueTypeOK'
    BY <1>4, <1>7 DEF QueueTypeOK
  <2> QED  BY <1>0, <1>2, <1>3, <2>1 DEF TypeOK, Places
<1>9. \A i \in DOMAIN done, k \in DOMAIN done : IdOf[done[i]] = IdOf[done[k]] => i = k
  <2>1. \A i \in DOMAIN done : \/ i \in DOMAIN completed /\ done[i] = completed[i]
                               \/ i = Len(completed) + 1 /\ done[i] = t
    <3>1. ASSUME NEW i \in 1..(Len(completed) + 1)
          PROVE  i \in 1..Len(completed) \/ i = Len(completed) + 1
      BY <1>0
    <3>2. \A i \in 1..Len(completed) : i \in DOMAIN completed /\ done[i] = completed[i]
      BY <1>0, <1>5
    <3>3. done[Len(completed) + 1] = t
      BY <1>5
    <3> QED  BY <3>1, <3>2, <3>3, <1>6
  <2>2. \A i \in DOMAIN completed : active[IdOf[completed[i]]] = Nobody
    BY DEF IInv, IdsDistinct
  <2>3. \A i \in DOMAIN completed : IdOf[completed[i]] # IdOf[t]
    BY <2>2, <1>0, <1>1
  <2> QED  BY <2>1, <2>3 DEF IInv, IdsDistinct
<1>10. \A i \in DOMAIN done : active'[IdOf[done[i]]] = Nobody
  <2>1. \A u \in ToSet(completed) : active[IdOf[u]] = Nobody
    BY DEF IInv, IdsDistinct, ToSet
  <2>2. \A u \in ToSet(done) : active'[IdOf[u]] = Nobody
    <3>1. ToSet(done) \subseteq Requests
      BY <1>5, LenProperties, ElementOfSeq DEF ToSet
    <3>2. active \in [RequestIds -> Requests \cup {Nobody}] /\ active' = [active EXCEPT ![IdOf[t]] = Nobody]
      BY <1>0, <1>2 DEF QueueTypeOK
    <3> QED  BY <2>1, <3>1, <3>2, <1>0, <1>5
  <2> QED  BY <2>2 DEF ToSet
<1>11. IdsDistinct'
  <2>1. PICK n \in 0..Len(done) :
          \A i \in DOMAIN completed' : n + i \in DOMAIN done /\ completed'[i] = done[n + i]
    BY <1>7
  <2>2. DOMAIN completed' \subseteq Int /\ n \in Int
    BY <1>5, <1>7, LenProperties
  <2>3. ASSUME NEW i \in DOMAIN completed', NEW m \in DOMAIN completed',
               IdOf[completed'[i]] = IdOf[completed'[m]]
        PROVE  i = m
    <3>1. n + i = n + m
      BY <2>3, <2>1, <1>9
    <3> QED  BY <3>1, <2>2
  <2>4. \A i \in DOMAIN completed' : active'[IdOf[completed'[i]]] = Nobody
    BY <2>1, <1>10
  <2> QED  BY <1>4, <2>3, <2>4 DEF IdsDistinct
<1>12. ProgressIsOwn'
  <2> SUFFICES ASSUME NEW id \in RequestIds, progress'[id] # Nobody
               PROVE  progress'[id] \in ToSet(completed') /\ IdOf[progress'[id]] = id
    BY DEF ProgressIsOwn
  <2>1. progress'[id] = progress[id]
    BY <1>7
  <2>2. progress[id] \in ToSet(done) /\ IdOf[progress[id]] = id
    BY <2>1, <1>1, <1>5 DEF IInv, ProgressIsOwn
  <2> QED  BY <2>1, <2>2, <1>7
<1> QED  BY <1>3, <1>4, <1>8, <1>11, <1>12 DEF IInv

LEMMA HangUpQueuedKeeps ==
  ASSUME IInv, NEW t \in Requests, HangUpQueued(t)
  PROVE  IInv'
<1>0. /\ TypeOK /\ QueueTypeOK /\ SlotsExact /\ waiting \in Seq(Requests)
      /\ IdOf \in [Requests -> RequestIds] /\ Nobody \notin Requests
      /\ IsInjective(waiting) /\ running \notin ToSet(waiting)
  BY TicketsAssumption DEF IInv, TypeOK, QueueTypeOK, LineShape
<1>1. /\ pc[t] = "queued" /\ t \in Inside /\ thread[t] = "none"
      /\ t = running \/ t \in ToSet(waiting)
      /\ active[IdOf[t]] = t
  BY DEF HangUpQueued, Inside, IInv, LineShape, TurnHasOwner, IdsDistinct
<1>2. /\ progress' = [progress EXCEPT ![IdOf[t]] = Nobody]
      /\ active' = [active EXCEPT ![IdOf[t]] = Nobody]
      /\ running = t => Promote
      /\ running # t => waiting' = RemoveFirst(waiting, t) /\ UNCHANGED <<running, ready>>
      /\ UNCHANGED <<completed, lapsed, cut, thread, posted>>
  BY <1>1 DEF HangUpQueued, Abandon
<1>3. /\ SlotsExact' /\ inflight' \in 0..MaxInflight
      /\ \E to \in {"closing", "done"} : pc' = [pc EXCEPT ![t] = to]
  BY <1>0, <1>1, FinishCounts DEF HangUpQueued
<1>4. /\ running' \in Requests \cup {Nobody} /\ waiting' \in Seq(Requests)
      /\ active' \in [RequestIds -> Requests \cup {Nobody}]
      /\ ready' \in [Requests -> BOOLEAN]
      /\ LineShape' /\ OneInference' /\ TurnHasOwner'
      /\ \A u \in Requests :
           active'[IdOf[u]] = u <=> (u = running' \/ u \in ToSet(waiting'))
      /\ running # t => running' = running
  <2>1. CASE running = t
    <3>1. thread' = [thread EXCEPT ![t] = "none"]
      BY <1>0, <1>1, <1>2 DEF TypeOK
    <3> QED  BY <2>1, <3>1, <1>2, <1>3, TurnPasses
  <2>2. CASE running # t
    <3>1. /\ waiting' \in Seq(Requests) /\ IsInjective(waiting')
          /\ ToSet(waiting') = ToSet(waiting) \ {t}
          /\ running' = running /\ ready' = ready
      BY <2>2, <1>0, <1>2, RemoveFirstElement
    <3>2. LineShape'
      BY <3>1, <1>0, <1>1, <1>2, <1>3 DEF IInv, LineShape, TypeOK
    <3>3. OneInference'
      BY <3>1, <1>2 DEF IInv, OneInference
    <3>4. TurnHasOwner'
      <4>1. running # Nobody
        BY <2>2, <1>0, <1>1, EmptySeq, LenProperties DEF IInv, TurnHasOwner, ToSet
      <4> QED  BY <4>1, <2>2, <3>1, <1>0, <1>1, <1>3 DEF IInv, TurnHasOwner, TypeOK
    <3>5. active' \in [RequestIds -> Requests \cup {Nobody}]
      BY <1>0, <1>2 DEF QueueTypeOK
    <3>6. ASSUME NEW u \in Requests
          PROVE  active'[IdOf[u]] = u <=> (u = running' \/ u \in ToSet(waiting'))
      BY <2>2, <3>1, <1>0, <1>1, <1>2 DEF IInv, IdsDistinct, QueueTypeOK
    <3> QED  BY <3>1, <3>2, <3>3, <3>4, <3>5, <3>6, <1>0 DEF QueueTypeOK
  <2> QED  BY <2>1, <2>2
<1>5. TypeOK'
  <2>1. QueueTypeOK'
    BY <1>0, <1>2, <1>4 DEF QueueTypeOK
  <2> QED  BY <1>0, <1>2, <1>3, <2>1 DEF TypeOK, Places
<1>6. IdsDistinct'
  BY <1>0, <1>2, <1>4 DEF IInv, IdsDistinct, QueueTypeOK
<1>7. ProgressIsOwn'
  <2> SUFFICES ASSUME NEW id \in RequestIds, progress'[id] # Nobody
               PROVE  \/ progress'[id] = running' /\ IdOf[running'] = id
                      \/ progress'[id] \in ToSet(completed') /\ IdOf[progress'[id]] = id
    BY DEF ProgressIsOwn
  <2>1. id # IdOf[t] /\ progress'[id] = progress[id]
    BY <1>0, <1>2 DEF QueueTypeOK
  <2> QED  BY <2>1, <1>2, <1>4 DEF IInv, ProgressIsOwn
<1> QED  BY <1>3, <1>4, <1>5, <1>6, <1>7 DEF IInv

----------------------------------------------------------------------------
(* The invariant.                                                          *)

THEOREM Inductive == IInv /\ [Next]_vars => IInv'
<1> SUFFICES ASSUME IInv, [Next]_vars PROVE IInv'
  OBVIOUS
<1>1. ASSUME NEW t \in Requests, Handler(t) PROVE IInv'
  BY <1>1, HandlerOnlyKeeps, TakeTicketKeeps, DuplicateKeeps, HangUpQueuedKeeps,
     DeliverKeeps, InferenceEndsKeeps DEF Handler, Served
<1>2. CASE Observe \/ Time
  BY <1>2, ObserveKeeps
<1>3. CASE UNCHANGED vars
  BY <1>3 DEF vars, queueVars, handlerVars, IInv, TypeOK, QueueTypeOK, SlotsExact, Inside,
     LineShape, OneInference, TurnHasOwner, IdsDistinct, ProgressIsOwn
<1> QED  BY <1>1, <1>2, <1>3 DEF Next

THEOREM Invariance == Spec => []IInv
BY InitIInv, Inductive, PTL DEF Spec

(* Every variable keeps its type; the admission gate is never exceeded.     *)
THEOREM TypeCorrect == Spec => []TypeOK
<1>1. IInv => TypeOK
  BY DEF IInv
<1> QED  BY <1>1, Invariance, PTL

(* Inference never overlaps, even of requests whose clients hung up, and the *)
(* turn is never with a handler that is gone.                               *)
THEOREM GateHolds == Spec => []GateInHands
<1>1. IInv => GateInHands
  BY DEF IInv, GateInHands
<1> QED  BY <1>1, Invariance, PTL

(* Request IDs and progress are never mixed up.                            *)
THEOREM StatusIsTrue == Spec => []StatusOfOne
<1>1. IInv => StatusOfOne
  BY DEF IInv, StatusOfOne
<1> QED  BY <1>1, Invariance, PTL

----------------------------------------------------------------------------
(* The gate is a line with one worker at its head.                         *)

(* The line, as the refinement reads it.                                   *)
InLine == IF running = Nobody THEN <<>> ELSE <<running>> \o waiting
Told == {t \in Requests : ready[t]}
Working == {t \in Requests : thread[t] = "running"}

(* The abstract module brings its own copy of the library's operators.      *)
LEMMA SameOperators ==
  /\ \A s : Line!ToSet(s) = ToSet(s)
  /\ \A s, e : Line!RemoveFirst(s, e) = RemoveFirst(s, e)
BY DEF Line!ToSet, ToSet, Line!RemoveFirst, RemoveFirst, Line!RemoveAt, RemoveAt,
       Line!SelectInSeq, SelectInSeq, Line!Min, Min

LEMMA ReadJoin ==
  ASSUME NEW t \in Requests, t \notin ToSet(InLine), InLine' = Append(InLine, t),
         Told' = Told \cup (IF InLine' = <<>> THEN {} ELSE {Head(InLine')}),
         Working' = Working
  PROVE  Line!Join(t)
BY SameOperators DEF Line!Join, Line!Announce, InLine, Told, Working

LEMMA ReadLeave ==
  ASSUME NEW t \in Requests, t \in ToSet(InLine) \ Working,
         InLine' = RemoveFirst(InLine, t),
         Told' = Told \cup (IF InLine' = <<>> THEN {} ELSE {Head(InLine')}),
         Working' = Working
  PROVE  Line!Leave(t)
BY SameOperators DEF Line!Leave, Line!Announce, InLine, Told, Working

LEMMA LineIsTheSame ==
  ASSUME UNCHANGED <<running, waiting, ready>>
  PROVE  InLine' = InLine /\ Told' = Told
BY DEF InLine, Told

LEMMA JoinSteps ==
  ASSUME IInv, NEW t \in Requests, TakeTicket(t)
  PROVE  Line!Join(t)
<1>0. /\ QueueTypeOK /\ Nobody \notin Requests /\ waiting \in Seq(Requests)
      /\ pc[t] \in {"idle", "uploading"} /\ UNCHANGED thread /\ Register(t)
  BY TicketsAssumption DEF IInv, TypeOK, QueueTypeOK, TakeTicket, Goto
<1>1. t # running /\ t \notin ToSet(waiting)
  BY <1>0 DEF IInv, TurnHasOwner
<1>2. CASE running = Nobody
  <2>1. running' = t /\ waiting' = <<>> /\ ready' = [ready EXCEPT ![t] = TRUE]
    BY <1>0, <1>2 DEF Register, IInv, TurnHasOwner
  <2>2. InLine = <<>> /\ InLine' = <<t>> \o <<>>
    BY <1>0, <1>2, <2>1 DEF InLine
  <2>3. <<t>> \o <<>> = Append(<<>>, t) /\ <<t>> \o <<>> # <<>> /\ Head(<<t>> \o <<>>) = t
    <3>1. <<>> \in Seq(Requests) /\ <<t>> \in Seq(Requests)
      BY EmptySeq
    <3> QED  BY <3>1, FirstInLine, AppendIsConcat, ConcatEmptySeq
  <2>4. ToSet(<<>>) = {}
    BY DEF ToSet
  <2>5. Told' = Told \cup {t}
    BY <1>0, <2>1 DEF Told, QueueTypeOK
  <2>6. Working' = Working
    BY <1>0 DEF Working
  <2> QED  BY <2>2, <2>3, <2>4, <2>5, <2>6, ReadJoin
<1>3. CASE running # Nobody
  <2>1. running' = running /\ waiting' = Append(waiting, t) /\ ready' = ready
    BY <1>0, <1>3 DEF Register
  <2>2. running \in Requests /\ ready[running]
    BY <1>0, <1>3 DEF QueueTypeOK, IInv, TurnHasOwner
  <2>3. InLine = <<running>> \o waiting /\ InLine' = Append(InLine, t)
    BY <1>3, <2>1, <2>2, <1>0, JoinLine DEF InLine
  <2>4. t \notin ToSet(InLine)
    BY <2>2, <2>3, <1>0, <1>1, FirstInLine
  <2>5. InLine' = <<running>> \o Append(waiting, t) /\ Append(waiting, t) \in Seq(Requests)
    BY <1>0, <1>3, <2>1, AppendNew DEF InLine
  <2>6. InLine' # <<>> /\ Head(InLine') = running
    BY <2>2, <2>5, FirstInLine
  <2>7. Told' = Told \cup {running}
    BY <2>1, <2>2 DEF Told
  <2>8. Working' = Working
    BY <1>0 DEF Working
  <2> QED  BY <2>3, <2>4, <2>6, <2>7, <2>8, ReadJoin
<1> QED  BY <1>2, <1>3

LEMMA StartSteps ==
  ASSUME IInv, NEW t \in Requests, StartInference(t)
  PROVE  Line!Start(t)
<1>0. /\ pc[t] = "queued" /\ ready[t] /\ thread' = [thread EXCEPT ![t] = "running"]
      /\ UNCHANGED <<running, waiting, ready>>
      /\ waiting \in Seq(Requests) /\ Nobody \notin Requests
      /\ thread \in [Requests -> {"none", "running", "returned"}]
  BY TicketsAssumption
  DEF StartInference, Goto, queueVars, IInv, TypeOK, QueueTypeOK
<1>1. running = t
  BY <1>0 DEF IInv, TurnHasOwner, LineShape
<1>2. InLine = <<t>> \o waiting /\ InLine # <<>> /\ Head(InLine) = t
  BY <1>0, <1>1, FirstInLine DEF InLine
<1>3. Working = {} /\ Working' = {t}
  BY <1>0, <1>1 DEF Working, IInv, OneInference, LineShape
<1>4. InLine' = InLine /\ Told' = Told
  BY <1>0, LineIsTheSame
<1> QED  BY <1>2, <1>3, <1>4 DEF Line!Start, InLine, Told, Working

LEMMA StopSteps ==
  ASSUME IInv, NEW t \in Requests, ThreadReturns(t)
  PROVE  Line!Stop(t)
<1>0. /\ thread[t] = "running" /\ thread' = [thread EXCEPT ![t] = "returned"]
      /\ UNCHANGED <<running, waiting, ready>>
      /\ thread \in [Requests -> {"none", "running", "returned"}]
  BY DEF ThreadReturns, queueVars, IInv, TypeOK
<1>1. \A u \in Requests : thread[u] = "running" => u = t
  BY <1>0 DEF IInv, OneInference
<1>2. t \in Working /\ Working' = {}
  BY <1>0, <1>1 DEF Working
<1>3. InLine' = InLine /\ Told' = Told
  BY <1>0, LineIsTheSame
<1> QED  BY <1>2, <1>3 DEF Line!Stop, InLine, Told, Working

(* The first goes, and the next is told.                                   *)
LEMMA FirstLeaves ==
  ASSUME IInv, NEW t \in Requests, running = t, Promote, thread[t] # "running",
         active' = [active EXCEPT ![IdOf[t]] = Nobody], Working' = Working
  PROVE  Line!Leave(t)
<1>0. /\ QueueTypeOK /\ Nobody \notin Requests /\ waiting \in Seq(Requests)
      /\ IsInjective(waiting) /\ t \notin ToSet(waiting)
      /\ IdOf \in [Requests -> RequestIds]
      /\ ToSet(waiting) \subseteq Requests
  <2>1. ToSet(waiting) \subseteq Requests
    BY LenProperties, ElementOfSeq DEF IInv, TypeOK, QueueTypeOK, ToSet
  <2> QED  BY <2>1, TicketsAssumption DEF IInv, TypeOK, QueueTypeOK, LineShape
<1>1. active[IdOf[t]] = t /\ \A u \in ToSet(waiting) : active[IdOf[u]] = u
  BY <1>0 DEF IInv, IdsDistinct
<1>2. \A u \in ToSet(waiting) : active'[IdOf[u]] = u
  BY <1>0, <1>1 DEF QueueTypeOK
<1>3. InLine = <<t>> \o waiting /\ t \in ToSet(InLine) /\ RemoveFirst(InLine, t) = waiting
  <2>1. InLine = <<t>> \o waiting
    BY <1>0 DEF InLine
  <2>2. t \in ToSet(<<t>> \o waiting)
    BY <1>0, FirstInLine
  <2>3. RemoveFirst(<<t>> \o waiting, t) = waiting
    BY <1>0, LeaveFirst
  <2> QED  BY <2>1, <2>2, <2>3
<1>4. InLine' = waiting
      /\ Told' = Told \cup (IF waiting = <<>> THEN {} ELSE {Head(waiting)})
  <2>1. CASE waiting = <<>> /\ running' = Nobody /\ waiting' = <<>> /\ ready' = ready
    BY <2>1 DEF InLine, Told
  <2>2. CASE /\ waiting # <<>> /\ Head(waiting) \in Requests
             /\ running' = Head(waiting) /\ waiting' = Tail(waiting)
             /\ ready' = [ready EXCEPT ![Head(waiting)] = TRUE]
    <3>1. <<Head(waiting)>> \o Tail(waiting) = waiting
      BY <2>2, <1>0, HeadThenTail
    <3>2. InLine' = waiting
      BY <2>2, <3>1, <1>0 DEF InLine
    <3>3. Told' = Told \cup {Head(waiting)}
      BY <2>2, <1>0 DEF Told, QueueTypeOK
    <3> QED  BY <2>2, <3>2, <3>3
  <2> QED  BY <2>1, <2>2, <1>0, <1>2, PromoteFirst
<1>5. t \notin Working
  BY DEF Working
<1> QED  BY <1>3, <1>4, <1>5, ReadLeave

LEMMA EndSteps ==
  ASSUME IInv, NEW t \in Requests, InferenceEnds(t)
  PROVE  Line!Leave(t)
<1>1. thread[t] = "returned" /\ thread' = [thread EXCEPT ![t] = "none"] /\ running = t
      /\ thread \in [Requests -> {"none", "running", "returned"}]
  BY DEF IInv, TypeOK, InferenceEnds, OneInference
<1>2. Promote /\ active' = [active EXCEPT ![IdOf[t]] = Nobody]
  BY <1>1 DEF InferenceEnds, Complete
<1>3. Working' = Working
  BY <1>1 DEF Working
<1> QED  BY <1>1, <1>2, <1>3, FirstLeaves

LEMMA AbandonSteps ==
  ASSUME IInv, NEW t \in Requests, HangUpQueued(t)
  PROVE  Line!Leave(t)
<1>0. /\ pc[t] = "queued" /\ thread[t] = "none" /\ UNCHANGED thread
      /\ t = running \/ t \in ToSet(waiting)
      /\ active[IdOf[t]] = t
  BY DEF HangUpQueued, IInv, LineShape, TurnHasOwner, IdsDistinct
<1>1. Working' = Working /\ t \notin Working
  BY <1>0 DEF Working
<1>2. CASE running = t
  <2>1. Promote /\ active' = [active EXCEPT ![IdOf[t]] = Nobody]
    BY <1>0, <1>2 DEF HangUpQueued, Abandon
  <2> QED  BY <1>0, <1>1, <1>2, <2>1, FirstLeaves
<1>3. CASE running # t
  <2>0. /\ waiting \in Seq(Requests) /\ IsInjective(waiting) /\ running \notin ToSet(waiting)
        /\ running \in Requests \cup {Nobody} /\ Nobody \notin Requests
    BY TicketsAssumption DEF IInv, TypeOK, QueueTypeOK, LineShape
  <2>1. waiting' = RemoveFirst(waiting, t) /\ running' = running /\ ready' = ready
    BY <1>0, <1>3 DEF HangUpQueued, Abandon
  <2>2. running \in Requests /\ ready[running]
    BY <1>0, <1>3, <2>0, EmptySeq, LenProperties DEF IInv, TurnHasOwner, ToSet
  <2>3. InLine = <<running>> \o waiting /\ t \in ToSet(InLine)
    BY <1>0, <1>3, <2>0, <2>2, FirstInLine DEF InLine
  <2>4. InLine' = <<running>> \o RemoveFirst(waiting, t)
    BY <2>0, <2>1, <2>2 DEF InLine
  <2>5. InLine' = RemoveFirst(InLine, t)
    <3>1. RemoveFirst(<<running>> \o waiting, t) = <<running>> \o RemoveFirst(waiting, t)
      BY <1>3, <2>0, <2>2, LeaveBehind
    <3> QED  BY <2>3, <2>4, <3>1
  <2>6. InLine' # <<>> /\ Head(InLine') = running
    BY <2>0, <2>2, <2>4, RemoveFirstElement, FirstInLine
  <2>7. Told' = Told \cup {running}
    BY <2>1, <2>2 DEF Told
  <2> QED  BY <1>1, <2>3, <2>5, <2>6, <2>7, ReadLeave
<1> QED  BY <1>2, <1>3

LEMMA OtherSteps ==
  ASSUME NEW t \in Requests,
         \/ TurnAway(t) \/ Admit(t) \/ EndEarly(t) \/ HangUp(t) \/ PostUpdate(t)
         \/ Leave(t) \/ DeliverUpdate(t) \/ Duplicate(t)
  PROVE  UNCHANGED <<running, waiting, ready, thread>>
BY DEF TurnAway, Admit, EndEarly, HangUp, PostUpdate, Leave, DeliverUpdate, Duplicate,
       queueVars, UpdateProgress, Refuse

(* First come, first served, one at a time: every step of the trusted engine *)
(* is a step of the line, or none of its business.                          *)
THEOREM GateRefines == Spec => TakesTurns
<1>1. Init => Line!Init
  BY DEF Init, QueueInit, Line!Init
<1>2. IInv /\ [Next]_vars => [Line!Next]_(Line!lineState)
  <2> SUFFICES ASSUME IInv, [Next]_vars PROVE [Line!Next]_(Line!lineState)
    OBVIOUS
  <2>1. ASSUME UNCHANGED <<running, waiting, ready, thread>>
        PROVE  UNCHANGED Line!lineState
    BY <2>1 DEF Line!lineState
  <2>2. ASSUME NEW t \in Requests, Handler(t) PROVE [Line!Next]_(Line!lineState)
    <3>1. ASSUME Line!Join(t) \/ Line!Start(t) \/ Line!Stop(t) \/ Line!Leave(t)
          PROVE  Line!Next
      BY <3>1 DEF Line!Next
    <3> QED  BY <2>1, <2>2, <3>1, JoinSteps, StartSteps, StopSteps, EndSteps, AbandonSteps,
                OtherSteps DEF Handler, Served
  <2>3. CASE Observe \/ Time
    BY <2>1, <2>3 DEF Observe, Time, Status, Lapse, handlerVars
  <2>4. CASE UNCHANGED vars
    BY <2>1, <2>4 DEF vars, queueVars, handlerVars
  <2> QED  BY <2>2, <2>3, <2>4 DEF Next
<1> QED  BY <1>1, <1>2, Invariance, PTL DEF Spec, TakesTurns, Line!Spec

=============================================================================
