-------------------------- MODULE SwarmJobs_proofs --------------------------
(***************************************************************************)
(* Theorems about SwarmJobs, for every set of requests, IDs, workers and    *)
(* backends and every bound.                                               *)
(***************************************************************************)
EXTENDS SwarmJobs, CollectionLemmas

(* How the owner's place and the job's own fields go together.  It is what  *)
(* makes the invariants inductive: an action's guard reads pc, the promise  *)
(* is about the job.                                                       *)
JobStages ==
  \A r \in Requests :
    /\ r \in jobs <=> pc[r] \in {"official", "queued", "held"}
    /\ pc[r] \in {"idle", "admitted", "official"} =>
         workerOf[r] = NoOne /\ ~leased[r] /\ result[r] = "pending"
    /\ pc[r] = "held" => leased[r]

IInv ==
  /\ TypeOK
  /\ InflightExact
  /\ IdRegistry
  /\ JobStages
  /\ LeaseMutual
  /\ WaitingIsLive
  /\ QueuedHasPosition
  /\ OneExecutor
  /\ LeaseEndsWithAnswer

----------------------------------------------------------------------------
(* Initially.                                                              *)

THEOREM InitIInv == Init => IInv
<1> SUFFICES ASSUME Init PROVE IInv
  OBVIOUS
<1> USE DEF Init, CoordinatorInit
<1>1. /\ waiting \in Seq(Requests) /\ completed \in Seq(RequestIds)
      /\ DOMAIN waiting = {} /\ DOMAIN completed = {} /\ Len(completed) = 0
  BY EmptySeq, LenProperties
<1>2. ToSet(waiting) = {} /\ ToSet(completed) = {}
      /\ IsInjective(waiting) /\ IsInjective(completed)
  BY <1>1 DEF ToSet, IsInjective
<1>3. TypeOK
  BY <1>1, ParametersAssumption DEF TypeOK, CoordinatorTypeOK, Places, Answers, Ops
<1>4. InflightExact
  <2>1. Active = {}
    BY DEF Active
  <2> QED  BY <2>1, FS_EmptySet DEF InflightExact
<1>5. IdRegistry
  BY <1>2, ParametersAssumption, ActorsAssumption DEF IdRegistry
<1>6. /\ JobStages /\ LeaseMutual /\ WaitingIsLive /\ QueuedHasPosition
      /\ OneExecutor /\ LeaseEndsWithAnswer
  BY <1>2, ActorsAssumption
  DEF JobStages, LeaseMutual, WaitingIsLive, QueuedHasPosition, OneExecutor, LeaseEndsWithAnswer
<1> QED  BY <1>3, <1>4, <1>5, <1>6 DEF IInv

----------------------------------------------------------------------------
(* Lemmas on the methods.                                                  *)

(* Entering, leaving and moving inside the admission gate.                 *)
LEMMA GateCount ==
  ASSUME InflightExact, pc \in [Requests -> Places],
         NEW r \in Requests, NEW to \in Places, pc' = [pc EXCEPT ![r] = to]
  PROVE  /\ inflight \in Nat
         /\ r \notin Active /\ to \in {"admitted", "official", "queued", "held"} /\ inflight' = inflight + 1
              => InflightExact'
         /\ r \in Active /\ to = "done" /\ inflight' = inflight - 1
              => InflightExact' /\ inflight > 0
         /\ r \in Active /\ to \in {"admitted", "official", "queued", "held"} /\ inflight' = inflight
              => InflightExact'
         /\ r \notin Active /\ to = "done" /\ inflight' = inflight
              => InflightExact'
<1>1. IsFiniteSet(Active)
  BY FS_Subset, ActorsAssumption DEF Active
<1>2. Cardinality(Active) \in Nat
  BY <1>1, FS_CardinalityType
<1>3. ASSUME to \in {"admitted", "official", "queued", "held"}
      PROVE  Active' = Active \cup {r}
  BY <1>3 DEF Active
<1>4. ASSUME to = "done" PROVE Active' = Active \ {r}
  BY <1>4 DEF Active
<1>5. /\ Cardinality(Active \cup {r}) =
           IF r \in Active THEN Cardinality(Active) ELSE Cardinality(Active) + 1
      /\ Cardinality(Active \ {r}) =
           IF r \in Active THEN Cardinality(Active) - 1 ELSE Cardinality(Active)
  BY <1>1, FS_AddElement, FS_RemoveElement
<1>6. ASSUME r \in Active PROVE Cardinality(Active) > 0
  <2>1. Active # {}
    BY <1>6
  <2> QED  BY <2>1, <1>1, <1>2, FS_EmptySet
<1>7. ASSUME r \notin Active, to \in {"admitted", "official", "queued", "held"}, inflight' = inflight + 1
      PROVE  InflightExact'
  BY <1>7, <1>3, <1>5 DEF InflightExact
<1>8. ASSUME r \in Active, to = "done", inflight' = inflight - 1
      PROVE  InflightExact' /\ inflight > 0
  BY <1>8, <1>4, <1>5, <1>6 DEF InflightExact
<1>9. ASSUME r \in Active, to \in {"admitted", "official", "queued", "held"}, inflight' = inflight
      PROVE  InflightExact'
  BY <1>9, <1>3, <1>5 DEF InflightExact
<1>10. ASSUME r \notin Active, to = "done", inflight' = inflight
      PROVE  InflightExact'
  BY <1>10, <1>4, <1>5 DEF InflightExact
<1> QED  BY <1>2, <1>7, <1>8, <1>9, <1>10 DEF InflightExact

(* prune takes completed IDs from the front only.                          *)
LEMMA PruneCompletedKeeps ==
  ASSUME CoordinatorTypeOK, NEW ids \in Seq(RequestIds), lapsed <= Len(ids),
         PruneCompleted(ids)
  PROVE  /\ completed' \in Seq(RequestIds)
         /\ lapsed' \in 0..Len(completed')
         /\ ToSet(completed') \subseteq ToSet(ids)
         /\ IsInjective(ids) => IsInjective(completed')
<1>1. Len(ids) \in Nat /\ Len(completed) \in Nat
  BY LenProperties DEF CoordinatorTypeOK
<1>2. Surplus(ids) \in 0..Len(ids)
  <2>1. lapsed \in Nat /\ MaxCompleted \in Nat
    BY <1>1, ParametersAssumption DEF CoordinatorTypeOK
  <2> QED  BY <2>1, <1>1 DEF Surplus
<1>3. /\ SubSeq(ids, Surplus(ids) + 1, Len(ids)) \in Seq(RequestIds)
      /\ ToSet(SubSeq(ids, Surplus(ids) + 1, Len(ids))) \subseteq ToSet(ids)
      /\ IsInjective(ids) => IsInjective(SubSeq(ids, Surplus(ids) + 1, Len(ids)))
  BY <1>2, DropFront
<1>4. completed' = SubSeq(ids, Surplus(ids) + 1, Len(ids)) /\ lapsed' = 0
  BY DEF PruneCompleted
<1>5. completed' \in Seq(RequestIds)
  BY <1>3, <1>4
<1>6. ASSUME NEW c \in Seq(RequestIds) PROVE 0 \in 0..Len(c)
  BY LenProperties
<1>7. lapsed' \in 0..Len(completed')
  BY <1>4, <1>5, <1>6
<1> QED  BY <1>3, <1>4, <1>5, <1>7

(* release clears one lease on both sides and disturbs no other.           *)
LEMMA ReleaseKeepsLeases ==
  ASSUME CoordinatorTypeOK, LeaseMutual, NEW j \in Requests, Release(j)
  PROVE  /\ workerJob' \in [Workers -> Requests \cup {NoOne}]
         /\ seen' \in [Workers -> {"recent", "quiet", "aged"}]
         /\ workerOf' \in [Requests -> Workers \cup {NoOne}]
         /\ workerOf'[j] = NoOne
         /\ \A k \in Requests \ {j} : workerOf'[k] = workerOf[k]
         /\ \A w \in Workers, k \in Requests :
              workerOf'[k] = w <=> (w \in workers /\ workerJob'[w] = k)
<1> USE DEF CoordinatorTypeOK
<1>1. /\ workerJob' \in [Workers -> Requests \cup {NoOne}]
      /\ seen' \in [Workers -> {"recent", "quiet", "aged"}]
      /\ workerOf' \in [Requests -> Workers \cup {NoOne}]
      /\ workerOf'[j] = NoOne
      /\ \A k \in Requests \ {j} : workerOf'[k] = workerOf[k]
  BY DEF Release
<1>2. ASSUME NEW w \in Workers
      PROVE  workerJob'[w] = IF w \in workers /\ w = workerOf[j] THEN NoOne ELSE workerJob[w]
  BY DEF Release, Holders, LeaseMutual
<1>3. ASSUME NEW w \in Workers, NEW k \in Requests
      PROVE  workerOf'[k] = w <=> (w \in workers /\ workerJob'[w] = k)
  <2>1. CASE k = j
    BY <2>1, <1>1, <1>2, ActorsAssumption DEF LeaseMutual
  <2>2. CASE k # j
    BY <2>2, <1>1, <1>2, ActorsAssumption DEF LeaseMutual
  <2> QED  BY <2>1, <2>2
<1> QED  BY <1>1, <1>3

(* Registrations that prune takes hold no lease.                           *)
LEMMA PruneKeepsLeases ==
  ASSUME workers \subseteq Workers, PruneWorkers,
         \A w \in Workers, k \in Requests :
           workerOf'[k] = w <=> (w \in workers /\ workerJob'[w] = k)
  PROVE  /\ workers' \subseteq workers
         /\ \A w \in Workers, k \in Requests :
              workerOf'[k] = w <=> (w \in workers' /\ workerJob'[w] = k)
<1>1. workers' \subseteq workers
  BY DEF PruneWorkers
<1>2. ASSUME NEW w \in workers, workerJob'[w] \in Requests PROVE w \in workers'
  BY <1>2, ActorsAssumption DEF PruneWorkers
<1> QED  BY <1>1, <1>2

LEMMA PruneKeeps ==
  ASSUME CoordinatorTypeOK, IdRegistry, LeaseMutual, Prune, UNCHANGED <<jobs, byId, workerOf>>
  PROVE  /\ workers' \subseteq workers
         /\ completed' \in Seq(RequestIds)
         /\ lapsed' \in 0..Len(completed')
         /\ ToSet(completed') \subseteq ToSet(completed)
         /\ IdRegistry'
         /\ LeaseMutual'
<1>1. /\ completed' \in Seq(RequestIds)
      /\ lapsed' \in 0..Len(completed')
      /\ ToSet(completed') \subseteq ToSet(completed)
      /\ IsInjective(completed')
  <2>1. completed \in Seq(RequestIds) /\ lapsed <= Len(completed) /\ IsInjective(completed)
    BY LenProperties DEF CoordinatorTypeOK, IdRegistry
  <2> QED  BY <2>1, PruneCompletedKeeps DEF Prune
<1>2. IdRegistry'
  BY <1>1 DEF IdRegistry
<1>3. workers' \subseteq workers /\ LeaseMutual'
  <2>1. workers \subseteq Workers /\ PruneWorkers
    BY DEF CoordinatorTypeOK, Prune
  <2>2. \A w \in Workers, k \in Requests :
          workerOf'[k] = w <=> (w \in workers /\ workerJob'[w] = k)
    BY DEF Prune, LeaseMutual
  <2>3. /\ workers' \subseteq workers
        /\ \A w \in Workers, k \in Requests :
             workerOf'[k] = w <=> (w \in workers' /\ workerJob'[w] = k)
    BY <2>1, <2>2, PruneKeepsLeases
  <2> QED  BY <2>3 DEF LeaseMutual
<1> QED  BY <1>1, <1>2, <1>3

----------------------------------------------------------------------------
(* run_job's finally, on all of its five paths.                            *)

LEMMA EndJobKeeps ==
  ASSUME IInv, NEW r \in Requests, pc[r] \in {"official", "queued", "held"},
         NEW what \in Workers \cup Answers, EndJob(r, what)
  PROVE  IInv'
<1> DEFINE ids == IF what # "aborted" THEN Append(completed, IdOf[r]) ELSE completed
<1>0. /\ TypeOK /\ CoordinatorTypeOK /\ IdOf[r] \in RequestIds
      /\ r \in jobs /\ byId[IdOf[r]] = r /\ r # NoOne
  BY ActorsAssumption, ParametersAssumption DEF IInv, TypeOK, JobStages, IdRegistry
<1>1. /\ workerJob' \in [Workers -> Requests \cup {NoOne}]
      /\ seen' \in [Workers -> {"recent", "quiet", "aged"}]
      /\ workerOf' \in [Requests -> Workers \cup {NoOne}]
      /\ workerOf'[r] = NoOne
      /\ \A k \in Requests \ {r} : workerOf'[k] = workerOf[k]
      /\ \A w \in Workers, k \in Requests :
           workerOf'[k] = w <=> (w \in workers /\ workerJob'[w] = k)
  BY <1>0, ReleaseKeepsLeases DEF IInv, EndJob, Finish
<1>2. /\ waiting' \in Seq(Requests)
      /\ ToSet(waiting') = ToSet(waiting) \ {r}
      /\ IsInjective(waiting')
  BY <1>0, RemoveFirstElement DEF IInv, CoordinatorTypeOK, WaitingIsLive, EndJob, Finish, Unqueue
<1>3. /\ ids \in Seq(RequestIds)
      /\ lapsed <= Len(ids)
      /\ ToSet(ids) \subseteq ToSet(completed) \cup {IdOf[r]}
      /\ IsInjective(ids)
  <2>1. /\ IdOf[r] \notin ToSet(completed) /\ IsInjective(completed)
        /\ completed \in Seq(RequestIds) /\ lapsed \in 0..Len(completed)
    BY <1>0 DEF IInv, IdRegistry, CoordinatorTypeOK
  <2>2. Len(completed) \in Nat
    BY <2>1, LenProperties
  <2>3. CASE what = "aborted"
    BY <2>1, <2>2, <2>3
  <2>4. CASE what # "aborted"
    <3>1. /\ Append(completed, IdOf[r]) \in Seq(RequestIds)
          /\ ToSet(Append(completed, IdOf[r])) = ToSet(completed) \cup {IdOf[r]}
          /\ IsInjective(Append(completed, IdOf[r]))
      BY <2>1, <1>0, AppendNew
    <3>2. Len(Append(completed, IdOf[r])) = Len(completed) + 1
      BY <2>1, <1>0, AppendProperties
    <3>3. lapsed <= Len(Append(completed, IdOf[r]))
      BY <2>1, <2>2, <3>2
    <3> QED  BY <2>4, <3>1, <3>3
  <2> QED  BY <2>3, <2>4
<1>4. /\ completed' \in Seq(RequestIds)
      /\ lapsed' \in 0..Len(completed')
      /\ ToSet(completed') \subseteq ToSet(completed) \cup {IdOf[r]}
      /\ IsInjective(completed')
  <2>1. PruneCompleted(ids)
    BY DEF EndJob, Finish
  <2> HIDE DEF ids
  <2> QED  BY <1>0, <1>3, <2>1, PruneCompletedKeeps
<1>5. /\ workers' \subseteq workers
      /\ \A w \in Workers, k \in Requests :
           workerOf'[k] = w <=> (w \in workers' /\ workerJob'[w] = k)
  <2>1. PruneWorkers /\ workers \subseteq Workers
    BY <1>0 DEF EndJob, Finish, CoordinatorTypeOK
  <2> QED  BY <2>1, <1>1, PruneKeepsLeases
<1>6. /\ jobs' = jobs \ {r}
      /\ byId' = [byId EXCEPT ![IdOf[r]] = NoOne]
      /\ pc' = [pc EXCEPT ![r] = "done"]
      /\ answer' = [answer EXCEPT ![r] = what]
      /\ inflight' = inflight - 1
      /\ UNCHANGED <<speed, result, leased, phase, backend, left>>
  BY DEF EndJob, Finish, Reply
<1>7. InflightExact' /\ inflight' \in 0..MaxInflight
  <2>1. r \in Active /\ pc \in [Requests -> Places] /\ "done" \in Places
    BY <1>0 DEF Active, TypeOK, Places
  <2>2. InflightExact' /\ inflight > 0 /\ inflight \in Nat
    BY <2>1, <1>6, GateCount DEF IInv
  <2> QED  BY <2>2, <1>6, <1>0, ParametersAssumption DEF CoordinatorTypeOK
<1>8. TypeOK'
  BY <1>0, <1>1, <1>2, <1>4, <1>5, <1>6, <1>7 DEF TypeOK, CoordinatorTypeOK, Places
<1>9. IdRegistry'
  <2>1. ASSUME NEW k \in Requests PROVE k \in jobs' <=> byId'[IdOf[k]] = k
    BY <1>0, <1>6, ActorsAssumption, ParametersAssumption
    DEF IInv, IdRegistry, CoordinatorTypeOK
  <2>2. ASSUME NEW id \in ToSet(completed') PROVE byId'[id] = NoOne
    BY <1>0, <1>4, <1>6 DEF IInv, IdRegistry, CoordinatorTypeOK
  <2> QED  BY <2>1, <2>2, <1>4 DEF IdRegistry
<1>10. JobStages'
  BY <1>0, <1>1, <1>6 DEF IInv, JobStages, TypeOK, CoordinatorTypeOK
<1>11. LeaseMutual'
  BY <1>1, <1>5, <1>6, ActorsAssumption DEF IInv, LeaseMutual
<1>12. WaitingIsLive'
  BY <1>0, <1>1, <1>2, <1>6 DEF IInv, WaitingIsLive, Live, TypeOK, CoordinatorTypeOK, ToSet
<1>13. QueuedHasPosition' /\ OneExecutor' /\ LeaseEndsWithAnswer'
  BY <1>0, <1>1, <1>2, <1>6
  DEF IInv, QueuedHasPosition, OneExecutor, LeaseEndsWithAnswer, TypeOK, CoordinatorTypeOK
<1> QED  BY <1>7, <1>8, <1>9, <1>10, <1>11, <1>12, <1>13 DEF IInv

----------------------------------------------------------------------------
(* The owner's other steps.                                                *)

LEMMA BeforeTheJob ==
  ASSUME IInv, NEW r \in Requests,
         TurnAway(r) \/ Admit(r) \/ EndEarly(r) \/ EnqueueDuplicate(r)
  PROVE  IInv'
<1>0. TypeOK /\ CoordinatorTypeOK /\ pc \in [Requests -> Places]
  BY DEF IInv, TypeOK
<1>1. UNCHANGED <<speed, jobs, byId, waiting, workerJob, seen, workerOf, result, leased,
                  phase, backend, left>>
  BY DEF TurnAway, Admit, EndEarly, EnqueueDuplicate, Prune,
         coordVars, workerVars, boardVars, jobVars
<1>2. /\ pc[r] \in {"idle", "admitted"}
      /\ \E to \in {"admitted", "done"} : pc' = [pc EXCEPT ![r] = to]
      /\ answer' \in [Requests -> Workers \cup Answers]
  BY <1>0 DEF TurnAway, Admit, EndEarly, EnqueueDuplicate, Goto, Reply, TypeOK, Answers
<1>3. /\ workers' \subseteq workers
      /\ completed' \in Seq(RequestIds)
      /\ lapsed' \in 0..Len(completed')
      /\ IdRegistry'
      /\ LeaseMutual'
  <2>1. CASE EnqueueDuplicate(r)
    <3>1. Prune /\ UNCHANGED <<jobs, byId, workerOf>>
      BY <1>1, <2>1 DEF EnqueueDuplicate, jobVars
    <3> QED  BY <1>0, <3>1, PruneKeeps DEF IInv
  <2>2. CASE ~EnqueueDuplicate(r)
    <3>1. UNCHANGED <<workers, completed, lapsed>>
      BY <2>2 DEF TurnAway, Admit, EndEarly, coordVars, workerVars, boardVars
    <3> QED  BY <1>0, <1>1, <3>1 DEF IInv, IdRegistry, LeaseMutual, CoordinatorTypeOK, jobVars
  <2> QED  BY <2>1, <2>2
<1>4. InflightExact' /\ inflight' \in 0..MaxInflight
  <2>0. MaxInflight \in Nat /\ inflight \in 0..MaxInflight
    BY <1>0, ParametersAssumption DEF CoordinatorTypeOK
  <2>1. CASE TurnAway(r)
    <3>1. r \notin Active /\ "done" \in Places /\ pc' = [pc EXCEPT ![r] = "done"] /\ inflight' = inflight
      BY <2>1 DEF TurnAway, Goto, Active, coordVars, Places
    <3> QED  BY <2>0, <3>1, <1>0, GateCount DEF IInv
  <2>2. CASE Admit(r)
    <3>1. /\ r \notin Active /\ "admitted" \in Places /\ pc' = [pc EXCEPT ![r] = "admitted"]
          /\ inflight' = inflight + 1 /\ inflight < MaxInflight
      BY <2>2 DEF Admit, Goto, Active, Places
    <3>2. InflightExact'
      BY <3>1, <1>0, GateCount DEF IInv
    <3> QED  BY <2>0, <3>1, <3>2
  <2>3. CASE EndEarly(r) \/ EnqueueDuplicate(r)
    <3>1. /\ r \in Active /\ "done" \in Places /\ pc' = [pc EXCEPT ![r] = "done"]
          /\ inflight' = inflight - 1
      BY <2>3, <1>0 DEF EndEarly, EnqueueDuplicate, Goto, Active, Places
    <3>2. InflightExact' /\ inflight > 0
      BY <3>1, <1>0, GateCount DEF IInv
    <3> QED  BY <2>0, <3>1, <3>2
  <2> QED  BY <2>1, <2>2, <2>3
<1>5. TypeOK'
  <2>1. pc' \in [Requests -> Places]
    BY <1>0, <1>2 DEF Places
  <2> QED  BY <1>0, <1>1, <1>2, <1>3, <1>4, <2>1 DEF TypeOK, CoordinatorTypeOK
<1>6. JobStages'
  BY <1>0, <1>1, <1>2 DEF IInv, JobStages, jobVars
<1>7. WaitingIsLive'
  BY <1>0, <1>1, <1>2 DEF IInv, WaitingIsLive, Live, jobVars, CoordinatorTypeOK, ToSet
<1>8. QueuedHasPosition' /\ OneExecutor' /\ LeaseEndsWithAnswer'
  BY <1>0, <1>1, <1>2
  DEF IInv, QueuedHasPosition, OneExecutor, LeaseEndsWithAnswer, jobVars, CoordinatorTypeOK
<1> QED  BY <1>3, <1>4, <1>5, <1>6, <1>7, <1>8 DEF IInv

LEMMA StartOfficialKeeps ==
  ASSUME IInv, NEW r \in Requests, NEW b \in Backends \cup {NoOne}, StartOfficial(r, b)
  PROVE  IInv'
<1>0. /\ TypeOK /\ CoordinatorTypeOK /\ pc \in [Requests -> Places] /\ IdOf[r] \in RequestIds
      /\ pc[r] = "admitted" /\ r \notin jobs
      /\ workerOf[r] = NoOne /\ ~leased[r] /\ result[r] = "pending"
      /\ r # NoOne /\ "official" \in Places
  BY ActorsAssumption, ParametersAssumption
  DEF IInv, TypeOK, JobStages, StartOfficial, Goto, Places
<1>1. /\ jobs' = jobs \cup {r}
      /\ byId' = [byId EXCEPT ![IdOf[r]] = r]
      /\ phase' = [phase EXCEPT ![r] = "running"]
      /\ backend' = [backend EXCEPT ![r] = b]
      /\ left' = [left EXCEPT ![r] = @ \ {b}]
      /\ pc' = [pc EXCEPT ![r] = "official"]
      /\ UNCHANGED <<speed, waiting, inflight, workerOf, result, leased, answer, workerJob, seen>>
  BY DEF StartOfficial, Goto, Enqueue, Prune
<1>2. byId[IdOf[r]] = NoOne /\ IdOf[r] \notin ToSet(completed')
  BY DEF StartOfficial, KnownId
<1>3. /\ completed' \in Seq(RequestIds)
      /\ lapsed' \in 0..Len(completed')
      /\ ToSet(completed') \subseteq ToSet(completed)
      /\ IsInjective(completed')
  <2>1. completed \in Seq(RequestIds) /\ lapsed <= Len(completed) /\ IsInjective(completed)
    BY <1>0, LenProperties DEF CoordinatorTypeOK, IInv, IdRegistry
  <2> QED  BY <1>0, <2>1, PruneCompletedKeeps DEF StartOfficial, Prune
<1>4. /\ workers' \subseteq workers
      /\ \A w \in Workers, k \in Requests :
           workerOf'[k] = w <=> (w \in workers' /\ workerJob'[w] = k)
  <2>1. workers \subseteq Workers /\ PruneWorkers
    BY <1>0 DEF CoordinatorTypeOK, StartOfficial, Prune
  <2>2. \A w \in Workers, k \in Requests :
          workerOf'[k] = w <=> (w \in workers /\ workerJob'[w] = k)
    BY <1>1 DEF IInv, LeaseMutual
  <2> QED  BY <2>1, <2>2, PruneKeepsLeases
<1>5. LeaseMutual'
  BY <1>1, <1>4 DEF IInv, LeaseMutual
<1>6. InflightExact'
  <2>1. r \in Active
    BY <1>0 DEF Active
  <2> QED  BY <2>1, <1>0, <1>1, GateCount DEF IInv
<1>7. TypeOK'
  BY <1>0, <1>1, <1>3, <1>4 DEF TypeOK, CoordinatorTypeOK
<1>8. IdRegistry'
  <2>1. ASSUME NEW k \in Requests PROVE k \in jobs' <=> byId'[IdOf[k]] = k
    <3>1. CASE k = r
      BY <3>1, <1>0, <1>1 DEF CoordinatorTypeOK
    <3>2. CASE k # r /\ IdOf[k] = IdOf[r]
      BY <3>2, <1>0, <1>1, <1>2, ActorsAssumption DEF CoordinatorTypeOK, IInv, IdRegistry
    <3>3. CASE k # r /\ IdOf[k] # IdOf[r]
      BY <3>3, <1>0, <1>1, ParametersAssumption DEF CoordinatorTypeOK, IInv, IdRegistry
    <3> QED  BY <3>1, <3>2, <3>3
  <2>2. ASSUME NEW id \in ToSet(completed') PROVE byId'[id] = NoOne
    <3>1. byId[id] = NoOne /\ id # IdOf[r]
      BY <2>2, <1>2, <1>3 DEF IInv, IdRegistry
    <3> QED  BY <3>1, <1>0, <1>1 DEF CoordinatorTypeOK
  <2> QED  BY <2>1, <2>2, <1>3 DEF IdRegistry
<1>9. JobStages'
  BY <1>0, <1>1 DEF IInv, JobStages, CoordinatorTypeOK
<1>10. WaitingIsLive'
  BY <1>0, <1>1 DEF IInv, WaitingIsLive, Live, CoordinatorTypeOK, ToSet
<1>11. r \notin ToSet(waiting)
  BY <1>0 DEF IInv, WaitingIsLive
<1>12. QueuedHasPosition' /\ OneExecutor' /\ LeaseEndsWithAnswer'
  BY <1>0, <1>1, <1>11
  DEF IInv, QueuedHasPosition, OneExecutor, LeaseEndsWithAnswer, CoordinatorTypeOK
<1> QED  BY <1>5, <1>6, <1>7, <1>8, <1>9, <1>10, <1>12 DEF IInv

LEMMA TryNextBackendKeeps ==
  ASSUME IInv, NEW r \in Requests, NEW b \in Backends, TryNextBackend(r, b)
  PROVE  IInv'
<1>0. /\ TypeOK /\ CoordinatorTypeOK /\ pc[r] = "official"
      /\ workerOf[r] = NoOne /\ r \notin ToSet(waiting)
  BY DEF IInv, TypeOK, TryNextBackend, JobStages, WaitingIsLive
<1>1. /\ backend' = [backend EXCEPT ![r] = b]
      /\ left' = [left EXCEPT ![r] = @ \ {b}]
      /\ UNCHANGED <<workers, workerJob, seen, speed, jobs, byId, waiting, completed, lapsed,
                     inflight, workerOf, result, leased, phase, pc, answer>>
  BY DEF TryNextBackend, workerVars, boardVars
<1>2. TypeOK'
  BY <1>0, <1>1 DEF TypeOK, CoordinatorTypeOK
<1>3. InflightExact' /\ IdRegistry' /\ JobStages' /\ LeaseMutual'
  BY <1>1 DEF IInv, InflightExact, Active, IdRegistry, JobStages, LeaseMutual
<1>4. WaitingIsLive' /\ QueuedHasPosition' /\ OneExecutor' /\ LeaseEndsWithAnswer'
  BY <1>0, <1>1
  DEF IInv, WaitingIsLive, Live, QueuedHasPosition, OneExecutor, LeaseEndsWithAnswer, CoordinatorTypeOK
<1> QED  BY <1>2, <1>3, <1>4 DEF IInv

LEMMA GoToSwarmKeeps ==
  ASSUME IInv, NEW r \in Requests, GoToSwarm(r)
  PROVE  IInv'
<1>0. /\ TypeOK /\ CoordinatorTypeOK /\ pc \in [Requests -> Places] /\ "queued" \in Places
      /\ pc[r] = "official" /\ r \in jobs /\ r \in Active /\ r # NoOne
      /\ workerOf[r] = NoOne /\ ~leased[r] /\ result[r] = "pending"
      /\ r \notin ToSet(waiting)
  BY ActorsAssumption
  DEF IInv, TypeOK, GoToSwarm, Goto, JobStages, WaitingIsLive, Active, Places
<1>1. /\ backend' = [backend EXCEPT ![r] = NoOne]
      /\ phase' = [phase EXCEPT ![r] = "queued"]
      /\ waiting' = Append(waiting, r)
      /\ pc' = [pc EXCEPT ![r] = "queued"]
      /\ UNCHANGED <<workerJob, seen, speed, jobs, byId, inflight, workerOf, result, leased,
                     left, answer>>
  BY DEF GoToSwarm, Goto, Prune, QueueForSwarm
<1>2. /\ workers' \subseteq workers
      /\ completed' \in Seq(RequestIds)
      /\ lapsed' \in 0..Len(completed')
      /\ IdRegistry'
      /\ LeaseMutual'
  BY <1>0, <1>1, PruneKeeps DEF GoToSwarm, IInv
<1>3. /\ waiting' \in Seq(Requests)
      /\ ToSet(waiting') = ToSet(waiting) \cup {r}
      /\ IsInjective(waiting')
  BY <1>0, <1>1, AppendNew DEF IInv, CoordinatorTypeOK, WaitingIsLive
<1>4. InflightExact'
  BY <1>0, <1>1, GateCount DEF IInv
<1>5. TypeOK'
  BY <1>0, <1>1, <1>2, <1>3 DEF TypeOK, CoordinatorTypeOK
<1>6. JobStages'
  BY <1>0, <1>1 DEF IInv, JobStages
<1>7. WaitingIsLive'
  BY <1>0, <1>1, <1>3 DEF IInv, WaitingIsLive, Live
<1>8. QueuedHasPosition' /\ OneExecutor' /\ LeaseEndsWithAnswer'
  BY <1>0, <1>1, <1>3
  DEF IInv, QueuedHasPosition, OneExecutor, LeaseEndsWithAnswer, CoordinatorTypeOK
<1> QED  BY <1>2, <1>4, <1>5, <1>6, <1>7, <1>8 DEF IInv

LEMMA OwnerWakesKeeps ==
  ASSUME IInv, NEW r \in Requests, OwnerWakes(r)
  PROVE  IInv'
<1>0. /\ TypeOK /\ CoordinatorTypeOK /\ pc \in [Requests -> Places] /\ "held" \in Places
      /\ pc[r] = "queued" /\ leased[r] /\ r \in Active
      /\ r \notin ToSet(waiting)
  BY DEF IInv, TypeOK, OwnerWakes, Goto, WaitingIsLive, Active, Places
<1>1. /\ pc' = [pc EXCEPT ![r] = "held"]
      /\ UNCHANGED <<workers, workerJob, seen, speed, jobs, byId, waiting, completed, lapsed,
                     inflight, workerOf, result, leased, phase, backend, left, answer>>
  BY DEF OwnerWakes, Goto, coordVars
<1>2. InflightExact'
  BY <1>0, <1>1, GateCount DEF IInv
<1>3. TypeOK'
  BY <1>0, <1>1 DEF TypeOK, CoordinatorTypeOK
<1>4. IdRegistry' /\ LeaseMutual'
  BY <1>1 DEF IInv, IdRegistry, LeaseMutual
<1>5. JobStages'
  BY <1>0, <1>1 DEF IInv, JobStages
<1>6. WaitingIsLive' /\ QueuedHasPosition' /\ OneExecutor' /\ LeaseEndsWithAnswer'
  <2>1. \A j \in Requests : j # r => pc'[j] = pc[j]
    BY <1>0, <1>1
  <2>2. ToSet(waiting) \subseteq Requests
    BY <1>0, RangeEquality, LenProperties, ElementOfSeq DEF ToSet, CoordinatorTypeOK
  <2>3. backend[r] = NoOne
    BY <1>0 DEF IInv, JobStages, OneExecutor
  <2> QED  BY <1>0, <1>1, <2>1, <2>2, <2>3
           DEF IInv, WaitingIsLive, Live, QueuedHasPosition, OneExecutor, LeaseEndsWithAnswer, CoordinatorTypeOK
<1> QED  BY <1>2, <1>3, <1>4, <1>5, <1>6 DEF IInv

LEMMA OwnerKeeps ==
  ASSUME IInv, NEW r \in Requests, OwnerStep(r)
  PROVE  IInv'
<1>1. CASE TurnAway(r) \/ Admit(r) \/ EndEarly(r) \/ EnqueueDuplicate(r)
  BY <1>1, BeforeTheJob
<1>2. CASE \E b \in Backends \cup {NoOne} : StartOfficial(r, b)
  BY <1>2, StartOfficialKeeps
<1>3. CASE \E b \in Backends : TryNextBackend(r, b)
  BY <1>3, TryNextBackendKeeps
<1>4. CASE GoToSwarm(r)
  BY <1>4, GoToSwarmKeeps
<1>5. CASE OwnerWakes(r)
  BY <1>5, OwnerWakesKeeps
<1>6. CASE OfficialAnswers(r) \/ OfficialUnavailable(r) \/ OwnerGetsResult(r)
             \/ OwnerTimesOut(r) \/ Abort(r)
  <2>1. /\ pc[r] \in {"official", "queued", "held"}
        /\ \E what \in Workers \cup Answers : EndJob(r, what)
    BY <1>6 DEF OfficialAnswers, OfficialUnavailable, OwnerGetsResult, OwnerTimesOut, Abort, Answers
  <2> QED  BY <2>1, EndJobKeeps
<1> QED  BY <1>1, <1>2, <1>3, <1>4, <1>5, <1>6 DEF OwnerStep, OwnerProceeds

----------------------------------------------------------------------------
(* Volunteers.                                                             *)

LEMMA RegisterKeeps ==
  ASSUME IInv, NEW w \in Workers, Register(w)
  PROVE  IInv'
<1>0. TypeOK /\ CoordinatorTypeOK /\ w \notin workers
  BY DEF IInv, TypeOK, Register
<1>1. /\ workerJob' = [workerJob EXCEPT ![w] = NoOne]
      /\ seen' = [seen EXCEPT ![w] = "quiet"]
      /\ speed' = [speed EXCEPT ![w] = [op \in Ops |-> 0]]
      /\ workers' = {v \in workers : workerJob[v] # NoOne \/ seen[v] # "aged"} \cup {w}
      /\ UNCHANGED <<jobs, byId, waiting, workerOf, result, leased, phase, backend,
                     inflight, pc, left, answer>>
  BY DEF Register, jobVars, ownerVars
<1>2. /\ completed' \in Seq(RequestIds)
      /\ lapsed' \in 0..Len(completed')
      /\ ToSet(completed') \subseteq ToSet(completed)
      /\ IsInjective(completed')
  <2>1. completed \in Seq(RequestIds) /\ lapsed <= Len(completed) /\ IsInjective(completed)
    BY <1>0, LenProperties DEF CoordinatorTypeOK, IInv, IdRegistry
  <2> QED  BY <1>0, <2>1, PruneCompletedKeeps DEF Register
<1>3. TypeOK'
  <2>1. speed' \in [Workers -> [Ops -> 0..MaxSpeed]]
    BY <1>0, <1>1, ParametersAssumption DEF CoordinatorTypeOK
  <2> QED  BY <1>0, <1>1, <1>2, <2>1 DEF TypeOK, CoordinatorTypeOK
<1>4. InflightExact' /\ IdRegistry' /\ JobStages'
  BY <1>1, <1>2 DEF IInv, InflightExact, Active, IdRegistry, JobStages
<1>5. LeaseMutual'
  <2> SUFFICES ASSUME NEW v \in Workers, NEW j \in Requests
               PROVE  /\ workerOf[j] = v <=> (v \in workers' /\ workerJob'[v] = j)
                      /\ workerOf[j] = v => j \in jobs
    BY <1>1 DEF LeaseMutual
  <2>1. CASE v = w
    BY <2>1, <1>0, <1>1, ActorsAssumption DEF IInv, LeaseMutual, CoordinatorTypeOK
  <2>2. CASE v # w
    BY <2>2, <1>0, <1>1, ActorsAssumption DEF IInv, LeaseMutual, CoordinatorTypeOK
  <2> QED  BY <2>1, <2>2
<1>6. WaitingIsLive' /\ QueuedHasPosition' /\ OneExecutor' /\ LeaseEndsWithAnswer'
  BY <1>1 DEF IInv, WaitingIsLive, Live, QueuedHasPosition, OneExecutor, LeaseEndsWithAnswer
<1> QED  BY <1>3, <1>4, <1>5, <1>6 DEF IInv

(* Sweeping a queue without dead entries leaves it as it is.               *)
LEMMA NothingDead ==
  ASSUME NEW queue, \A i \in DOMAIN queue : Live(queue[i])
  PROVE  DropDead(queue) = queue
BY DEF DropDead

(* The loop of lease removes exactly the entry it leases.                  *)
LEMMA LeaseRemovesOne ==
  ASSUME TypeOK, WaitingIsLive, NEW w \in Workers, NEW i \in DOMAIN waiting, Lease(w, i)
  PROVE  /\ waiting[i] \in Requests
         /\ waiting' \in Seq(Requests)
         /\ ToSet(waiting') = ToSet(waiting) \ {waiting[i]}
         /\ IsInjective(waiting')
<1>1. /\ waiting \in Seq(Requests) /\ IsInjective(waiting)
      /\ Len(waiting) \in Nat /\ DOMAIN waiting = 1..Len(waiting)
      /\ \A k \in 1..Len(waiting) : waiting[k] \in Requests
  BY LenProperties, ElementOfSeq DEF TypeOK, CoordinatorTypeOK, WaitingIsLive
<1>2. DropDead(SubSeq(waiting, 1, i - 1)) = SubSeq(waiting, 1, i - 1)
  <2> DEFINE front == SubSeq(waiting, 1, i - 1)
  <2>1. \A k \in 1..(i - 1) : waiting[k] \in Requests
    BY <1>1
  <2>2. /\ front \in Seq(Requests)
        /\ Len(front) = IF 1 <= i - 1 THEN (i - 1) - 1 + 1 ELSE 0
        /\ \A k \in 1..((i - 1) - 1 + 1) : front[k] = waiting[1 + k - 1]
    BY <2>1, <1>1, SubSeqProperties, 1 \in Int, i - 1 \in Int
  <2> HIDE DEF front
  <2>3. Len(front) = i - 1
    BY <2>2, <1>1
  <2>4. ASSUME NEW k \in DOMAIN front PROVE Live(front[k])
    <3>1. k \in 1..(i - 1)
      BY <2>2, <2>3, LenProperties
    <3>2. front[k] = waiting[k] /\ k \in DOMAIN waiting
      BY <3>1, <2>2, <1>1
    <3> QED  BY <3>2 DEF WaitingIsLive, ToSet
  <2>5. DropDead(front) = front
    BY <2>4, NothingDead
  <2> QED  BY <2>5 DEF front
<1>3. waiting' = RemoveAt(waiting, i)
  BY <1>2 DEF Lease, RemoveAt
<1> QED  BY <1>1, <1>3, RemoveAtPosition

LEMMA LeaseKeeps ==
  ASSUME IInv, NEW w \in Workers, NEW i \in DOMAIN waiting,
         w \in workers, workerJob[w] = NoOne, Lease(w, i),
         seen' = [seen EXCEPT ![w] = "recent"],
         UNCHANGED <<workers, speed, jobs, byId, completed, lapsed, inflight,
                     result, backend, ownerVars>>
  PROVE  IInv'
<1> DEFINE j == waiting[i]
<1>0. TypeOK /\ CoordinatorTypeOK /\ WaitingIsLive
  BY DEF IInv, TypeOK
<1>1. /\ j \in Requests
      /\ waiting' \in Seq(Requests)
      /\ ToSet(waiting') = ToSet(waiting) \ {j}
      /\ IsInjective(waiting')
  BY <1>0, LeaseRemovesOne
<1>2. /\ workerJob' = [workerJob EXCEPT ![w] = j]
      /\ workerOf' = [workerOf EXCEPT ![j] = w]
      /\ phase' = [phase EXCEPT ![j] = "running"]
      /\ leased' = [leased EXCEPT ![j] = TRUE]
      /\ UNCHANGED <<workers, speed, jobs, byId, completed, lapsed, inflight,
                     result, backend, pc, left, answer>>
  BY DEF Lease, ownerVars
<1>3. /\ j \in ToSet(waiting) /\ j \in jobs /\ result[j] = "pending"
      /\ workerOf[j] = NoOne /\ ~leased[j] /\ pc[j] = "queued" /\ backend[j] = NoOne
      /\ w # NoOne /\ j # NoOne
  BY <1>1, ActorsAssumption DEF IInv, WaitingIsLive, Live, OneExecutor, ToSet
<1> HIDE DEF j
<1>4. TypeOK'
  BY <1>0, <1>1, <1>2 DEF TypeOK, CoordinatorTypeOK
<1>5. InflightExact' /\ IdRegistry'
  BY <1>2 DEF IInv, InflightExact, Active, IdRegistry
<1>6. JobStages'
  BY <1>0, <1>1, <1>2, <1>3 DEF IInv, JobStages, CoordinatorTypeOK
<1>7. LeaseMutual'
  BY <1>0, <1>1, <1>2, <1>3, ActorsAssumption DEF IInv, LeaseMutual, CoordinatorTypeOK
<1>8. WaitingIsLive'
  <2>1. ToSet(waiting) \subseteq Requests
    BY <1>0, LenProperties, ElementOfSeq DEF ToSet, CoordinatorTypeOK
  <2> QED  BY <1>0, <1>1, <1>2, <2>1 DEF WaitingIsLive, Live, CoordinatorTypeOK
<1>9. QueuedHasPosition' /\ OneExecutor' /\ LeaseEndsWithAnswer'
  BY <1>0, <1>1, <1>2, <1>3
  DEF IInv, QueuedHasPosition, OneExecutor, LeaseEndsWithAnswer, CoordinatorTypeOK
<1> QED  BY <1>4, <1>5, <1>6, <1>7, <1>8, <1>9 DEF IInv

(* A step that touches only Worker.last_poll, completed's expiry or nothing. *)
LEMMA TimeKeeps ==
  ASSUME IInv, seen' \in [Workers -> {"recent", "quiet", "aged"}],
         lapsed' \in 0..Len(completed),
         UNCHANGED <<workers, workerJob, speed, jobs, byId, waiting, completed, workerOf, result,
                     leased, phase, backend, inflight, pc, left, answer>>
  PROVE  IInv'
<1>1. TypeOK'
  BY DEF IInv, TypeOK, CoordinatorTypeOK
<1>2. /\ InflightExact' /\ IdRegistry' /\ JobStages' /\ LeaseMutual' /\ WaitingIsLive'
      /\ QueuedHasPosition' /\ OneExecutor' /\ LeaseEndsWithAnswer'
  BY DEF IInv, InflightExact, Active, IdRegistry, JobStages, LeaseMutual, WaitingIsLive, Live,
         QueuedHasPosition, OneExecutor, LeaseEndsWithAnswer
<1> QED  BY <1>1, <1>2 DEF IInv

LEMMA PollKeeps ==
  ASSUME IInv, NEW w \in Workers, Poll(w)
  PROVE  IInv'
<1>0. TypeOK /\ CoordinatorTypeOK /\ WaitingIsLive /\ w \in workers
  BY DEF IInv, TypeOK, Poll
<1>1. seen' = [seen EXCEPT ![w] = "recent"] /\ seen' \in [Workers -> {"recent", "quiet", "aged"}]
  BY <1>0 DEF Poll, CoordinatorTypeOK
<1>2. UNCHANGED <<workers, speed, jobs, byId, completed, lapsed, inflight, result, backend, ownerVars>>
  BY DEF Poll
<1>3. CASE UNCHANGED <<workerJob, waiting, workerOf, leased, phase>>
  BY <1>0, <1>1, <1>2, <1>3, TimeKeeps DEF ownerVars, CoordinatorTypeOK
<1>4. CASE waiting' = DropDead(waiting) /\ UNCHANGED <<workerJob, workerOf, leased, phase>>
  <2>1. \A i \in DOMAIN waiting : Live(waiting[i])
    BY <1>0 DEF WaitingIsLive, ToSet
  <2>2. waiting' = waiting
    BY <1>4, <2>1, NothingDead
  <2> QED  BY <1>3, <1>4, <2>2
<1>5. CASE workerJob[w] = NoOne /\ \E i \in DOMAIN waiting : FirstLeasable(w, i) /\ Lease(w, i)
  BY <1>0, <1>1, <1>2, <1>5, LeaseKeeps
<1> QED  BY <1>3, <1>4, <1>5 DEF Poll

(* A lease ends: with a result, with a failure, or past its deadline.       *)
LEMMA SettleKeeps ==
  ASSUME IInv, NEW j \in Requests, workerOf[j] # NoOne, Release(j),
         NEW value \in Workers \cup {"failed"}, SetResult(j, value),
         leased' = leased \/ leased' = [leased EXCEPT ![j] = TRUE],
         speed' \in [Workers -> [Ops -> 0..MaxSpeed]],
         UNCHANGED <<workers, boardVars, inflight, phase, backend, ownerVars>>
  PROVE  IInv'
<1>0. TypeOK /\ CoordinatorTypeOK
  BY DEF IInv, TypeOK
<1>1. /\ workerJob' \in [Workers -> Requests \cup {NoOne}]
      /\ seen' \in [Workers -> {"recent", "quiet", "aged"}]
      /\ workerOf' \in [Requests -> Workers \cup {NoOne}]
      /\ workerOf'[j] = NoOne
      /\ \A k \in Requests \ {j} : workerOf'[k] = workerOf[k]
      /\ \A w \in Workers, k \in Requests :
           workerOf'[k] = w <=> (w \in workers /\ workerJob'[w] = k)
  BY <1>0, ReleaseKeepsLeases DEF IInv
<1>2. UNCHANGED <<workers, jobs, byId, waiting, completed, lapsed, inflight, phase, backend,
                  pc, left, answer>>
  BY DEF boardVars, ownerVars
<1>3. /\ result[j] = "pending" /\ leased[j] /\ j \in jobs /\ j \notin ToSet(waiting)
      /\ pc[j] \in {"queued", "held"}
  BY <1>0 DEF IInv, LeaseEndsWithAnswer, LeaseMutual, WaitingIsLive, JobStages, CoordinatorTypeOK
<1>4. result' = [result EXCEPT ![j] = value] /\ leased' = leased /\ value # "pending"
  <2>1. leased' = leased
    <3>1. leased \in [Requests -> BOOLEAN] /\ leased[j] = TRUE
      BY <1>0, <1>3 DEF CoordinatorTypeOK
    <3>2. leased = [leased EXCEPT ![j] = TRUE]
      BY <3>1
    <3> QED  BY <3>2
  <2>2. result' = [result EXCEPT ![j] = value]
    BY <1>0, <1>3 DEF SetResult, CoordinatorTypeOK
  <2>3. value # "pending"
    BY ActorsAssumption
  <2> QED  BY <2>1, <2>2, <2>3
<1>5. TypeOK'
  BY <1>0, <1>1, <1>2, <1>4 DEF TypeOK, CoordinatorTypeOK
<1>6. InflightExact' /\ IdRegistry'
  BY <1>2 DEF IInv, InflightExact, Active, IdRegistry
<1>7. JobStages'
  BY <1>0, <1>1, <1>2, <1>3, <1>4 DEF IInv, JobStages, CoordinatorTypeOK
<1>8. LeaseMutual'
  BY <1>1, <1>2, ActorsAssumption DEF IInv, LeaseMutual
<1>9. WaitingIsLive'
  <2>1. ToSet(waiting) \subseteq Requests
    BY <1>0, LenProperties, ElementOfSeq DEF ToSet, CoordinatorTypeOK
  <2> QED  BY <1>0, <1>1, <1>2, <1>3, <1>4, <2>1 DEF IInv, WaitingIsLive, Live, CoordinatorTypeOK
<1>10. QueuedHasPosition' /\ OneExecutor' /\ LeaseEndsWithAnswer'
  BY <1>0, <1>1, <1>2, <1>3, <1>4
  DEF IInv, QueuedHasPosition, OneExecutor, LeaseEndsWithAnswer, CoordinatorTypeOK
<1> QED  BY <1>5, <1>6, <1>7, <1>8, <1>9, <1>10 DEF IInv

LEMMA CompleteKeeps ==
  ASSUME IInv, NEW w \in Workers, NEW j \in Requests,
         CompleteOk(w, j) \/ CompleteBad(w, j)
  PROVE  IInv'
<1>0. CoordinatorTypeOK /\ workerOf[j] # NoOne
  BY ActorsAssumption
  DEF IInv, TypeOK, CompleteOk, CompleteBad, Authorized
<1>1. CASE CompleteOk(w, j)
  <2>1. speed' \in [Workers -> [Ops -> 0..MaxSpeed]]
    <3>1. CASE UNCHANGED speed
      BY <3>1, <1>0 DEF CoordinatorTypeOK
    <3>2. ASSUME NEW rate \in 1..MaxSpeed,
                 speed' = [speed EXCEPT ![workerOf[j]][Ask[j].op] = rate]
          PROVE  speed' \in [Workers -> [Ops -> 0..MaxSpeed]]
      BY <3>2, <1>0, ParametersAssumption DEF CoordinatorTypeOK
    <3> QED  BY <1>1, <3>1, <3>2 DEF CompleteOk, RecordWorkerSuccess
  <2> QED  BY <1>0, <1>1, <2>1, SettleKeeps DEF CompleteOk
<1>2. CASE CompleteBad(w, j)
  BY <1>0, <1>2, SettleKeeps DEF CompleteBad, Fail, CoordinatorTypeOK
<1> QED  BY <1>1, <1>2

LEMMA ExpiryKeeps ==
  ASSUME IInv, NEW j \in Requests, LeaseExpires(j)
  PROVE  IInv'
<1>1. CoordinatorTypeOK /\ workerOf[j] # NoOne
  BY DEF IInv, TypeOK, LeaseExpires
<1> QED  BY <1>1, SettleKeeps DEF LeaseExpires, Fail, CoordinatorTypeOK

LEMMA WorkerKeeps ==
  ASSUME IInv, NEW w \in Workers, WorkerStep(w)
  PROVE  IInv'
<1>1. CASE WorkerQuiet(w)
  <2>0. seen \in [Workers -> {"recent", "quiet", "aged"}]
    BY DEF IInv, TypeOK, CoordinatorTypeOK
  <2>1. seen' \in [Workers -> {"recent", "quiet", "aged"}]
    <3>1. PICK age \in {"quiet", "aged"} : seen' = [seen EXCEPT ![w] = age]
      BY <1>1 DEF WorkerQuiet
    <3> QED  BY <2>0, <3>1
  <2>2. lapsed \in 0..Len(completed)
    BY DEF IInv, TypeOK, CoordinatorTypeOK
  <2> QED  BY <1>1, <2>1, <2>2, TimeKeeps DEF WorkerQuiet, boardVars, jobVars, ownerVars
<1> QED  BY <1>1, RegisterKeeps, PollKeeps, CompleteKeeps DEF WorkerStep

LEMMA CompletedExpiresKeeps ==
  ASSUME IInv, CompletedExpires
  PROVE  IInv'
<1>1. /\ lapsed \in 0..Len(completed) /\ completed \in Seq(RequestIds)
      /\ seen \in [Workers -> {"recent", "quiet", "aged"}]
  BY DEF IInv, TypeOK, CoordinatorTypeOK
<1>2. Len(completed) \in Nat
  BY <1>1, LenProperties
<1>3. lapsed' \in 0..Len(completed)
  BY <1>1, <1>2 DEF CompletedExpires
<1> QED  BY <1>1, <1>3, TimeKeeps DEF CompletedExpires, workerVars, jobVars, ownerVars

LEMMA ObserveKeeps ==
  ASSUME IInv, Observe
  PROVE  IInv'
<1>0. TypeOK /\ CoordinatorTypeOK /\ Prune
  BY DEF IInv, TypeOK, Observe
<1>1. UNCHANGED <<workerJob, seen, speed, jobs, byId, waiting, workerOf, result, leased,
                  phase, backend, inflight, pc, left, answer>>
  BY DEF Observe, Prune, jobVars, ownerVars
<1>2. /\ workers' \subseteq workers
      /\ completed' \in Seq(RequestIds)
      /\ lapsed' \in 0..Len(completed')
      /\ IdRegistry'
      /\ LeaseMutual'
  BY <1>0, <1>1, PruneKeeps DEF IInv
<1>3. TypeOK'
  BY <1>0, <1>1, <1>2 DEF TypeOK, CoordinatorTypeOK
<1>4. /\ InflightExact' /\ JobStages' /\ WaitingIsLive' /\ QueuedHasPosition'
      /\ OneExecutor' /\ LeaseEndsWithAnswer'
  BY <1>1 DEF IInv, InflightExact, Active, JobStages, WaitingIsLive, Live, QueuedHasPosition,
              OneExecutor, LeaseEndsWithAnswer
<1> QED  BY <1>2, <1>3, <1>4 DEF IInv

----------------------------------------------------------------------------
(* The invariant holds, and with it the properties the runs check.         *)

(* Every step of the coordinator keeps the inductive invariant.            *)
THEOREM Inductive == IInv /\ [Next]_vars => IInv'
<1> SUFFICES ASSUME IInv, [Next]_vars PROVE IInv'
  OBVIOUS
<1>1. CASE \E r \in SwarmRequests : OwnerStep(r)
  BY <1>1, OwnerKeeps DEF SwarmRequests
<1>2. CASE \E w \in Workers : WorkerStep(w)
  BY <1>2, WorkerKeeps
<1>3. CASE \E j \in Requests : LeaseExpires(j)
  BY <1>3, ExpiryKeeps
<1>4. CASE CompletedExpires
  BY <1>4, CompletedExpiresKeeps
<1>5. CASE Observe
  BY <1>5, ObserveKeeps
<1>6. CASE UNCHANGED vars
  <2>1. /\ lapsed \in 0..Len(completed)
        /\ seen \in [Workers -> {"recent", "quiet", "aged"}]
    BY DEF IInv, TypeOK, CoordinatorTypeOK
  <2> QED  BY <1>6, <2>1, TimeKeeps DEF vars, coordVars, ownerVars
<1> QED  BY <1>1, <1>2, <1>3, <1>4, <1>5, <1>6 DEF Next

(* Every reachable state satisfies the invariant.                          *)
THEOREM Invariance == Spec => []IInv
BY InitIInv, Inductive, PTL DEF Spec

(* The state of the coordinator is always well formed, and no more owners   *)
(* are inside the gate than max_inflight_requests.                          *)
THEOREM TypeCorrect == Spec => []TypeOK
<1>1. IInv => TypeOK
  BY DEF IInv
<1> QED  BY <1>1, Invariance, PTL

(* Workers and jobs agree on every lease, whatever order polls, completions, *)
(* expiries, prunes and departing owners come in.                           *)
THEOREM LeasesAgree == Spec => []LeaseMutual
<1>1. IInv => LeaseMutual
  BY DEF IInv
<1> QED  BY <1>1, Invariance, PTL

(* The queue holds only jobs a volunteer could take, each once.             *)
THEOREM QueueIsLive == Spec => []JobInOnePlace
<1>1. IInv => JobInOnePlace
  BY DEF IInv, JobInOnePlace
<1> QED  BY <1>1, Invariance, PTL

(* A job whose lease is gone has its answer.                               *)
THEOREM NoLeaseLeftPending == Spec => []LeaseEndsWithAnswer
<1>1. IInv => LeaseEndsWithAnswer
  BY DEF IInv
<1> QED  BY <1>1, Invariance, PTL

(* The request ID registry is exact, and admission slots neither leak nor   *)
(* are given back twice.                                                   *)
THEOREM RegistryAndGate == Spec => []BooksAgree
<1>1. IInv => BooksAgree
  BY DEF IInv, BooksAgree
<1> QED  BY <1>1, Invariance, PTL

(* Of several workers for an operation, one is at least as fast as any.     *)
LEMMA FastestWorker ==
  ASSUME CoordinatorTypeOK, NEW op \in Ops, NEW candidates \in SUBSET Workers,
         candidates # {}
  PROVE  \E c \in candidates : \A d \in candidates : speed[d][op] <= speed[c][op]
<1> DEFINE Slowness(c) == MaxSpeed - speed[c][op]
           slownesses == {Slowness(c) : c \in candidates}
<1>1. \A c \in candidates : speed[c][op] \in 0..MaxSpeed
  BY DEF CoordinatorTypeOK
<1>2. slownesses \in SUBSET Nat /\ slownesses # {}
  BY <1>1, ParametersAssumption
<1>3. PICK n \in slownesses : \A m \in slownesses : n <= m
  <2> HIDE DEF slownesses
  <2> QED  BY <1>2, LeastNatural
<1>4. PICK c \in candidates : n = Slowness(c)
  BY <1>3
<1>5. \A d \in candidates : Slowness(c) <= Slowness(d)
  BY <1>3, <1>4
<1> QED  BY <1>1, <1>5, ParametersAssumption

(* PrefersOtherWorker never leaves a waiting job to nobody: the fastest of    *)
(* the idle and able volunteers that poll does not pass it over.            *)
THEOREM DeferredJobsHaveTakers == Spec => []DeferralHasTaker
<1>1. ASSUME IInv, NEW j \in ToSet(waiting), NEW w \in Workers, PrefersOtherWorker(w, j)
      PROVE  \E c \in Workers : Idle(c) /\ seen[c] = "recent" /\ MayLease(c, j)
  <2> DEFINE op == Ask[j].op
             able == {c \in workers : workerJob[c] = NoOne /\ seen[c] = "recent" /\ Accepts(c, j)}
  <2>1. CoordinatorTypeOK /\ Live(j) /\ j \in Requests /\ op \in Ops
    BY <1>1, ParametersAssumption DEF IInv, TypeOK, WaitingIsLive, Live, CoordinatorTypeOK
  <2>2. able \in SUBSET Workers /\ able # {}
    BY <1>1, <2>1 DEF PrefersOtherWorker, CoordinatorTypeOK
  <2>3. PICK c \in able : \A d \in able : speed[d][op] <= speed[c][op]
    <3> HIDE DEF able, op
    <3> QED  BY <2>1, <2>2, FastestWorker
  <2>4. ~PrefersOtherWorker(c, j)
    <3>1. \A d \in able : speed[d][op] \in Nat /\ speed[c][op] \in Nat
      BY <2>1, <2>2 DEF CoordinatorTypeOK
    <3>2. ASSUME NEW d \in able PROVE ~(speed[d][op] > speed[c][op])
      BY <2>3, <3>1
    <3> QED  BY <3>2 DEF PrefersOtherWorker
  <2> QED  BY <2>1, <2>2, <2>3, <2>4 DEF Idle, MayLease
<1>2. IInv => DeferralHasTaker
  BY <1>1 DEF DeferralHasTaker
<1> QED  BY <1>2, Invariance, PTL

----------------------------------------------------------------------------
(* The coordinator implements LeaseBoard.                                  *)

Stage == [r \in Requests |-> StageOf(r)]

(* A step of one owner moves only its own stage.                           *)
LEMMA OneStageMoves ==
  ASSUME IInv, NEW r \in Requests,
         \A k \in Requests \ {r} : pc'[k] = pc[k] /\ leased'[k] = leased[k] /\ workerOf'[k] = workerOf[k]
  PROVE  Stage' = [Stage EXCEPT ![r] = StageOf(r)']
<1>1. ASSUME NEW k \in Requests \ {r} PROVE StageOf(k)' = StageOf(k)
  BY <1>1 DEF StageOf
<1> QED  BY <1>1 DEF Stage

LEMMA OwnerLeaves ==
  ASSUME IInv, NEW r \in Requests, pc[r] # "done",
         pc' = [pc EXCEPT ![r] = "done"],
         workerOf' = [workerOf EXCEPT ![r] = NoOne],
         NEW what \in (Board!Replies \ {"none"}) \cup ({result[r]} \cap Workers),
         answer' = [answer EXCEPT ![r] = what],
         UNCHANGED <<leased, result>>
  PROVE  Board!Leave(r)
<1>1. pc \in [Requests -> Places] /\ workerOf \in [Requests -> Workers \cup {NoOne}]
  BY DEF IInv, TypeOK, CoordinatorTypeOK
<1>2. StageOf(r)' = "gone" /\ StageOf(r) # "gone"
  BY <1>1 DEF StageOf, Places, IInv, JobStages
<1>3. Stage' = [Stage EXCEPT ![r] = "gone"]
  BY <1>1, <1>2, OneStageMoves
<1>4. Stage[r] # "gone"
  BY <1>2 DEF Stage
<1> QED  BY <1>3, <1>4 DEF Board!Leave, Stage

LEMMA OwnerRefines ==
  ASSUME IInv, NEW r \in Requests, OwnerStep(r)
  PROVE  Board!Next \/ UNCHANGED Board!boardState
<1>0. /\ pc \in [Requests -> Places] /\ workerOf \in [Requests -> Workers \cup {NoOne}]
      /\ result \in [Requests -> Workers \cup {"pending", "failed"}]
      /\ answer \in [Requests -> Workers \cup Answers]
  BY DEF IInv, TypeOK, CoordinatorTypeOK
<1>1. CASE TurnAway(r) \/ EndEarly(r) \/ EnqueueDuplicate(r)
  <2>1. /\ pc[r] # "done" /\ workerOf[r] = NoOne
        /\ pc' = [pc EXCEPT ![r] = "done"]
        /\ UNCHANGED <<workerOf, leased, result>>
        /\ \E what \in Board!Replies \ {"none"} : answer' = [answer EXCEPT ![r] = what]
    BY <1>1 DEF TurnAway, EndEarly, EnqueueDuplicate, Goto, Reply, coordVars, jobVars,
                Board!Replies, IInv, JobStages
  <2>2. workerOf' = [workerOf EXCEPT ![r] = NoOne]
    BY <1>0, <2>1
  <2> QED  BY <2>1, <2>2, OwnerLeaves DEF Board!Next
<1>2. CASE Admit(r) \/ (\E b \in Backends : TryNextBackend(r, b)) \/ OwnerWakes(r)
  <2>1. UNCHANGED <<workerOf, leased, result, answer>>
    BY <1>2 DEF Admit, TryNextBackend, OwnerWakes, coordVars, jobVars
  <2>2. /\ \A k \in Requests \ {r} : pc'[k] = pc[k]
        /\ StageOf(r)' = StageOf(r)
    BY <1>0, <1>2, <2>1 DEF Admit, TryNextBackend, OwnerWakes, Goto, StageOf
  <2>3. Stage' = [Stage EXCEPT ![r] = StageOf(r)]
    BY <2>1, <2>2, OneStageMoves
  <2>4. Stage' = Stage
    BY <2>3 DEF Stage
  <2> QED  BY <2>1, <2>4 DEF Board!boardState, Stage
<1>3. CASE \E b \in Backends \cup {NoOne} : StartOfficial(r, b)
  <2>1. /\ UNCHANGED <<workerOf, leased, result, answer>>
        /\ pc[r] = "admitted" /\ pc' = [pc EXCEPT ![r] = "official"]
    BY <1>3 DEF StartOfficial, Goto
  <2>2. StageOf(r) = "absent" /\ StageOf(r)' = "official"
    BY <1>0, <2>1 DEF StageOf
  <2>3. Stage' = [Stage EXCEPT ![r] = "official"] /\ Stage[r] = "absent"
    BY <1>0, <2>1, <2>2, OneStageMoves DEF Stage
  <2>4. Board!Post(r)
    BY <2>1, <2>3 DEF Board!Post, Stage
  <2> QED  BY <2>4 DEF Board!Next
<1>4. CASE GoToSwarm(r)
  <2>1. /\ UNCHANGED <<workerOf, leased, result, answer>>
        /\ pc[r] = "official" /\ pc' = [pc EXCEPT ![r] = "queued"] /\ ~leased[r]
    BY <1>4 DEF GoToSwarm, Goto, IInv, JobStages
  <2>2. StageOf(r) = "official" /\ StageOf(r)' = "offered"
    BY <1>0, <2>1 DEF StageOf
  <2>3. Stage' = [Stage EXCEPT ![r] = "offered"] /\ Stage[r] = "official"
    BY <1>0, <2>1, <2>2, OneStageMoves DEF Stage
  <2>4. Board!Offer(r)
    BY <2>1, <2>3 DEF Board!Offer, Stage
  <2> QED  BY <2>4 DEF Board!Next
<1>5. CASE OfficialAnswers(r) \/ OfficialUnavailable(r) \/ OwnerGetsResult(r)
             \/ OwnerTimesOut(r) \/ Abort(r)
  <2>1. PICK what \in (Board!Replies \ {"none"}) \cup ({result[r]} \cap Workers) : EndJob(r, what)
    BY <1>5 DEF OfficialAnswers, OfficialUnavailable, OwnerGetsResult, OwnerTimesOut, Abort,
                Board!Replies
  <2>2. pc[r] # "done"
    BY <1>5 DEF OfficialAnswers, OfficialUnavailable, OwnerGetsResult, OwnerTimesOut, Abort
  <2>3. /\ pc' = [pc EXCEPT ![r] = "done"]
        /\ workerOf' = [workerOf EXCEPT ![r] = NoOne]
        /\ answer' = [answer EXCEPT ![r] = what]
        /\ UNCHANGED <<leased, result>>
    BY <2>1 DEF EndJob, Finish, Release, Reply
  <2> QED  BY <2>2, <2>3, OwnerLeaves DEF Board!Next
<1> QED  BY <1>1, <1>2, <1>3, <1>4, <1>5 DEF OwnerStep, OwnerProceeds

LEMMA SettleRefines ==
  ASSUME IInv, NEW j \in Requests, workerOf[j] # NoOne, Release(j),
         NEW value \in {workerOf[j], "failed"}, SetResult(j, value),
         leased' = leased \/ leased' = [leased EXCEPT ![j] = TRUE],
         UNCHANGED <<pc, answer>>
  PROVE  Board!Settle(j)
<1>0. /\ pc \in [Requests -> Places] /\ workerOf \in [Requests -> Workers \cup {NoOne}]
      /\ result \in [Requests -> Workers \cup {"pending", "failed"}]
      /\ leased \in [Requests -> BOOLEAN]
  BY DEF IInv, TypeOK, CoordinatorTypeOK
<1>1. result[j] = "pending" /\ leased[j] /\ pc[j] \in {"queued", "held"}
  <2>1. j \in jobs
    BY <1>0 DEF IInv, LeaseMutual
  <2>2. result[j] = "pending" /\ leased[j]
    BY <2>1 DEF IInv, LeaseEndsWithAnswer
  <2> QED  BY <2>1, <2>2 DEF IInv, JobStages
<1>2. /\ workerOf' = [workerOf EXCEPT ![j] = NoOne]
      /\ result' = [result EXCEPT ![j] = value]
      /\ leased' = leased
  BY <1>0, <1>1 DEF Release, SetResult
<1>3. StageOf(j) = "held" /\ StageOf(j)' = "settled"
  BY <1>0, <1>1, <1>2 DEF StageOf
<1>4. Stage' = [Stage EXCEPT ![j] = "settled"] /\ Stage[j] = "held"
  BY <1>0, <1>2, <1>3, OneStageMoves DEF Stage
<1> QED  BY <1>2, <1>4 DEF Board!Settle, Stage

LEMMA WorkerRefines ==
  ASSUME IInv, NEW w \in Workers, WorkerStep(w)
  PROVE  Board!Next \/ UNCHANGED Board!boardState
<1>0. /\ pc \in [Requests -> Places] /\ workerOf \in [Requests -> Workers \cup {NoOne}]
      /\ leased \in [Requests -> BOOLEAN]
  BY DEF IInv, TypeOK, CoordinatorTypeOK
<1>1. CASE UNCHANGED <<pc, workerOf, leased, result, answer>>
  BY <1>1 DEF Board!boardState, StageOf
<1>2. CASE Poll(w) /\ workerJob[w] = NoOne /\ \E i \in DOMAIN waiting : Lease(w, i)
  <2>1. PICK i \in DOMAIN waiting : Lease(w, i)
    BY <1>2
  <2>2. waiting[i] \in Requests /\ waiting[i] \in ToSet(waiting)
    BY LenProperties, ElementOfSeq DEF IInv, TypeOK, CoordinatorTypeOK, ToSet
  <2>3. PICK j \in Requests :
           /\ j \in ToSet(waiting)
           /\ workerOf' = [workerOf EXCEPT ![j] = w]
           /\ leased' = [leased EXCEPT ![j] = TRUE]
           /\ UNCHANGED <<pc, result, answer>>
    BY <1>2, <2>1, <2>2 DEF Lease, Poll, ownerVars
  <2>4. pc[j] = "queued" /\ ~leased[j] /\ w # NoOne
    BY <2>3, ActorsAssumption DEF IInv, WaitingIsLive
  <2>5. StageOf(j) = "offered" /\ StageOf(j)' = "held"
    BY <1>0, <2>3, <2>4 DEF StageOf
  <2>6. Stage' = [Stage EXCEPT ![j] = "held"] /\ Stage[j] = "offered"
    BY <1>0, <2>3, <2>5, OneStageMoves DEF Stage
  <2>7. \A other \in Requests : workerOf[other] # w
    BY <1>2, ActorsAssumption DEF IInv, LeaseMutual
  <2>8. Board!Claim(j, w)
    BY <2>3, <2>6, <2>7 DEF Board!Claim, Stage
  <2> QED  BY <2>8 DEF Board!Next
<1>3. ASSUME NEW j \in Requests, CompleteOk(w, j) \/ CompleteBad(w, j)
      PROVE  Board!Next
  <2>1. /\ workerOf[j] = w /\ workerOf[j] # NoOne /\ Release(j)
        /\ \E value \in {workerOf[j], "failed"} : SetResult(j, value)
        /\ leased' = leased \/ leased' = [leased EXCEPT ![j] = TRUE]
        /\ UNCHANGED <<pc, answer>>
    BY <1>3, ActorsAssumption DEF CompleteOk, CompleteBad, Authorized, Fail, ownerVars
  <2>2. Board!Settle(j)
    BY <2>1, SettleRefines
  <2> QED  BY <2>2 DEF Board!Next
<1>4. CASE Register(w) \/ WorkerQuiet(w)
  BY <1>1, <1>4 DEF Register, WorkerQuiet, jobVars, ownerVars
<1>5. CASE Poll(w)
  BY <1>1, <1>2, <1>5 DEF Poll, ownerVars
<1> QED  BY <1>3, <1>4, <1>5 DEF WorkerStep

(* The coordinator keeps the promise of LeaseBoard: officials first, then   *)
(* one volunteer under one lease, who holds nothing else, and no owner is   *)
(* told a result other than the one accepted from that volunteer.           *)
THEOREM Refinement == Spec => KeepsThePromise
<1>1. Init => Board!Init
  BY DEF Init, CoordinatorInit, Board!Init, StageOf
<1>2. IInv /\ [Next]_vars => [Board!Next]_(Board!boardState)
  <2> SUFFICES ASSUME IInv, [Next]_vars
               PROVE  Board!Next \/ UNCHANGED Board!boardState
    OBVIOUS
  <2>1. CASE \E r \in SwarmRequests : OwnerStep(r)
    BY <2>1, OwnerRefines DEF SwarmRequests
  <2>2. CASE \E w \in Workers : WorkerStep(w)
    BY <2>2, WorkerRefines
  <2>3. ASSUME NEW j \in Requests, LeaseExpires(j) PROVE Board!Next
    <3>1. /\ workerOf[j] # NoOne /\ Release(j) /\ SetResult(j, "failed")
          /\ leased' = [leased EXCEPT ![j] = TRUE] /\ UNCHANGED <<pc, answer>>
      BY <2>3 DEF LeaseExpires, Fail, ownerVars
    <3>2. Board!Settle(j)
      BY <3>1, SettleRefines
    <3> QED  BY <3>2 DEF Board!Next
  <2>4. CASE CompletedExpires \/ Observe \/ UNCHANGED vars
    <3>1. UNCHANGED <<pc, workerOf, leased, result, answer>>
      BY <2>4 DEF CompletedExpires, Observe, vars, coordVars, jobVars, ownerVars
    <3> QED  BY <3>1 DEF Board!boardState, StageOf
  <2> QED  BY <2>1, <2>2, <2>3, <2>4 DEF Next
<1> QED  BY <1>1, <1>2, Invariance, PTL DEF Spec, Board!Spec, KeepsThePromise

=============================================================================
