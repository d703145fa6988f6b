------------------------------ MODULE SwarmJobs ------------------------------
(***************************************************************************)
(* Draft and transcription requests against the volunteer swarm: the       *)
(* owner's coroutine (draft / transcribe -> run_job), the volunteers' calls *)
(* (register, lease, complete) and the passing of time.                    *)
(*                                                                         *)
(* An owner is admitted, registers its job, asks the official backends one *)
(* after the other, and only if none of them answers queues the job for    *)
(* the swarm, waits for a lease and then for the result.  Every await of   *)
(* the owner is a place where any other handler may run.                   *)
(*                                                                         *)
(* Deadlines are not measured: wherever the code arms a timeout the model  *)
(* lets it fire at any time.                                               *)
(***************************************************************************)
EXTENDS Coordinator

VARIABLES
  pc,      (* where the owner of each request is                            *)
  left,    (* official backends the owner has not tried yet                 *)
  answer   (* what the owner's client was told                              *)

ownerVars == <<pc, left, answer>>
vars == <<coordVars, ownerVars>>

SwarmRequests == {r \in Requests : Ask[r].op # "enhance"}

(* idle: not sent; admitted: reading input or timing; official: in          *)
(* _backend_request; queued: waiting for a lease; held: for the result.     *)
Places == {"idle", "admitted", "official", "queued", "held", "done"}

Answers == {"none", "busy", "rejected", "duplicate", "official", "unavailable", "aborted"}

TypeOK ==
  /\ CoordinatorTypeOK
  /\ pc \in [Requests -> Places]
  /\ left \in [Requests -> SUBSET Backends]
  /\ answer \in [Requests -> Workers \cup Answers]

Init ==
  /\ CoordinatorInit
  /\ pc = [r \in Requests |-> "idle"]
  /\ left = [r \in Requests |-> Backends]
  /\ answer = [r \in Requests |-> "none"]

Goto(r, from, to) == pc[r] = from /\ pc' = [pc EXCEPT ![r] = to]

Reply(r, what) == answer' = [answer EXCEPT ![r] = what]

----------------------------------------------------------------------------
(* The owner before its job exists.                                        *)

(* inflight >= max_inflight_requests: 429.                                 *)
TurnAway(r) ==
  /\ Goto(r, "idle", "done")
  /\ inflight >= MaxInflight
  /\ Reply(r, "busy")
  /\ UNCHANGED <<coordVars, left>>

(* Mutant: one owner too many.                                             *)
AdmitAtTheLimit(r) ==
  /\ Goto(r, "idle", "admitted")
  /\ inflight <= MaxInflight
  /\ inflight' = inflight + 1
  /\ UNCHANGED <<workerVars, boardVars, jobVars, left, answer>>

Admit(r) ==
  /\ Goto(r, "idle", "admitted")
  /\ inflight < MaxInflight
  /\ inflight' = inflight + 1
  /\ UNCHANGED <<workerVars, boardVars, jobVars, left, answer>>

(* Mutant: an early return outside the finally.                            *)
EndEarlyKeepsSlot(r) ==
  /\ Goto(r, "admitted", "done")
  /\ Reply(r, "rejected")
  /\ UNCHANGED <<coordVars, left>>

(* Answered or failed before run_job: bad input, no timing, cached timing,  *)
(* somebody else's flight, a deadline that has passed, a lost client.       *)
EndEarly(r) ==
  /\ Goto(r, "admitted", "done")
  /\ Reply(r, "rejected")
  /\ inflight' = inflight - 1
  /\ UNCHANGED <<workerVars, boardVars, jobVars, left>>

(* Mutant: the 409 is raised inside run_job's try, and finish takes the      *)
(* original's registration away.                                            *)
DuplicateFinishes(r) ==
  /\ Goto(r, "admitted", "done")
  /\ Prune
  /\ KnownId(r)
  /\ byId' = [byId EXCEPT ![IdOf[r]] = NoOne]
  /\ Reply(r, "duplicate")
  /\ inflight' = inflight - 1
  /\ UNCHANGED <<speed, jobs, waiting, jobVars, left>>

(* enqueue's 409 is raised outside run_job's try: no finish.               *)
EnqueueDuplicate(r) ==
  /\ Goto(r, "admitted", "done")
  /\ Prune
  /\ KnownId(r)
  /\ Reply(r, "duplicate")
  /\ inflight' = inflight - 1
  /\ UNCHANGED <<speed, jobs, byId, waiting, jobVars, left>>

(* Registers the job and posts it to the first backend in the same step.   *)
(* Backends are taken in any order: ordered_backends sorts by throughput.  *)
(* b = NoOne: no time is left for officials; the code then goes on to the   *)
(* fallback without yielding, where the model lets others run in between.   *)
StartOfficial(r, b) ==
  /\ Goto(r, "admitted", "official")
  /\ Prune
  /\ ~KnownId(r)
  /\ Enqueue(r)
  /\ backend' = [backend EXCEPT ![r] = b]
  /\ left' = [left EXCEPT ![r] = @ \ {b}]
  /\ UNCHANGED <<speed, waiting, inflight, workerOf, result, leased, answer>>

----------------------------------------------------------------------------
(* The owner of a registered job.                                          *)

(* The backend in turn failed or timed out, and there is time for another. *)
TryNextBackend(r, b) ==
  /\ pc[r] = "official"
  /\ b \in left[r]
  /\ backend' = [backend EXCEPT ![r] = b]
  /\ left' = [left EXCEPT ![r] = @ \ {b}]
  /\ UNCHANGED <<workerVars, boardVars, inflight, workerOf, result, leased,
                 phase, pc, answer>>

(* run_job's finally, and the caller's: finish and leave the admission gate. *)
EndJob(r, what) ==
  /\ Finish(r, what # "aborted")
  /\ Reply(r, what)
  /\ pc' = [pc EXCEPT ![r] = "done"]
  /\ inflight' = inflight - 1
  /\ UNCHANGED <<speed, result, leased, phase, backend, left>>

(* A valid 200, or a client error that is passed on.                       *)
OfficialAnswers(r) ==
  /\ pc[r] = "official"
  /\ EndJob(r, "official")

(* No official answer, none left or no time left, and a volunteer to spare. *)
GoToSwarm(r) ==
  /\ Goto(r, "official", "queued")
  /\ Prune
  /\ IdleCapacity(r)
  /\ QueueForSwarm(r)
  /\ UNCHANGED <<speed, jobs, byId, inflight, workerOf, result, leased,
                 left, answer>>

OfficialUnavailable(r) ==
  /\ pc[r] = "official"
  /\ EndJob(r, "unavailable")
  /\ ~IdleCapacity(r)

(* job.leased is set: by a lease, or by fail.                              *)
OwnerWakes(r) ==
  /\ Goto(r, "queued", "held")
  /\ leased[r]
  /\ UNCHANGED <<coordVars, left, answer>>

OwnerGetsResult(r) ==
  /\ pc[r] = "held"
  /\ \/ result[r] \in Workers /\ EndJob(r, result[r])
     \/ result[r] = "failed" /\ EndJob(r, "unavailable")

(* Mutant: only the wait for a lease is under a timeout.                   *)
OwnerWaitsForResult(r) ==
  /\ pc[r] = "queued" /\ ~leased[r]
  /\ EndJob(r, "unavailable")

(* queue_seconds, the lease deadline or the request's deadline.  A timeout  *)
(* may win over an event or a result that is already there.                 *)
OwnerTimesOut(r) ==
  /\ pc[r] \in {"queued", "held"}
  /\ EndJob(r, "unavailable")

(* The coroutine is cancelled, or an exception other than 503 leaves it.    *)
Abort(r) ==
  /\ pc[r] \in {"official", "queued", "held"}
  /\ EndJob(r, "aborted")

----------------------------------------------------------------------------
(* Volunteers.                                                             *)

Register(w) ==
  /\ w \notin workers
  /\ workerJob' = [workerJob EXCEPT ![w] = NoOne]
  /\ seen' = [seen EXCEPT ![w] = "quiet"]
  /\ speed' = [speed EXCEPT ![w] = [op \in Ops |-> 0]]
  /\ workers' = {v \in workers : workerJob[v] # NoOne \/ seen[v] # "aged"} \cup {w}
  /\ PruneCompleted(completed)
  /\ UNCHANGED <<jobs, byId, waiting, jobVars, inflight, ownerVars>>

(* POST /v1/workers/lease; 204 when the worker is busy or nothing fits.     *)
Poll(w) ==
  /\ w \in workers
  /\ seen' = [seen EXCEPT ![w] = "recent"]
  /\ \/ /\ workerJob[w] # NoOne
        /\ UNCHANGED <<workerJob, waiting, workerOf, leased, phase>>
     \/ /\ workerJob[w] = NoOne
        /\ \A i \in DOMAIN waiting : ~MayLease(w, waiting[i])
        /\ waiting' = DropDead(waiting)
        /\ UNCHANGED <<workerJob, workerOf, leased, phase>>
     \/ /\ workerJob[w] = NoOne
        /\ \E i \in DOMAIN waiting : FirstLeasable(w, i) /\ Lease(w, i)
  /\ UNCHANGED <<workers, speed, jobs, byId, completed, lapsed, inflight,
                 result, backend, ownerVars>>

(* Mutant: any live lease will do, whoever holds it.                       *)
LeasedToSomebody(w, j) == w \in workers /\ j \in jobs /\ workerOf[j] # NoOne

(* worker_job: a registered worker, a live lease, and it is this worker's.  *)
(* A lease token is as good as the worker's name: a job is leased once.     *)
Authorized(w, j) == w \in workers /\ j \in jobs /\ workerOf[j] = w

(* complete, JSON body with a valid result.                                *)
CompleteOk(w, j) ==
  /\ Authorized(w, j)
  /\ Ask[j].op # "enhance"
  /\ RecordWorkerSuccess(j)
  /\ Release(j)
  /\ SetResult(j, w)
  /\ UNCHANGED <<workers, boardVars, inflight, leased, phase, backend, ownerVars>>

(* complete with an error, or with a result that does not fit the request.  *)
CompleteBad(w, j) ==
  /\ Authorized(w, j)
  /\ Fail(j)
  /\ UNCHANGED <<workers, speed, boardVars, inflight, phase, backend, ownerVars>>

(* authorized_job past lease_deadline, on behalf of any call with the token. *)
LeaseExpires(j) ==
  /\ j \in jobs
  /\ workerOf[j] # NoOne
  /\ Fail(j)
  /\ UNCHANGED <<workers, speed, boardVars, inflight, phase, backend, ownerVars>>

----------------------------------------------------------------------------
(* Time, and the calls that only prune (/health, /v1/queue, status).        *)

WorkerQuiet(w) ==
  /\ w \in workers
  /\ \/ seen[w] = "recent" /\ seen' = [seen EXCEPT ![w] = "quiet"]
     \/ seen[w] = "quiet"  /\ seen' = [seen EXCEPT ![w] = "aged"]
  /\ UNCHANGED <<workers, workerJob, speed, boardVars, jobVars, inflight, ownerVars>>

CompletedExpires ==
  /\ lapsed < Len(completed)
  /\ lapsed' = lapsed + 1
  /\ UNCHANGED <<workerVars, jobs, byId, waiting, completed, jobVars, inflight, ownerVars>>

Observe ==
  /\ Prune
  /\ UNCHANGED <<speed, jobs, byId, waiting, jobVars, inflight, ownerVars>>

----------------------------------------------------------------------------
OwnerProceeds(r) ==
  \/ \E b \in Backends : TryNextBackend(r, b)
  \/ OfficialAnswers(r)
  \/ GoToSwarm(r)
  \/ OfficialUnavailable(r)
  \/ OwnerWakes(r)
  \/ OwnerGetsResult(r)
  \/ OwnerTimesOut(r)

OwnerStep(r) ==
  \/ TurnAway(r)
  \/ Admit(r)
  \/ EndEarly(r)
  \/ EnqueueDuplicate(r)
  \/ \E b \in Backends \cup {NoOne} : StartOfficial(r, b)
  \/ OwnerProceeds(r)
  \/ Abort(r)

WorkerStep(w) ==
  \/ Register(w)
  \/ Poll(w)
  \/ WorkerQuiet(w)
  \/ \E j \in Requests : CompleteOk(w, j) \/ CompleteBad(w, j)

Next ==
  \/ \E r \in SwarmRequests : OwnerStep(r)
  \/ \E w \in Workers : WorkerStep(w)
  \/ \E j \in Requests : LeaseExpires(j)
  \/ CompletedExpires
  \/ Observe

Spec == Init /\ [][Next]_vars

(* Every await of a registered owner is under a timeout, so its coroutine   *)
(* moves on whatever volunteers and backends do.  Nothing is assumed of     *)
(* them, nor of an owner still uploading, whose body is read without one.   *)
FairSpec == Spec /\ \A r \in SwarmRequests : WF_vars(OwnerProceeds(r))

----------------------------------------------------------------------------
(* Properties.                                                             *)

Active == {r \in Requests : pc[r] \in {"admitted", "official", "queued", "held"}}

(* The admission counter is the number of owners inside the gate: no path   *)
(* out of draft or transcribe leaves a slot taken or gives one back twice.  *)
InflightExact == inflight = Cardinality(Active)

(* by_request_id is the inverse of jobs, no ID is both active and completed, *)
(* and none is completed twice (which is what lets finish append to         *)
(* completed without moving an older entry of the same ID to the end).      *)
IdRegistry ==
  /\ \A r \in Requests : r \in jobs <=> byId[IdOf[r]] = r
  /\ \A id \in ToSet(completed) : byId[id] = NoOne
  /\ IsInjective(completed)

(* Neither the gate nor the registries drift, whoever comes and goes.        *)
BooksAgree == InflightExact /\ IdRegistry

(* A worker's job_id and a job's worker_id always agree, across release,    *)
(* fail, finish and prune: no worker stays busy with a job that has left it, *)
(* no lease names a worker that is no longer registered.                    *)
LeaseMutual ==
  \A w \in Workers, j \in Requests :
    /\ workerOf[j] = w <=> (w \in workers /\ workerJob[w] = j)
    /\ workerOf[j] = w => j \in jobs

(* Every entry of the queue is a job a volunteer could take now: registered, *)
(* undecided, never leased, its owner in its first wait; and no job is       *)
(* listed twice.  The sweep in lease therefore never finds a dead entry.    *)
WaitingIsLive ==
  /\ IsInjective(waiting)
  /\ \A j \in ToSet(waiting) :
       Live(j) /\ workerOf[j] = NoOne /\ ~leased[j] /\ pc[j] = "queued"

(* What /v1/queue reports as queued has a position in the queue.            *)
QueuedHasPosition ==
  \A j \in jobs : phase[j] = "queued" <=> j \in ToSet(waiting)

(* A job is never with an official backend and with the swarm at once.      *)
OneExecutor ==
  \A j \in jobs :
    backend[j] # NoOne =>
      pc[j] = "official" /\ workerOf[j] = NoOne /\ j \notin ToSet(waiting)

(* Queue, status and backend of a job tell one story: the queue has the live *)
(* and undecided jobs that say they are queued, once each, and nothing that  *)
(* a backend is still at.                                                  *)
JobInOnePlace == WaitingIsLive /\ QueuedHasPosition /\ OneExecutor

(* When an owner wakes from leased, either the lease is there with its      *)
(* deadline or the result is: "lease_deadline or 0" never turns into a       *)
(* timeout of a job that is still being worked on.  And while a worker       *)
(* holds the lease nothing else has decided the job.                        *)
LeaseEndsWithAnswer ==
  \A j \in jobs :
    /\ leased[j] /\ workerOf[j] = NoOne => result[j] # "pending"
    /\ workerOf[j] # NoOne => result[j] = "pending" /\ leased[j]

(* A worker that passes over a job in favour of a faster one leaves it to   *)
(* a worker that is idle, polling, able, and would not pass it over itself. *)
DeferralHasTaker ==
  \A j \in ToSet(waiting), w \in Workers :
    Idle(w) /\ PrefersOtherWorker(w, j) =>
      \E c \in Workers : Idle(c) /\ seen[c] = "recent" /\ MayLease(c, j)

(* The promise: jobs go official, offered, held, settled, gone, never back;  *)
(* a volunteer holds one job at a time and only its own result is told.     *)
StageOf(r) ==
  CASE pc[r] \in {"idle", "admitted"}                   -> "absent"
    [] pc[r] = "official"                               -> "official"
    [] pc[r] = "done"                                   -> "gone"
    [] pc[r] \in {"queued", "held"} /\ ~leased[r]       -> "offered"
    [] pc[r] \in {"queued", "held"} /\ leased[r] /\ workerOf[r] # NoOne -> "held"
    [] pc[r] \in {"queued", "held"} /\ leased[r] /\ workerOf[r] = NoOne -> "settled"

Board == INSTANCE LeaseBoard WITH
  stage <- [r \in Requests |-> StageOf(r)], holder <- workerOf,
  outcome <- result, answer <- answer

KeepsThePromise == Board!Spec

(* Every owner of a registered job is answered.                            *)
EveryOwnerAnswered ==
  \A r \in Requests :
    pc[r] \in {"official", "queued", "held"} ~> pc[r] = "done"

(* No volunteer is held for ever by a job, even one it never answers.       *)
EveryLeaseEnds ==
  \A w \in Workers : workerJob[w] # NoOne ~> workerJob[w] = NoOne

=============================================================================
