---------------------------- MODULE Coordinator ----------------------------
(***************************************************************************)
(* The state of class Coordinator (l0_draft_engine/coordinator.py): the    *)
(* registry of volunteer workers, the registry of jobs, the queue of jobs  *)
(* waiting for a volunteer, the recently completed request IDs and the     *)
(* admission counter.  Its methods are operators on that state; the HTTP   *)
(* handlers that call them are the actions of the modules that extend this *)
(* one.  The coordinator is one asyncio process: the code between two      *)
(* awaits is one step.                                                     *)
(*                                                                         *)
(* A request stands for the Job it creates (job_id is a fresh UUID, so the *)
(* two are one to one); IdOf gives the X-Babel-Request-Id it carries,      *)
(* which clients choose and may repeat.  A worker stands for one           *)
(* registration: its name may be used again once prune has removed it, as  *)
(* by then it holds no lease.                                              *)
(***************************************************************************)
EXTENDS Integers, Sequences, FiniteSets, SequencesExt

CONSTANTS
  Requests,      (* HTTP requests, each with the job it creates             *)
  RequestIds,    (* values of X-Babel-Request-Id                            *)
  Workers,       (* volunteer registrations                                 *)
  Backends,      (* official inference backends (backend_urls)              *)
  NoOne,         (* Python's None                                           *)
  IdOf,          (* the request ID a request carries                        *)
  Ask,           (* what a job needs: [op, bytes, model, client]            *)
  Skill,         (* what a worker offers: [ops, bytes, model, client]       *)
  MaxInflight,   (* max_inflight_requests                                   *)
  MaxCompleted,  (* completed IDs kept, 1024 in the code                    *)
  MaxSpeed       (* throughput classes; 0 is "not measured yet"             *)

Ops == {"draft", "transcribe", "enhance"}

ASSUME ActorsAssumption ==
  /\ IsFiniteSet(Requests) /\ IsFiniteSet(Workers)
  /\ NoOne \notin Requests \cup Workers \cup Backends
  /\ Workers \cap {"pending", "failed"} = {}

ASSUME ParametersAssumption ==
  /\ IdOf \in [Requests -> RequestIds]
  /\ \A r \in Requests : Ask[r].op \in Ops
  /\ MaxInflight \in Nat \ {0}
  /\ MaxCompleted \in Nat \ {0}
  /\ MaxSpeed \in Nat \ {0}

VARIABLES
  workers,       (* Coordinator.workers: the registered ones                *)
  workerJob,     (* Worker.job_id                                           *)
  seen,          (* Worker.last_poll and last_seen, as far as the code asks *)
  speed,         (* Worker.throughput, per operation                        *)
  jobs,          (* Coordinator.jobs                                        *)
  byId,          (* Coordinator.by_request_id                               *)
  waiting,       (* Coordinator.waiting                                     *)
  completed,     (* Coordinator.completed, oldest first                     *)
  lapsed,        (* how many of them, from the front, are past their expiry *)
  inflight,      (* Coordinator.inflight                                    *)
  workerOf,      (* Job.worker_id, set and cleared with Job.lease_token     *)
  result,        (* Job.result: pending, failed (None) or the worker whose
                    result it holds                                         *)
  leased,        (* Job.leased, an asyncio.Event                            *)
  phase,         (* Job.phase                                               *)
  backend        (* Job.backend_url                                         *)

workerVars == <<workers, workerJob, seen, speed>>
boardVars  == <<jobs, byId, waiting, completed, lapsed>>
jobVars    == <<workerOf, result, leased, phase, backend>>
coordVars  == <<workers, workerJob, seen, speed, jobs, byId, waiting,
                completed, lapsed, inflight, workerOf, result, leased,
                phase, backend>>

CoordinatorTypeOK ==
  /\ workers \subseteq Workers
  /\ workerJob \in [Workers -> Requests \cup {NoOne}]
  /\ seen \in [Workers -> {"recent", "quiet", "aged"}]
  /\ speed \in [Workers -> [Ops -> 0..MaxSpeed]]
  /\ jobs \subseteq Requests
  /\ byId \in [RequestIds -> Requests \cup {NoOne}]
  /\ waiting \in Seq(Requests)
  /\ completed \in Seq(RequestIds)
  /\ lapsed \in 0..Len(completed)
  /\ inflight \in 0..MaxInflight
  /\ workerOf \in [Requests -> Workers \cup {NoOne}]
  /\ result \in [Requests -> Workers \cup {"pending", "failed"}]
  /\ leased \in [Requests -> BOOLEAN]
  /\ phase \in [Requests -> {"queued", "running"}]
  /\ backend \in [Requests -> Backends \cup {NoOne}]

CoordinatorInit ==
  /\ workers = {}
  /\ workerJob = [w \in Workers |-> NoOne]
  /\ seen = [w \in Workers |-> "quiet"]
  /\ speed = [w \in Workers |-> [op \in Ops |-> 0]]
  /\ jobs = {}
  /\ byId = [id \in RequestIds |-> NoOne]
  /\ waiting = <<>>
  /\ completed = <<>>
  /\ lapsed = 0
  /\ inflight = 0
  /\ workerOf = [r \in Requests |-> NoOne]
  /\ result = [r \in Requests |-> "pending"]
  /\ leased = [r \in Requests |-> FALSE]
  /\ phase = [r \in Requests |-> "queued"]
  /\ backend = [r \in Requests |-> NoOne]

----------------------------------------------------------------------------
(* prune: idle registrations and expired or surplus completed IDs go.       *)

(* seen = "aged" is an idle time beyond worker_idle_seconds, "recent" a poll *)
(* within RECENT_WORKER_POLL_SECONDS, which is the shorter of the two.       *)
PruneWorkers ==
  workers' = {w \in workers : workerJob'[w] # NoOne \/ seen'[w] # "aged"}

Surplus(ids) ==
  IF Len(ids) - MaxCompleted > lapsed THEN Len(ids) - MaxCompleted ELSE lapsed

PruneCompleted(ids) ==
  /\ completed' = SubSeq(ids, Surplus(ids) + 1, Len(ids))
  /\ lapsed' = 0

Prune ==
  /\ UNCHANGED <<workerJob, seen>>
  /\ PruneWorkers
  /\ PruneCompleted(completed)

----------------------------------------------------------------------------
(* Matching jobs with workers.                                             *)

Accepts(w, j) ==
  /\ Ask[j].op \in Skill[w].ops
  /\ Ask[j].op = "enhance" =>
       /\ Skill[w].model = Ask[j].model
       /\ Skill[w].client = NoOne \/ Skill[w].client # Ask[j].client
  /\ Ask[j].bytes <= Skill[w].bytes

Idle(w) == w \in workers /\ workerJob[w] = NoOne

(* Asked right after prune, hence the primed registry. *)
IdleCapacity(j) ==
  LET idle   == {w \in workers' : workerJob[w] = NoOne /\ Accepts(w, j)}
      queued == {i \in DOMAIN waiting :
                   waiting[i] \in jobs /\ Ask[waiting[i]].op # "enhance"}
  IN  Cardinality(idle) > Cardinality(queued)

(* Mutant: an equally fast worker is preferred too.                        *)
PrefersPeers(w, j) ==
  \E c \in workers \ {w} :
    /\ workerJob[c] = NoOne
    /\ seen[c] = "recent"
    /\ speed[c][Ask[j].op] >= speed[w][Ask[j].op]
    /\ Accepts(c, j)

PrefersOtherWorker(w, j) ==
  \E c \in workers \ {w} :
    /\ workerJob[c] = NoOne
    /\ seen[c] = "recent"
    /\ speed[c][Ask[j].op] > speed[w][Ask[j].op]
    /\ Accepts(c, j)

(* A measured rate is some class above 0; a job without work or a lease      *)
(* without duration leaves the score alone.                                  *)
RecordWorkerSuccess(j) ==
  \/ UNCHANGED speed
  \/ /\ workerOf[j] \in workers
     /\ \E rate \in 1..MaxSpeed :
          speed' = [speed EXCEPT ![workerOf[j]][Ask[j].op] = rate]

----------------------------------------------------------------------------
(* The life of a job.                                                      *)

KnownId(r) == byId[IdOf[r]] # NoOne \/ IdOf[r] \in ToSet(completed')

(* enqueue without its 409; phase stays "running" while officials work.    *)
Enqueue(r) ==
  /\ jobs' = jobs \cup {r}
  /\ byId' = [byId EXCEPT ![IdOf[r]] = r]
  /\ phase' = [phase EXCEPT ![r] = "running"]

(* Mutant: the official backend stays on record.                           *)
QueueKeepsBackend(r) ==
  /\ UNCHANGED backend
  /\ phase' = [phase EXCEPT ![r] = "queued"]
  /\ waiting' = Append(waiting, r)

(* Mutant: the job keeps the phase it had with the officials.              *)
QueueKeepsPhase(r) ==
  /\ backend' = [backend EXCEPT ![r] = NoOne]
  /\ UNCHANGED phase
  /\ waiting' = Append(waiting, r)

QueueForSwarm(r) ==
  /\ backend' = [backend EXCEPT ![r] = NoOne]
  /\ phase' = [phase EXCEPT ![r] = "queued"]
  /\ waiting' = Append(waiting, r)

(* The registered worker that release sets free: the one the job names, if *)
(* it is still on this job.                                                *)
HoldersKeptBusy(j) == {}  (* mutant: release leaves Worker.job_id alone *)

Holders(j) == {w \in workers : w = workerOf[j] /\ workerJob[w] = j}

Release(j) ==
  /\ workerJob' = [w \in Workers |-> IF w \in Holders(j) THEN NoOne ELSE workerJob[w]]
  /\ seen' = [w \in Workers |-> IF w \in Holders(j) /\ seen[w] = "aged"
                                THEN "quiet" ELSE seen[w]]
  /\ workerOf' = [workerOf EXCEPT ![j] = NoOne]

KeepResult(j, value) == UNCHANGED result  (* mutant: nobody is told *)

SetResult(j, value) ==
  result' = [result EXCEPT ![j] = IF @ = "pending" THEN value ELSE @]

Fail(j) ==
  /\ Release(j)
  /\ SetResult(j, "failed")
  /\ leased' = [leased EXCEPT ![j] = TRUE]

LeaveQueued(j) == UNCHANGED waiting  (* mutant: the entry stays *)

Unqueue(j) == waiting' = RemoveFirst(waiting, j)

(* An ID enters completed once: enqueue refuses a known one, so the order   *)
(* of completed is the order of expiry.                                     *)
Finish(j, answered) ==
  /\ Release(j)
  /\ jobs' = jobs \ {j}
  /\ byId' = [byId EXCEPT ![IdOf[j]] = NoOne]
  /\ Unqueue(j)
  /\ PruneWorkers
  /\ PruneCompleted(IF answered THEN Append(completed, IdOf[j]) ELSE completed)

----------------------------------------------------------------------------
(* lease: the first waiting job the worker may take.                       *)

Live(j) == j \in jobs /\ result[j] = "pending"

MayLease(w, j) == Live(j) /\ Accepts(w, j) /\ ~PrefersOtherWorker(w, j)

(* The loop drops the dead entries it passes.  No reachable queue has one   *)
(* (WaitingIsLive), so the first branch is the one that is taken.           *)
DropDead(queue) ==
  IF \A i \in DOMAIN queue : Live(queue[i]) THEN queue ELSE SelectSeq(queue, Live)

FirstLeasable(w, i) ==
  /\ i \in DOMAIN waiting
  /\ MayLease(w, waiting[i])
  /\ \A k \in 1..(i - 1) : ~MayLease(w, waiting[k])

Lease(w, i) ==
  /\ waiting' = DropDead(SubSeq(waiting, 1, i - 1))
                  \o SubSeq(waiting, i + 1, Len(waiting))
  /\ workerJob' = [workerJob EXCEPT ![w] = waiting[i]]
  /\ workerOf' = [workerOf EXCEPT ![waiting[i]] = w]
  /\ phase' = [phase EXCEPT ![waiting[i]] = "running"]
  /\ leased' = [leased EXCEPT ![waiting[i]] = TRUE]

=============================================================================
