---------------------------- MODULE Enhancement ----------------------------
(***************************************************************************)
(* One voice-enhancement request of the coordinator, from its admission to *)
(* the removal of its temporary directory (coordinator.py: enhance,        *)
(* prepare_response, run_enhancement, cleanup, EnhancementAudioResponse,   *)
(* the multipart branch of complete; enhancement.py: EnhancementResponse). *)
(*                                                                         *)
(* Four parties share the directory: the owner's coroutine, the task that  *)
(* asks the official backends and then waits for a volunteer, the          *)
(* volunteer's downloads and uploads ("transfers"), and cleanup.  Job's    *)
(* io_lock serialises transfers with cleanup; cleanup cancels io_task, the *)
(* transfer at work, as a volunteer may stall for ever.                    *)
(*                                                                         *)
(* A job is leased at most once: lease takes it out of the queue and fail  *)
(* never puts it back.  The matching of jobs with volunteers, the request  *)
(* IDs and the worker registry are module SwarmJobs; here a job is offered *)
(* and some volunteer takes it, and a request ID may turn out to be known. *)
(***************************************************************************)
EXTENDS Integers, Sequences, FiniteSets

CONSTANTS
  Jobs,          (* enhancement requests, each with the Job it creates      *)
  Transfers,     (* HTTP requests of volunteers; a name is used again       *)
  Downloads,     (* those for /audio, the others are multipart /complete    *)
  NoOne,         (* Python's None                                           *)
  MaxInflight,   (* max_inflight_requests                                   *)
  MaxChunks      (* bound on the chunks of one track's progress             *)

ASSUME EnhancementAssumption ==
  /\ IsFiniteSet(Jobs)
  /\ Downloads \subseteq Transfers
  /\ NoOne \notin Jobs \cup Transfers
  /\ Jobs \cap Transfers = {}
  /\ MaxInflight \in Nat \ {0}
  /\ MaxChunks \in Nat \ {0}

VARIABLES
  inflight,      (* Coordinator.inflight                                    *)
  owner,         (* where each owner's coroutine is                         *)
  run,           (* where its run_enhancement task is                       *)
  registered,    (* the jobs in Coordinator.jobs                            *)
  lease,         (* none, offered (in waiting), held, late (past the
                    deadline, not yet noticed) or gone                      *)
  result,        (* Job.result: pending, failed (None) or pair              *)
  progress,      (* Job.progress, for as long as the job is registered      *)
  dir,           (* the temporary directory, with the originals, exists     *)
  files,         (* enhanced-0.wav and enhanced-1.wav in it                 *)
  line,          (* Job.io_lock: its holder, then those who wait            *)
  ioTask,        (* Job.io_task                                             *)
  at,            (* where each transfer's handler is                        *)
  target,        (* the job of a transfer                                   *)
  interrupted    (* its task has been cancelled                             *)

ownerVars    == <<inflight, owner, run>>
jobVars      == <<registered, lease, result>>
diskVars     == <<dir, files>>
transferVars == <<line, ioTask, at, target, interrupted>>
vars == <<inflight, owner, run, registered, lease, result, progress, dir,
          files, line, ioTask, at, target, interrupted>>

Tracks == {0, 1}
Phases == <<"loading-model", "enhancing", "encoding">>
Rank(phase) == CHOOSE i \in DOMAIN Phases : Phases[i] = phase

(* EnhancementProgress, with what validate_update says of one report alone. *)
Reports ==
  {p \in [track : Tracks, phase : {Phases[i] : i \in DOMAIN Phases},
          done : 0..MaxChunks, total : 0..MaxChunks] :
     /\ p.done <= p.total
     /\ p.phase = "loading-model" <=> p.total = 0
     /\ p.phase = "encoding" => p.done = p.total}

ASSUME NoOneAssumption == NoOne \notin Reports

OwnerPlaces == {"idle", "reading", "made", "asking", "accepting", "refusing",
                "answering", "cleaning", "done"}
RunPlaces   == {"none", "official", "published", "waiting", "pair", "failed",
                "stopped"}
AtPlaces    == {"idle", "waiting", "sending", "reading", "first", "second",
                "failing", "closing"}

Working == AtPlaces \ {"idle", "waiting"}
Ended   == {"pair", "failed", "stopped"}

TypeOK ==
  /\ inflight \in 0..MaxInflight
  /\ owner \in [Jobs -> OwnerPlaces]
  /\ run \in [Jobs -> RunPlaces]
  /\ registered \subseteq Jobs
  /\ lease \in [Jobs -> {"none", "offered", "held", "late", "gone"}]
  /\ result \in [Jobs -> {"pending", "failed", "pair"}]
  /\ progress \in [Jobs -> Reports \cup {NoOne}]
  /\ dir \in [Jobs -> BOOLEAN]
  /\ files \in [Jobs -> [Tracks -> {"none", "part", "whole"}]]
  /\ line \in [Jobs -> Seq(Transfers \cup Jobs)]
  /\ ioTask \in [Jobs -> Transfers \cup {NoOne}]
  /\ at \in [Transfers -> AtPlaces]
  /\ target \in [Transfers -> Jobs \cup {NoOne}]
  /\ interrupted \in [Transfers -> BOOLEAN]

Init ==
  /\ inflight = 0
  /\ owner = [j \in Jobs |-> "idle"]
  /\ run = [j \in Jobs |-> "none"]
  /\ registered = {}
  /\ lease = [j \in Jobs |-> "none"]
  /\ result = [j \in Jobs |-> "pending"]
  /\ progress = [j \in Jobs |-> NoOne]
  /\ dir = [j \in Jobs |-> FALSE]
  /\ files = [j \in Jobs |-> [i \in Tracks |-> "none"]]
  /\ line = [j \in Jobs |-> <<>>]
  /\ ioTask = [j \in Jobs |-> NoOne]
  /\ at = [t \in Transfers |-> "idle"]
  /\ target = [t \in Transfers |-> NoOne]
  /\ interrupted = [t \in Transfers |-> FALSE]

----------------------------------------------------------------------------
(* release, fail and finish on the lease, and authorized_job.              *)

Revoke(j) == lease' = [lease EXCEPT ![j] = IF @ \in {"held", "late"} THEN "gone" ELSE @]

Fail(j) ==
  /\ Revoke(j)
  /\ result' = [result EXCEPT ![j] = IF @ = "pending" THEN "failed" ELSE @]
  /\ UNCHANGED registered

(* fail, then finish: the job leaves the registry, where its progress was   *)
(* to be seen, and the queue.                                              *)
FailAndFinish(j) ==
  /\ registered' = registered \ {j}
  /\ progress' = [progress EXCEPT ![j] = NoOne]
  /\ lease' = [lease EXCEPT ![j] = "gone"]
  /\ result' = [result EXCEPT ![j] = IF @ = "pending" THEN "failed" ELSE @]

Authorized(j) == j \in registered /\ lease[j] = "held"

(* What authorized_job does before it raises its 404.                      *)
Refused(j) ==
  /\ ~Authorized(j)
  /\ IF j \in registered /\ lease[j] = "late" THEN Fail(j) ELSE UNCHANGED jobVars

----------------------------------------------------------------------------
(* The owner's coroutine: enhance and prepare_response.                    *)

(* cleanup, up to its wait for io_lock.                                    *)
CleanupBegins(j) ==
  /\ owner' = [owner EXCEPT ![j] = "cleaning"]
  /\ line' = [line EXCEPT ![j] = Append(@, j)]
  /\ UNCHANGED <<inflight, run, dir, files, ioTask, at, target>>

RevokeJob(j) == IF j \in registered THEN FailAndFinish(j)
                                    ELSE UNCHANGED <<jobVars, progress>>

InterruptTransfer(j) ==
  interrupted' = [t \in Transfers |-> interrupted[t] \/ t = ioTask[j]]

(* Mutant: a stalled transfer is left alone.                               *)
CleanupWithoutCancel(j) == CleanupBegins(j) /\ RevokeJob(j) /\ UNCHANGED interrupted

Cleanup(j) == CleanupBegins(j) /\ RevokeJob(j) /\ InterruptTransfer(j)

EnterService(j) ==
  /\ owner[j] = "idle"
  /\ inflight' = inflight + 1
  /\ owner' = [owner EXCEPT ![j] = "reading"]
  /\ dir' = [dir EXCEPT ![j] = TRUE]
  /\ UNCHANGED <<run, jobVars, progress, files, transferVars>>

AdmitAnyone(j) == EnterService(j)  (* mutant: no 429 *)

Admit(j) == inflight < MaxInflight /\ EnterService(j)

(* Bad multipart, oversized or invalid audio, a disconnect or the request's *)
(* time limit, before there is a Job: cleanup needs no lock.               *)
UploadFails(j) ==
  /\ owner[j] = "reading"
  /\ owner' = [owner EXCEPT ![j] = "done"]
  /\ dir' = [dir EXCEPT ![j] = FALSE]
  /\ inflight' = inflight - 1
  /\ UNCHANGED <<run, jobVars, progress, files, transferVars>>

OwnerMoves(j, place) ==
  /\ owner' = [owner EXCEPT ![j] = place]
  /\ UNCHANGED <<inflight, run, jobVars, progress, diskVars, transferVars>>

(* The Job exists while the upload's form is closed, an await.             *)
UploadRead(j) == owner[j] = "reading" /\ OwnerMoves(j, "made")

(* The time limit during that await, or the 409 of enqueue: a Job that is  *)
(* not registered.                                                         *)
NotEnqueued(j) == owner[j] = "made" /\ Cleanup(j)

Enqueue(j) ==
  /\ owner[j] = "made"
  /\ owner' = [owner EXCEPT ![j] = "asking"]
  /\ run' = [run EXCEPT ![j] = "official"]
  /\ registered' = registered \cup {j}
  /\ UNCHANGED <<inflight, lease, result, progress, diskVars, transferVars>>

(* asyncio.wait returns: the task has ended.                               *)
RunNoticed(j) ==
  /\ owner[j] = "asking"
  /\ \/ run[j] = "pair" /\ OwnerMoves(j, "accepting")
     \/ run[j] = "failed" /\ OwnerMoves(j, "refusing")

(* The owner disconnects (499) or the time limit strikes (503), also while *)
(* the tasks are being gathered.                                           *)
Abandon(j) == owner[j] \in {"asking", "accepting"} /\ OwnerMoves(j, "refusing")

RunMoves(j, place) ==
  /\ run' = [run EXCEPT ![j] = place]
  /\ UNCHANGED <<inflight, owner, jobVars, progress, diskVars, transferVars>>

(* waiting.cancel() reaches the task, wherever it is.                      *)
RunLeftAlone(j) ==  (* mutant: gather without cancel *)
  owner[j] = "refusing" /\ run[j] \notin Ended /\ RunMoves(j, run[j])

RunStops(j) ==
  owner[j] = "refusing" /\ run[j] \notin Ended /\ RunMoves(j, "stopped")

RefuseAtOnce(j) == owner[j] = "refusing" /\ Cleanup(j)  (* mutant: no gather *)

Refuse(j) == owner[j] = "refusing" /\ run[j] \in Ended /\ Cleanup(j)

Respond(j) == owner[j] = "accepting" /\ OwnerMoves(j, "answering")

(* The stream ends, sent or cut short.                                     *)
ResponseEnds(j) == owner[j] = "answering" /\ Cleanup(j)

(* An asyncio.Lock is granted in the order of the calls.                   *)
Granted(j, x) == line[j] # <<>> /\ Head(line[j]) = x

(* cleanup behind its wait for io_lock.                                    *)
RemoveDirectory(j) ==
  /\ owner[j] = "cleaning" /\ Granted(j, j)
  /\ owner' = [owner EXCEPT ![j] = "done"]
  /\ dir' = [dir EXCEPT ![j] = FALSE]
  /\ files' = [files EXCEPT ![j] = [i \in Tracks |-> "none"]]
  /\ line' = [line EXCEPT ![j] = Tail(@)]
  /\ UNCHANGED <<run, jobVars, progress, ioTask, at, target, interrupted>>

(* Mutant: the slot is not given back.                                     *)
CleanupForgetsSlot(j) == RemoveDirectory(j) /\ UNCHANGED inflight

CleanupEnds(j) == RemoveDirectory(j) /\ inflight' = inflight - 1

----------------------------------------------------------------------------
(* The run_enhancement task.  It acts while its owner waits for it: once   *)
(* cancelled, the next thing it sees is the cancellation.                  *)

Runs(j, place) == owner[j] = "asking" /\ run[j] = place

(* A validated answer: its files replace what is there, output_paths point *)
(* to them; the form and the response are still to be closed, both awaits. *)
Publish(j, tracks) ==
  /\ files' = [files EXCEPT ![j] = [i \in Tracks |-> IF i \in tracks THEN "whole" ELSE @[i]]]
  /\ run' = [run EXCEPT ![j] = "published"]
  /\ UNCHANGED <<inflight, owner, jobVars, progress, dir, transferVars>>

(* Mutant: the second file is left behind.                                 *)
OfficialPublishesOne(j) == Runs(j, "official") /\ Publish(j, {0})

OfficialPublishes(j) == Runs(j, "official") /\ Publish(j, Tracks)

OfficialReturns(j) == Runs(j, "published") /\ RunMoves(j, "pair")

(* The attempt's time limit or a transport error during those awaits: the  *)
(* loop continues with the next backend.                                   *)
OfficialCut(j) == Runs(j, "published") /\ RunMoves(j, "official")

(* Every backend has failed: queue_for_swarm.                              *)
Offer(j) ==
  /\ Runs(j, "official")
  /\ run' = [run EXCEPT ![j] = "waiting"]
  /\ lease' = [lease EXCEPT ![j] = "offered"]
  /\ UNCHANGED <<inflight, owner, registered, result, progress, diskVars, transferVars>>

(* A backend rejects the request (4xx), or wait_for_enhancement times out: *)
(* its limits are the queue's, the lease's and the owner's.                *)
RunFails(j) ==
  (Runs(j, "official") \/ Runs(j, "waiting")) /\ RunMoves(j, "failed")

(* wait_for_enhancement has the result of the volunteer.                   *)
ResultTaken(j) ==
  Runs(j, "waiting") /\ result[j] # "pending" /\ RunMoves(j, result[j])

----------------------------------------------------------------------------
(* The lease.                                                              *)

LeaseStep == UNCHANGED <<ownerVars, progress, diskVars, transferVars>>

Lease(j) ==
  /\ j \in registered /\ lease[j] = "offered" /\ result[j] = "pending"
  /\ lease' = [lease EXCEPT ![j] = "held"]
  /\ UNCHANGED <<registered, result>>
  /\ LeaseStep

(* Time: lease_deadline passes, nobody has noticed.                        *)
DeadlinePasses(j) ==
  /\ lease[j] = "held"
  /\ lease' = [lease EXCEPT ![j] = "late"]
  /\ UNCHANGED <<registered, result>>
  /\ LeaseStep

(* authorized_job, called by any handler, finds the lease expired.         *)
ExpiryFound(j) ==
  j \in registered /\ lease[j] = "late" /\ Fail(j) /\ LeaseStep

(* JSON on /complete, whatever it says, ends an enhancement job; it does   *)
(* not wait for io_lock.                                                   *)
WorkerGivesUp(j) == Authorized(j) /\ Fail(j) /\ LeaseStep

(* validate_update, of a report against the one before.                    *)
Follows(p, q) ==
  IF q = NoOne THEN p.track = 0
  ELSE \/ p.track > q.track /\ q.phase = "encoding"
       \/ /\ p.track = q.track
          /\ p.done >= q.done
          /\ q.total # 0 => p.total = q.total
          /\ Rank(p.phase) >= Rank(q.phase)

ReportProgress(j) ==
  /\ Authorized(j)
  /\ \E p \in Reports : Follows(p, progress[j]) /\ progress' = [progress EXCEPT ![j] = p]
  /\ UNCHANGED <<ownerVars, jobVars, diskVars, transferVars>>

----------------------------------------------------------------------------
(* Transfers.  Between its awaits a handler is at one of these places:     *)
(*   waiting           for io_lock                                         *)
(*   sending           EnhancementAudioResponse streams an original        *)
(*   reading           complete reads the multipart body                   *)
(*   first, second     copy_enhancement_audio into the file of that track  *)
(*   failing, closing  form.close(), before fail or before the end         *)

(* job_audio, or complete up to io_lock.                                   *)
Arrive(t, j) ==
  /\ at[t] = "idle"
  /\ Authorized(j)
  /\ at' = [at EXCEPT ![t] = "waiting"]
  /\ target' = [target EXCEPT ![t] = j]
  /\ line' = [line EXCEPT ![j] = Append(@, t)]
  /\ UNCHANGED <<ownerVars, jobVars, progress, diskVars, ioTask, interrupted>>

Holds(t) == Granted(target[t], t)

(* The lock is granted: authorized_job once more, then io_task.            *)
Begin(t) ==
  /\ ioTask' = [ioTask EXCEPT ![target[t]] = t]
  /\ at' = [at EXCEPT ![t] = IF t \in Downloads THEN "sending" ELSE "reading"]
  /\ UNCHANGED <<ownerVars, jobVars, progress, diskVars, line, target, interrupted>>

Start(t) ==
  at[t] = "waiting" /\ Holds(t) /\ Authorized(target[t]) /\ Begin(t)

(* The handler ends: io_task is cleared and io_lock released.              *)
Leave(t) ==
  /\ at' = [at EXCEPT ![t] = "idle"]
  /\ target' = [target EXCEPT ![t] = NoOne]
  /\ interrupted' = [interrupted EXCEPT ![t] = FALSE]
  /\ ioTask' = [ioTask EXCEPT ![target[t]] = NoOne]
  /\ line' = [line EXCEPT ![target[t]] = Tail(@)]

Elsewhere == UNCHANGED <<ownerVars, progress, diskVars>>

TurnedAway(t) ==
  at[t] = "waiting" /\ Holds(t) /\ Refused(target[t]) /\ Leave(t) /\ Elsewhere

Goes(t, place) == at[t] = place /\ ~interrupted[t]

MoveTo(t, place) ==
  /\ at' = [at EXCEPT ![t] = place]
  /\ UNCHANGED <<line, ioTask, target, interrupted>>

(* Sent, or the volunteer's connection is lost.                            *)
DownloadEnds(t) == Goes(t, "sending") /\ Leave(t) /\ UNCHANGED jobVars /\ Elsewhere

(* An unreadable body: nothing to close, fail at once.                     *)
BodyFails(t) == Goes(t, "reading") /\ Fail(target[t]) /\ Leave(t) /\ Elsewhere

(* 401, 403 or 404 from worker_job: the form is closed, nothing fails but  *)
(* an expired lease.                                                       *)
WorkerUnknown(t) ==
  /\ Goes(t, "reading")
  /\ \/ Authorized(target[t]) /\ UNCHANGED jobVars
     \/ Refused(target[t])
  /\ MoveTo(t, "closing")
  /\ Elsewhere

(* Fields or metadata that do not match the request.                       *)
MetadataFails(t) ==
  Goes(t, "reading") /\ MoveTo(t, "failing") /\ UNCHANGED jobVars /\ Elsewhere

(* copy_enhancement_audio creates its file with mode "xb".                 *)
Exists(t, i) == files[target[t]][i] # "none"
Write(t, i, how) == files' = [files EXCEPT ![target[t]][i] = how]

CopyFirst(t) ==
  /\ Goes(t, "reading") /\ Authorized(target[t])
  /\ IF Exists(t, 0) THEN MoveTo(t, "failing") /\ UNCHANGED files
                     ELSE MoveTo(t, "first") /\ Write(t, 0, "part")
  /\ UNCHANGED <<ownerVars, jobVars, progress, dir>>

CopySecond(t) ==
  /\ Goes(t, "first")
  /\ IF Exists(t, 1)
       THEN MoveTo(t, "failing") /\ Write(t, 0, "whole")
       ELSE /\ MoveTo(t, "second")
            /\ files' = [files EXCEPT ![target[t]] = [i \in Tracks |->
                           IF i = 0 THEN "whole" ELSE "part"]]
  /\ UNCHANGED <<ownerVars, jobVars, progress, dir>>

(* 413 or 422: too long, wrong digest, not the WAV that was promised.      *)
CopyAborts(t, place) ==
  /\ Goes(t, "first") \/ Goes(t, "second")
  /\ MoveTo(t, place) /\ UNCHANGED jobVars /\ Elsewhere

CopyFailsSoftly(t) == CopyAborts(t, "closing")  (* mutant: the lease survives *)

CopyFails(t) == CopyAborts(t, "failing")

(* Both copied: worker_job once more, then release and set_result.         *)
Copied(t) ==
  /\ Goes(t, "second")
  /\ Write(t, 1, "whole")
  /\ MoveTo(t, "closing")
  /\ UNCHANGED <<ownerVars, progress, dir>>

GivePair(j) ==
  /\ Revoke(j)
  /\ result' = [result EXCEPT ![j] = "pair"]
  /\ UNCHANGED registered

AcceptLate(t) == Copied(t) /\ GivePair(target[t])  (* mutant: no second check *)

Accept(t) ==
  /\ Copied(t)
  /\ \/ Authorized(target[t]) /\ GivePair(target[t])
     \/ Refused(target[t])

Fails(t) == Goes(t, "failing") /\ Fail(target[t]) /\ Leave(t) /\ Elsewhere

Closes(t) == Goes(t, "closing") /\ Leave(t) /\ UNCHANGED jobVars /\ Elsewhere

(* CancelledError, wherever the handler was waiting.                       *)
CancelLands(t) ==
  /\ interrupted[t]
  /\ IF t \in Downloads THEN UNCHANGED jobVars ELSE Fail(target[t])
  /\ Leave(t) /\ Elsewhere

----------------------------------------------------------------------------

OwnerNext(j) ==
  \/ Admit(j) \/ UploadFails(j) \/ UploadRead(j) \/ NotEnqueued(j)
  \/ Enqueue(j) \/ RunNoticed(j) \/ Abandon(j) \/ RunStops(j) \/ Refuse(j)
  \/ Respond(j) \/ ResponseEnds(j) \/ CleanupEnds(j)

RunNext(j) ==
  \/ OfficialPublishes(j) \/ OfficialReturns(j) \/ OfficialCut(j)
  \/ Offer(j) \/ RunFails(j) \/ ResultTaken(j)

LeaseNext(j) ==
  \/ Lease(j) \/ DeadlinePasses(j) \/ ExpiryFound(j) \/ WorkerGivesUp(j)
  \/ ReportProgress(j)

TransferNext(t) ==
  \/ \E j \in Jobs : Arrive(t, j)
  \/ Start(t) \/ TurnedAway(t) \/ CancelLands(t)
  \/ DownloadEnds(t) /\ t \in Downloads
  \/ /\ t \notin Downloads
     /\ \/ BodyFails(t) \/ WorkerUnknown(t) \/ MetadataFails(t)
        \/ CopyFirst(t) \/ CopySecond(t) \/ CopyFails(t) \/ Accept(t)
        \/ Fails(t) \/ Closes(t)

Next ==
  \/ \E j \in Jobs : OwnerNext(j) \/ RunNext(j) \/ LeaseNext(j)
  \/ \E t \in Transfers : TransferNext(t)

Spec == Init /\ [][Next]_vars

(* Fairness.  The request's time limit cuts a slow upload, a slow backend  *)
(* and a slow volunteer (asyncio.wait_for around prepare_response); the    *)
(* event loop resumes what can go on, grants a free lock and delivers a    *)
(* cancellation.  Nothing is assumed of volunteers, or of how fast an      *)
(* owner reads its answer.                                                 *)
OwnerFairness(j) ==
  /\ WF_vars(UploadRead(j) \/ UploadFails(j))
  /\ WF_vars(Enqueue(j) \/ NotEnqueued(j))
  /\ WF_vars(RunNoticed(j) \/ Abandon(j))
  /\ WF_vars(Respond(j) \/ Abandon(j))
  /\ WF_vars(RunStops(j) \/ Refuse(j))
  /\ WF_vars(CleanupEnds(j))

FairSpec ==
  /\ Spec
  /\ \A j \in Jobs : OwnerFairness(j)
  /\ \A t \in Transfers : WF_vars(Start(t) \/ TurnedAway(t) \/ CancelLands(t))

----------------------------------------------------------------------------
(* Properties.                                                             *)

(* The temporary directory outlives everyone who uses it: a transfer that  *)
(* streams an original or writes a result, the official attempt that       *)
(* uploads the originals, the response that streams the enhanced pair.     *)
AudioOutlivesUse ==
  /\ \A t \in Transfers : at[t] \in Working => dir[target[t]]
  /\ \A j \in Jobs : run[j] \in {"official", "published"} => dir[j]
  /\ \A j \in Jobs : owner[j] = "answering" => dir[j]

(* complete calls job.result.set_result without asking done() first: a     *)
(* result, once there, is never set again, which Python would refuse.      *)
ResultOnce ==
  [][\A j \in Jobs : result[j] # "pending" => result'[j] = result[j]]_vars

(* The transfer at work is the one that holds io_lock and that io_task     *)
(* names, so cancelling io_task is cancelling whoever is in the way.       *)
IoTaskHolds ==
  \A t \in Transfers :
    at[t] \in Working => ioTask[target[t]] = t /\ Holds(t)

(* Once cleanup waits for io_lock, the holder has been cancelled, which is  *)
(* the transfer io_task names, and nobody ahead of cleanup can start any   *)
(* more: a stalled volunteer cannot keep the owner's slot or the audio.    *)
CleanupUnblocked ==
  /\ IoTaskHolds
  /\ \A j \in Jobs : owner[j] = "cleaning" =>
       /\ ~Authorized(j)
       /\ \A t \in Transfers : at[t] \in Working /\ target[t] = j => interrupted[t]

(* The owner is answered 200 only with both tracks completely written,     *)
(* whoever wrote them.                                                     *)
AnswerIsWhole ==
  \A j \in Jobs : owner[j] \in {"accepting", "answering"} =>
    files[j] = [i \in Tracks |-> "whole"]

(* A retry under the same lease never meets a half-written file: an upload *)
(* that fails once it has begun to write takes the lease with it.          *)
HalfWrittenEndsLease ==
  \A j \in Jobs :
    Authorized(j) /\ (\E i \in Tracks : files[j][i] = "part") =>
      \E t \in Transfers : target[t] = j /\ at[t] \in {"first", "second", "failing"}

(* A half-written track is neither answered with nor left for a retry.      *)
NoHalfTracks == AnswerIsWhole /\ HalfWrittenEndsLease

(* inflight counts the requests between admission and the end of cleanup:  *)
(* no slot is lost or given back twice.                                    *)
Open(place) == place \notin {"idle", "done"}
SlotsExact == inflight = Cardinality({j \in Jobs : Open(owner[j])})

(* What /v1/queue shows of a volunteer's work never goes back: tracks in   *)
(* order, phases in order, chunks upward, and a track's chunk count once   *)
(* given stays.                                                            *)
Advances(p, q) ==
  \/ q.track > p.track /\ p.phase = "encoding"
  \/ /\ q.track = p.track
     /\ q.done >= p.done
     /\ Rank(q.phase) >= Rank(p.phase)
     /\ p.total \in {0, q.total}

ProgressAdvances ==
  [][\A j \in registered \cap registered' : progress[j] # NoOne =>
        progress'[j] = progress[j] \/ Advances(progress[j], progress'[j])]_vars

(* Every upload is answered or refused, and a request being cleaned up     *)
(* gives its slot back, whatever its volunteer does.                       *)
SlotReturned ==
  \A j \in Jobs : Open(owner[j]) ~> owner[j] \in {"answering", "done"}

(* README: transport failures and invalid results of an official service  *)
(* "allow fallback".  A volunteer's upload under a live lease finds        *)
(* nothing in its way that a failed official attempt has left behind.      *)
FallbackStaysOpen ==
  \A t \in Transfers :
    at[t] = "reading" /\ Authorized(target[t]) => \A i \in Tracks : ~Exists(t, i)

=============================================================================
