------------------------ MODULE Enhancement_proofs -------------------------
(***************************************************************************)
(* The files of an enhancement request, its slot, its result and its lock, *)
(* for any number of owners and transfers.  The invariant says which       *)
(* places of the owner, of its task and of the lease go together           *)
(* (OwnerShape, LeaseShape), that the transfer at work is the one with the *)
(* lock and with io_task (TransferShape), and what the files are worth     *)
(* (FileShape).                                                            *)
(***************************************************************************)
EXTENDS Enhancement, FiniteSetTheorems, SequenceTheorems, TLAPS

Enqueued == {"asking", "accepting", "refusing", "answering"}

OwnerShape == \A j \in Jobs :
  /\ j \in registered <=> owner[j] \in Enqueued
  /\ dir[j] <=> Open(owner[j])
  /\ owner[j] \in {"idle", "reading", "made"} => run[j] = "none"
  /\ owner[j] \in {"accepting", "answering"} => run[j] = "pair"
  /\ owner[j] \in {"cleaning", "done"} => run[j] \in Ended \cup {"none"}

LeaseShape == \A j \in Jobs :
  /\ lease[j] \in {"held", "late"} => j \in registered /\ result[j] = "pending"
  /\ owner[j] \in {"idle", "reading", "made"} => lease[j] = "none" /\ result[j] = "pending"
  /\ run[j] \in {"official", "published"} => lease[j] = "none"
  /\ run[j] = "pair" /\ j \in registered => result[j] = "pair" \/ lease[j] = "none"

TransferShape ==
  /\ \A t \in Transfers :
       /\ at[t] # "idle" => target[t] \in Jobs
       /\ at[t] \in Working =>
            /\ Holds(t)
            /\ ioTask[target[t]] = t
            /\ owner[target[t]] \in Enqueued \cup {"cleaning"}
            /\ lease[target[t]] \notin {"none", "offered"}
            /\ owner[target[t]] = "cleaning" => interrupted[t]
       /\ interrupted[t] => at[t] \in Working /\ owner[target[t]] = "cleaning"
  /\ \A j \in Jobs : ioTask[j] # NoOne =>
       at[ioTask[j]] \in Working /\ target[ioTask[j]] = j

FileShape ==
  /\ \A t \in Transfers :
       /\ at[t] \in {"reading", "first", "second"} => result[target[t]] # "pair"
       /\ at[t] = "second" => files[target[t]][0] = "whole"
  /\ \A j \in Jobs :
       /\ j \in registered /\ (run[j] \in {"published", "pair"} \/ result[j] = "pair")
            => files[j] = [i \in Tracks |-> "whole"]
       /\ lease[j] \in {"none", "offered"} => \A i \in Tracks : files[j][i] # "part"

IInv ==
  /\ TypeOK
  /\ OwnerShape
  /\ LeaseShape
  /\ TransferShape
  /\ FileShape
  /\ HalfWrittenEndsLease
  /\ SlotsExact

----------------------------------------------------------------------------
(* Facts about the lock and the slots.                                     *)

Queued == Transfers \cup Jobs

LEMMA AppendGranted ==
  ASSUME line \in [Jobs -> Seq(Queued)], NEW j \in Jobs, NEW x \in Queued,
         line' = [line EXCEPT ![j] = Append(@, x)]
  PROVE  /\ line' \in [Jobs -> Seq(Queued)]
         /\ \A k \in Jobs : \A y \in Queued : Granted(k, y) => Granted(k, y)'
<1>1. /\ line[j] \in Seq(Queued) /\ Append(line[j], x) \in Seq(Queued)
      /\ Append(line[j], x) # <<>>
      /\ line[j] # <<>> => Head(Append(line[j], x)) = Head(line[j])
  OBVIOUS
<1> HIDE DEF Queued
<1>2. \A k \in Jobs : line'[k] = IF k = j THEN Append(line[j], x) ELSE line[k]
  OBVIOUS
<1> QED  BY <1>1, <1>2 DEF Granted

LEMMA TailGranted ==
  ASSUME line \in [Jobs -> Seq(Queued)], NEW j \in Jobs, line[j] # <<>>,
         line' = [line EXCEPT ![j] = Tail(@)]
  PROVE  /\ line' \in [Jobs -> Seq(Queued)]
         /\ \A k \in Jobs \ {j} : \A y \in Queued : Granted(k, y) => Granted(k, y)'
<1>1. line[j] \in Seq(Queued) /\ Tail(line[j]) \in Seq(Queued)
  OBVIOUS
<1> HIDE DEF Queued
<1>2. \A k \in Jobs : line'[k] = IF k = j THEN Tail(line[j]) ELSE line[k]
  OBVIOUS
<1> QED  BY <1>1, <1>2 DEF Granted

OpenJobs == {j \in Jobs : Open(owner[j])}

LEMMA SlotCount ==
  ASSUME TypeOK, SlotsExact, NEW j \in Jobs, NEW place \in OwnerPlaces,
         owner' = [owner EXCEPT ![j] = place],
         inflight' = IF Open(place)
                       THEN IF Open(owner[j]) THEN inflight ELSE inflight + 1
                       ELSE IF Open(owner[j]) THEN inflight - 1 ELSE inflight
  PROVE  SlotsExact' /\ inflight' \in Nat
<1>1. IsFiniteSet(OpenJobs) /\ inflight = Cardinality(OpenJobs)
  BY EnhancementAssumption, FS_Subset DEF OpenJobs, SlotsExact
<1>2. OpenJobs' = IF Open(place) THEN OpenJobs \cup {j} ELSE OpenJobs \ {j}
  BY DEF OpenJobs, TypeOK
<1>3. j \in OpenJobs <=> Open(owner[j])
  BY DEF OpenJobs
<1>4. /\ Cardinality(OpenJobs) \in Nat
      /\ Cardinality(OpenJobs \cup {j}) =
           IF j \in OpenJobs THEN Cardinality(OpenJobs) ELSE Cardinality(OpenJobs) + 1
      /\ Cardinality(OpenJobs \ {j}) =
           IF j \in OpenJobs THEN Cardinality(OpenJobs) - 1 ELSE Cardinality(OpenJobs)
  BY <1>1, FS_AddElement, FS_RemoveElement, FS_CardinalityType
<1>5. inflight' = Cardinality(OpenJobs') /\ IsFiniteSet(OpenJobs')
  <2>1. IsFiniteSet(OpenJobs')
    BY <1>1, <1>2, FS_AddElement, FS_RemoveElement
  <2>2. CASE Open(place)
    <3>1. OpenJobs' = OpenJobs \cup {j}
      BY <2>2, <1>2
    <3>2. inflight' = IF j \in OpenJobs THEN inflight ELSE inflight + 1
      BY <2>2, <1>3
    <3> QED  BY <3>1, <3>2, <2>1, <1>1, <1>4
  <2>3. CASE ~Open(place)
    <3>1. OpenJobs' = OpenJobs \ {j}
      BY <2>3, <1>2
    <3>2. inflight' = IF j \in OpenJobs THEN inflight - 1 ELSE inflight
      BY <2>3, <1>3
    <3> QED  BY <3>1, <3>2, <2>1, <1>1, <1>4
  <2> QED  BY <2>1, <2>2, <2>3
<1> QED  BY <1>5, FS_CardinalityType DEF OpenJobs, SlotsExact

(* The places of owners that move from one open place to another.          *)
LEMMA SlotsKept ==
  ASSUME TypeOK, SlotsExact, UNCHANGED inflight,
         \A k \in Jobs : Open(owner'[k]) <=> Open(owner[k])
  PROVE  SlotsExact'
<1>1. {j \in Jobs : Open(owner'[j])} = {j \in Jobs : Open(owner[j])}
  OBVIOUS
<1> QED  BY <1>1 DEF SlotsExact

----------------------------------------------------------------------------
(* Steps that move only an owner, or only its task.                        *)

LEMMA InitHolds == Init => IInv
<1> SUFFICES ASSUME Init PROVE IInv
  OBVIOUS
<1>1. TypeOK
  <2>1. <<>> \in Seq(Transfers \cup Jobs)
    OBVIOUS
  <2> QED  BY <2>1, EnhancementAssumption
           DEF Init, TypeOK, OwnerPlaces, RunPlaces, AtPlaces
<1>2. OwnerShape /\ LeaseShape /\ TransferShape
  BY DEF Init, OwnerShape, LeaseShape, TransferShape, Enqueued, Open, Working
<1>3. FileShape /\ HalfWrittenEndsLease
  BY DEF Init, FileShape, HalfWrittenEndsLease, Authorized
<1>4. SlotsExact
  <2>1. {j \in Jobs : Open(owner[j])} = {}
    BY DEF Init, Open
  <2> QED  BY <2>1, FS_EmptySet DEF Init, SlotsExact
<1> QED  BY <1>1, <1>2, <1>3, <1>4 DEF IInv

OwnerMove(j) == UploadRead(j) \/ RunNoticed(j) \/ Abandon(j) \/ Respond(j)

LEMMA OwnerMoveKeeps ==
  ASSUME IInv, NEW j \in Jobs, OwnerMove(j)
  PROVE  IInv'
<1>0. PICK p : /\ OwnerMoves(j, p) /\ p \in OwnerPlaces
               /\ \/ owner[j] = "reading" /\ p = "made"
                  \/ owner[j] = "asking" /\ run[j] = "pair" /\ p = "accepting"
                  \/ owner[j] \in {"asking", "accepting"} /\ p = "refusing"
                  \/ owner[j] = "accepting" /\ p = "answering"
  BY DEF OwnerMove, UploadRead, RunNoticed, Abandon, Respond, OwnerPlaces
<1>1. TypeOK'
  BY <1>0 DEF OwnerMoves, IInv, TypeOK, jobVars, diskVars, transferVars
<1>2. OwnerShape'
  BY <1>0 DEF OwnerMoves, IInv, OwnerShape, TypeOK, Enqueued, Open, Ended,
              jobVars, diskVars, transferVars
<1>3. LeaseShape'
  BY <1>0 DEF OwnerMoves, IInv, LeaseShape, OwnerShape, TypeOK, jobVars, diskVars, transferVars
<1>4. TransferShape'
  <2>1. \A k \in Jobs : /\ owner[k] \in Enqueued => owner'[k] \in Enqueued
                        /\ owner'[k] = "cleaning" <=> owner[k] = "cleaning"
    BY <1>0 DEF OwnerMoves, IInv, TypeOK, Enqueued
  <2>2. UNCHANGED <<line, ioTask, at, target, interrupted, lease>>
    BY <1>0 DEF OwnerMoves, jobVars, transferVars
  <2>3. at \in [Transfers -> AtPlaces] /\ "idle" \notin Working
    BY DEF IInv, TypeOK, Working
  <2> QED  BY <2>1, <2>2, <2>3 DEF IInv, TransferShape, Holds, Granted
<1>5. FileShape' /\ HalfWrittenEndsLease'
  BY <1>0 DEF OwnerMoves, IInv, FileShape, HalfWrittenEndsLease, Authorized,
              jobVars, diskVars, transferVars
<1>6. SlotsExact'
  <2>1. \A k \in Jobs : Open(owner'[k]) <=> Open(owner[k])
    BY <1>0 DEF OwnerMoves, IInv, TypeOK, Open
  <2> QED  BY <2>1, <1>0, SlotsKept DEF OwnerMoves, IInv
<1> QED  BY <1>1, <1>2, <1>3, <1>4, <1>5, <1>6 DEF IInv

RunMove(j) ==
  OfficialReturns(j) \/ OfficialCut(j) \/ RunFails(j) \/ ResultTaken(j) \/ RunStops(j)

LEMMA RunMoveKeeps ==
  ASSUME IInv, NEW j \in Jobs, RunMove(j)
  PROVE  IInv'
<1>0. PICK p : /\ RunMoves(j, p) /\ p \in RunPlaces
               /\ owner[j] \in {"asking", "refusing"}
               /\ \/ run[j] = "published" /\ p \in {"pair", "official"}
                  \/ p = "pair" /\ run[j] = "waiting" /\ result[j] = "pair"
                  \/ p \in {"failed", "stopped"}
  <2>1. result[j] \in {"pending", "failed", "pair"}
    BY DEF IInv, TypeOK
  <2> QED  BY <2>1 DEF RunMove, OfficialReturns, OfficialCut, RunFails, ResultTaken,
                       RunStops, Runs, RunPlaces
<1>1. TypeOK'
  BY <1>0 DEF RunMoves, IInv, TypeOK, jobVars, diskVars, transferVars
<1>2. OwnerShape'
  BY <1>0 DEF RunMoves, IInv, OwnerShape, TypeOK, jobVars, diskVars, transferVars
<1>3. LeaseShape'
  BY <1>0 DEF RunMoves, IInv, LeaseShape, OwnerShape, TypeOK, jobVars, diskVars, transferVars
<1>4. TransferShape'
  BY <1>0 DEF RunMoves, IInv, TransferShape, Holds, Granted, jobVars, transferVars
<1>5. FileShape' /\ HalfWrittenEndsLease'
  <2>1. run \in [Jobs -> RunPlaces] /\ UNCHANGED <<registered, lease, result, files, at, target>>
    BY <1>0 DEF RunMoves, IInv, TypeOK, jobVars, diskVars, transferVars
  <2>2. FileShape'
    BY <1>0, <2>1 DEF RunMoves, IInv, FileShape
  <2> QED  BY <2>1, <2>2 DEF IInv, HalfWrittenEndsLease, Authorized
<1>6. SlotsExact'
  BY <1>0 DEF RunMoves, IInv, SlotsExact
<1> QED  BY <1>1, <1>2, <1>3, <1>4, <1>5, <1>6 DEF IInv

----------------------------------------------------------------------------
(* Steps that register, publish or offer a job.                            *)

LEMMA EnqueueKeeps ==
  ASSUME IInv, NEW j \in Jobs, Enqueue(j)
  PROVE  IInv'
<1>0. /\ owner[j] = "made" /\ owner' = [owner EXCEPT ![j] = "asking"]
      /\ run' = [run EXCEPT ![j] = "official"] /\ registered' = registered \cup {j}
      /\ UNCHANGED <<inflight, lease, result, progress, dir, files, line, ioTask,
                     at, target, interrupted>>
  BY DEF Enqueue, diskVars, transferVars
<1>1. TypeOK'
  BY <1>0 DEF IInv, TypeOK, OwnerPlaces, RunPlaces
<1>2. OwnerShape'
  BY <1>0 DEF IInv, OwnerShape, TypeOK, Enqueued, Open
<1>3. lease[j] = "none" /\ j \notin registered
  BY <1>0 DEF IInv, OwnerShape, LeaseShape, Enqueued
<1>4. LeaseShape'
  BY <1>0, <1>3 DEF IInv, LeaseShape, TypeOK
<1>5. TransferShape'
  <2>1. \A k \in Jobs : /\ owner[k] \in Enqueued => owner'[k] \in Enqueued
                        /\ owner'[k] = "cleaning" <=> owner[k] = "cleaning"
    BY <1>0 DEF IInv, TypeOK, Enqueued
  <2>2. at \in [Transfers -> AtPlaces] /\ "idle" \notin Working
    BY DEF IInv, TypeOK, Working
  <2> QED  BY <1>0, <2>1, <2>2 DEF IInv, TransferShape, Holds, Granted
<1>6. FileShape'
  <2>1. result[j] # "pair"
    BY <1>0 DEF IInv, LeaseShape
  <2> QED  BY <1>0, <1>3, <2>1 DEF IInv, FileShape, TypeOK
<1>7. HalfWrittenEndsLease'
  BY <1>0, <1>3 DEF IInv, HalfWrittenEndsLease, Authorized
<1>8. SlotsExact'
  <2>1. \A k \in Jobs : Open(owner'[k]) <=> Open(owner[k])
    BY <1>0 DEF IInv, TypeOK, Open
  <2> QED  BY <1>0, <2>1, SlotsKept DEF IInv
<1> QED  BY <1>1, <1>2, <1>4, <1>5, <1>6, <1>7, <1>8 DEF IInv

LEMMA OfferKeeps ==
  ASSUME IInv, NEW j \in Jobs, Offer(j)
  PROVE  IInv'
<1>0. /\ owner[j] = "asking" /\ run[j] = "official" /\ run' = [run EXCEPT ![j] = "waiting"]
      /\ lease' = [lease EXCEPT ![j] = "offered"]
      /\ UNCHANGED <<inflight, owner, registered, result, progress, dir, files, line,
                     ioTask, at, target, interrupted>>
  BY DEF Offer, Runs, diskVars, transferVars
<1>1. TypeOK'
  BY <1>0 DEF IInv, TypeOK, RunPlaces
<1>2. OwnerShape'
  BY <1>0 DEF IInv, OwnerShape, TypeOK
<1>3. lease[j] = "none"
  BY <1>0 DEF IInv, LeaseShape
<1>4. LeaseShape'
  BY <1>0, <1>3 DEF IInv, LeaseShape, TypeOK
<1>5. TransferShape'
  <2>1. \A t \in Transfers : at[t] \in Working => target[t] # j
    BY <1>3 DEF IInv, TransferShape
  <2>2. \A t \in Transfers : at[t] \in Working => target[t] \in Jobs
    BY DEF IInv, TransferShape, Working
  <2>3. \A t \in Transfers : at[t] \in Working => lease'[target[t]] = lease[target[t]]
    BY <1>0, <2>1, <2>2 DEF IInv, TypeOK
  <2> QED  BY <1>0, <2>3 DEF IInv, TransferShape, Holds, Granted
<1>6. FileShape'
  BY <1>0, <1>3 DEF IInv, FileShape, TypeOK
<1>7. HalfWrittenEndsLease'
  <2>1. \A k \in Jobs : Authorized(k)' => Authorized(k)
    BY <1>0 DEF IInv, TypeOK, Authorized
  <2> QED  BY <1>0, <2>1 DEF IInv, HalfWrittenEndsLease
<1>8. SlotsExact'
  BY <1>0 DEF IInv, SlotsExact
<1> QED  BY <1>1, <1>2, <1>4, <1>5, <1>6, <1>7, <1>8 DEF IInv

LEMMA PublishKeeps ==
  ASSUME IInv, NEW j \in Jobs, OfficialPublishes(j)
  PROVE  IInv'
<1>0. /\ owner[j] = "asking" /\ run[j] = "official" /\ run' = [run EXCEPT ![j] = "published"]
      /\ files' = [files EXCEPT ![j] = [i \in Tracks |-> "whole"]]
      /\ UNCHANGED <<inflight, owner, registered, lease, result, progress, dir, line,
                     ioTask, at, target, interrupted>>
  <2>1. files \in [Jobs -> [Tracks -> {"none", "part", "whole"}]]
    BY DEF IInv, TypeOK
  <2>2. [i \in Tracks |-> IF i \in Tracks THEN "whole" ELSE files[j][i]]
          = [i \in Tracks |-> "whole"]
    OBVIOUS
  <2> QED  BY <2>1, <2>2 DEF OfficialPublishes, Publish, Runs, jobVars, transferVars
<1>1. TypeOK'
  BY <1>0 DEF IInv, TypeOK, RunPlaces
<1>2. OwnerShape'
  BY <1>0 DEF IInv, OwnerShape, TypeOK
<1>3. lease[j] = "none"
  BY <1>0 DEF IInv, LeaseShape
<1>4. LeaseShape'
  BY <1>0, <1>3 DEF IInv, LeaseShape, TypeOK
<1>5. TransferShape'
  BY <1>0 DEF IInv, TransferShape, Holds, Granted
<1>6. FileShape'
  <2>1. \A k \in Jobs : k # j => files'[k] = files[k] /\ run'[k] = run[k]
    BY <1>0 DEF IInv, TypeOK
  <2>2. files'[j] = [i \in Tracks |-> "whole"]
    BY <1>0 DEF IInv, TypeOK
  <2>3. \A t \in Transfers : at[t] = "second" => target[t] \in Jobs \ {j}
    BY <1>3 DEF IInv, TransferShape, Working, AtPlaces
  <2> QED  BY <1>0, <2>1, <2>2, <2>3 DEF IInv, FileShape
<1>7. HalfWrittenEndsLease'
  <2>1. \A k \in Jobs : k # j => files'[k] = files[k]
    BY <1>0 DEF IInv, TypeOK
  <2>2. ~Authorized(j)'
    BY <1>0, <1>3 DEF Authorized
  <2> QED  BY <1>0, <2>1, <2>2 DEF IInv, HalfWrittenEndsLease, Authorized
<1>8. SlotsExact'
  BY <1>0 DEF IInv, SlotsExact
<1> QED  BY <1>1, <1>2, <1>4, <1>5, <1>6, <1>7, <1>8 DEF IInv

----------------------------------------------------------------------------
(* Steps of the lease.                                                     *)

(* What fail does, job by job.                                             *)
LEMMA FailEffect ==
  ASSUME IInv, NEW j \in Jobs, Fail(j)
  PROVE  /\ registered' = registered
         /\ lease' \in [Jobs -> {"none", "offered", "held", "late", "gone"}]
         /\ result' \in [Jobs -> {"pending", "failed", "pair"}]
         /\ \A k \in Jobs : k # j => lease'[k] = lease[k] /\ result'[k] = result[k]
         /\ lease'[j] = IF lease[j] \in {"held", "late"} THEN "gone" ELSE lease[j]
         /\ result'[j] = IF result[j] = "pending" THEN "failed" ELSE result[j]
BY DEF IInv, TypeOK, Fail, Revoke

LEMMA LeaseMoveKeeps ==
  ASSUME IInv, NEW j \in Jobs, LeaseStep, UNCHANGED registered,
         lease' \in [Jobs -> {"none", "offered", "held", "late", "gone"}],
         result' \in [Jobs -> {"pending", "failed", "pair"}],
         \A k \in Jobs : k # j => lease'[k] = lease[k] /\ result'[k] = result[k],
         \/ /\ j \in registered /\ lease[j] = "offered" /\ lease'[j] = "held"
            /\ result[j] = "pending" /\ result'[j] = "pending"
         \/ lease[j] = "held" /\ lease'[j] = "late" /\ result'[j] = result[j]
         \/ /\ lease[j] \in {"held", "late"} /\ lease'[j] = "gone"
            /\ result'[j] = "failed"
  PROVE  IInv'
<1>0. UNCHANGED <<inflight, owner, run, progress, dir, files, line, ioTask, at,
                  target, interrupted>>
  BY DEF LeaseStep, ownerVars, diskVars, transferVars
<1>1. TypeOK' /\ OwnerShape'
  BY <1>0 DEF IInv, TypeOK, OwnerShape
<1>2. LeaseShape'
  BY <1>0 DEF IInv, LeaseShape
<1>3. TransferShape'
  BY <1>0 DEF IInv, TransferShape, Holds, Granted, Working
<1>4. FileShape'
  <2>1. \A t \in Transfers : at[t] \in {"reading", "first", "second"} => target[t] \in Jobs
    BY DEF IInv, TransferShape
  <2>2. \A k \in Jobs : /\ result'[k] = "pair" => result[k] = "pair"
                        /\ lease'[k] \in {"none", "offered"} => lease[k] \in {"none", "offered"}
    OBVIOUS
  <2> QED  BY <1>0, <2>1, <2>2 DEF IInv, FileShape
<1>5. HalfWrittenEndsLease'
  <2>1. \A k \in Jobs : k # j => (Authorized(k)' <=> Authorized(k))
    BY DEF Authorized
  <2>2. Authorized(j)' => \A i \in Tracks : files[j][i] # "part"
    BY DEF Authorized, IInv, FileShape
  <2> QED  BY <1>0, <2>1, <2>2 DEF IInv, HalfWrittenEndsLease
<1>6. SlotsExact'
  BY <1>0 DEF IInv, SlotsExact
<1> QED  BY <1>1, <1>2, <1>3, <1>4, <1>5, <1>6 DEF IInv

LEMMA ReportKeeps ==
  ASSUME IInv, NEW j \in Jobs, ReportProgress(j)
  PROVE  IInv'
<1>0. /\ UNCHANGED <<inflight, owner, run, registered, lease, result, dir, files, line,
                     ioTask, at, target, interrupted>>
      /\ progress' \in [Jobs -> Reports \cup {NoOne}]
  BY DEF ReportProgress, IInv, TypeOK, ownerVars, jobVars, diskVars, transferVars
<1>1. TypeOK' /\ OwnerShape' /\ LeaseShape'
  BY <1>0 DEF IInv, TypeOK, OwnerShape, LeaseShape
<1>2. TransferShape'
  BY <1>0 DEF IInv, TransferShape, Holds, Granted
<1>3. FileShape' /\ HalfWrittenEndsLease' /\ SlotsExact'
  BY <1>0 DEF IInv, FileShape, HalfWrittenEndsLease, Authorized, SlotsExact
<1> QED  BY <1>1, <1>2, <1>3 DEF IInv

LEMMA LeaseNextKeeps ==
  ASSUME IInv, NEW j \in Jobs, LeaseNext(j)
  PROVE  IInv'
<1>0. lease \in [Jobs -> {"none", "offered", "held", "late", "gone"}]
      /\ result \in [Jobs -> {"pending", "failed", "pair"}]
  BY DEF IInv, TypeOK
<1>1. CASE Lease(j)
  BY <1>0, <1>1, LeaseMoveKeeps DEF Lease
<1>2. CASE DeadlinePasses(j)
  BY <1>0, <1>2, LeaseMoveKeeps DEF DeadlinePasses
<1>3. CASE ExpiryFound(j) \/ WorkerGivesUp(j)
  <2>1. Fail(j) /\ LeaseStep /\ lease[j] \in {"held", "late"}
    BY <1>3 DEF ExpiryFound, WorkerGivesUp, Authorized
  <2>2. result[j] = "pending"
    BY <2>1 DEF IInv, LeaseShape
  <2> QED  BY <2>1, <2>2, FailEffect, LeaseMoveKeeps
<1>4. CASE ReportProgress(j)
  BY <1>4, ReportKeeps
<1> QED  BY <1>1, <1>2, <1>3, <1>4 DEF LeaseNext

----------------------------------------------------------------------------
(* Admission and cleanup.                                                  *)

(* A transfer at work is not in the way of an owner that holds no job yet,  *)
(* nor of one whose turn it is at io_lock.                                 *)
LEMMA NobodyAtWork ==
  ASSUME IInv, NEW j \in Jobs,
         \/ owner[j] \in {"idle", "reading", "made"}
         \/ Granted(j, j)
  PROVE  \A t \in Transfers : at[t] \in Working => target[t] \in Jobs \ {j}
<1> SUFFICES ASSUME NEW t \in Transfers, at[t] \in Working, target[t] = j
             PROVE  FALSE
  BY DEF IInv, TransferShape, Working
<1>1. Granted(j, t) /\ owner[j] \in Enqueued \cup {"cleaning"}
  BY DEF IInv, TransferShape, Holds
<1>2. t # j
  BY EnhancementAssumption
<1> QED  BY <1>1, <1>2 DEF Granted, Enqueued

LEMMA CleanupKeeps ==
  ASSUME IInv, NEW j \in Jobs, Cleanup(j),
         \/ owner[j] = "made"
         \/ owner[j] \in {"refusing", "answering"} /\ run[j] \in Ended
  PROVE  IInv'
<1>0. /\ owner' = [owner EXCEPT ![j] = "cleaning"]
      /\ line' = [line EXCEPT ![j] = Append(@, j)]
      /\ interrupted' = [t \in Transfers |-> interrupted[t] \/ t = ioTask[j]]
      /\ UNCHANGED <<inflight, run, dir, files, ioTask, at, target>>
  BY DEF Cleanup, CleanupBegins, InterruptTransfer
<1>1. /\ registered' = registered \ {j}
      /\ progress' \in [Jobs -> Reports \cup {NoOne}]
      /\ lease' \in [Jobs -> {"none", "offered", "held", "late", "gone"}]
      /\ result' \in [Jobs -> {"pending", "failed", "pair"}]
      /\ \A k \in Jobs : k # j => lease'[k] = lease[k] /\ result'[k] = result[k]
      /\ lease'[j] = IF j \in registered THEN "gone" ELSE lease[j]
      /\ result'[j] = "pair" => result[j] = "pair"
  <2>1. CASE j \in registered
    BY <2>1 DEF Cleanup, RevokeJob, FailAndFinish, IInv, TypeOK
  <2>2. CASE j \notin registered
    BY <2>2 DEF Cleanup, RevokeJob, jobVars, IInv, TypeOK
  <2> QED  BY <2>1, <2>2
<1>2. lease'[j] \notin {"held", "late"}
  BY <1>1 DEF IInv, LeaseShape
<1>3. /\ line' \in [Jobs -> Seq(Transfers \cup Jobs)]
      /\ \A k \in Jobs : \A t \in Transfers : Granted(k, t) => Granted(k, t)'
  <2>1. line \in [Jobs -> Seq(Queued)] /\ j \in Queued
    BY DEF IInv, TypeOK, Queued
  <2> QED  BY <1>0, <2>1, AppendGranted DEF Queued
<1>4. TypeOK'
  BY <1>0, <1>1, <1>3 DEF IInv, TypeOK, OwnerPlaces
<1>5. OwnerShape'
  BY <1>0, <1>1 DEF IInv, OwnerShape, TypeOK, Enqueued, Open, Ended
<1>6. LeaseShape'
  <2>1. run[j] \notin {"official", "published"}
    BY DEF IInv, OwnerShape, Ended
  <2>2. \A k \in Jobs : k # j => owner'[k] = owner[k]
    BY <1>0 DEF IInv, TypeOK
  <2>3. owner'[j] = "cleaning"
    BY <1>0 DEF IInv, TypeOK
  <2> QED  BY <1>0, <1>1, <1>2, <2>1, <2>2, <2>3 DEF IInv, LeaseShape
<1>7. TransferShape'
  <2>1. \A k \in Jobs : k # j => owner'[k] = owner[k]
    BY <1>0 DEF IInv, TypeOK
  <2>2. owner'[j] = "cleaning" /\ owner[j] # "cleaning"
    BY <1>0 DEF IInv, TypeOK
  <2>3. ASSUME NEW t \in Transfers, at[t] \in Working
        PROVE  /\ Holds(t)' /\ ioTask'[target[t]] = t
               /\ owner'[target[t]] \in Enqueued \cup {"cleaning"}
               /\ lease'[target[t]] \notin {"none", "offered"}
               /\ owner'[target[t]] = "cleaning" => interrupted'[t]
    <3>1. /\ target[t] \in Jobs /\ Granted(target[t], t) /\ ioTask[target[t]] = t
          /\ owner[target[t]] \in Enqueued \cup {"cleaning"}
          /\ lease[target[t]] \notin {"none", "offered"}
          /\ owner[target[t]] = "cleaning" => interrupted[t]
      BY <2>3 DEF IInv, TransferShape, Holds, Working
    <3>2. CASE target[t] = j
      BY <3>1, <3>2, <1>0, <1>1, <1>3, <2>2 DEF Holds
    <3>3. CASE target[t] # j
      BY <3>1, <3>3, <1>0, <1>1, <1>3, <2>1 DEF Holds
    <3> QED  BY <3>2, <3>3
  <2>4. ASSUME NEW t \in Transfers, interrupted'[t]
        PROVE  at[t] \in Working /\ owner'[target[t]] = "cleaning"
    <3>1. CASE interrupted[t]
      <4>1. at[t] \in Working /\ owner[target[t]] = "cleaning" /\ target[t] \in Jobs
        BY <3>1 DEF IInv, TransferShape, Working
      <4> QED  BY <4>1, <2>1, <2>2
    <3>2. CASE t = ioTask[j]
      <4>1. ioTask[j] # NoOne
        BY <3>2, EnhancementAssumption
      <4> QED  BY <4>1, <3>2, <2>2 DEF IInv, TransferShape
    <3> QED  BY <2>4, <3>1, <3>2, <1>0
  <2> QED  BY <1>0, <2>3, <2>4 DEF IInv, TransferShape
<1>8. FileShape'
  <2>1. \A t \in Transfers : at[t] \in {"reading", "first", "second"} => target[t] \in Jobs
    BY DEF IInv, TransferShape
  <2>2. \A k \in Jobs : /\ result'[k] = "pair" => result[k] = "pair"
                        /\ lease'[k] \in {"none", "offered"} => lease[k] \in {"none", "offered"}
    BY <1>1
  <2> QED  BY <1>0, <1>1, <2>1, <2>2 DEF IInv, FileShape
<1>9. HalfWrittenEndsLease'
  <2>1. \A k \in Jobs : Authorized(k)' => Authorized(k)
    BY <1>1 DEF Authorized
  <2> QED  BY <1>0, <2>1 DEF IInv, HalfWrittenEndsLease
<1>10. SlotsExact'
  <2>1. \A k \in Jobs : Open(owner'[k]) <=> Open(owner[k])
    BY <1>0 DEF IInv, TypeOK, Open
  <2> QED  BY <1>0, <2>1, SlotsKept DEF IInv
<1> QED  BY <1>4, <1>5, <1>6, <1>7, <1>8, <1>9, <1>10 DEF IInv

LEMMA EnterKeeps ==
  ASSUME IInv, NEW j \in Jobs, Admit(j) \/ UploadFails(j)
  PROVE  IInv'
<1>0. PICK p : /\ owner' = [owner EXCEPT ![j] = p]
               /\ \/ owner[j] = "idle" /\ p = "reading" /\ inflight < MaxInflight
                     /\ inflight' = inflight + 1 /\ dir' = [dir EXCEPT ![j] = TRUE]
                  \/ owner[j] = "reading" /\ p = "done"
                     /\ inflight' = inflight - 1 /\ dir' = [dir EXCEPT ![j] = FALSE]
               /\ UNCHANGED <<run, registered, lease, result, progress, files, line, ioTask,
                              at, target, interrupted>>
  BY DEF Admit, EnterService, UploadFails, jobVars, transferVars
<1>1. SlotsExact' /\ inflight' \in 0..MaxInflight
  <2>1. p \in OwnerPlaces
    BY <1>0 DEF OwnerPlaces
  <2>2. inflight' = IF Open(p)
                       THEN IF Open(owner[j]) THEN inflight ELSE inflight + 1
                       ELSE IF Open(owner[j]) THEN inflight - 1 ELSE inflight
    BY <1>0 DEF Open
  <2>3. SlotsExact' /\ inflight' \in Nat
    BY <1>0, <2>1, <2>2, SlotCount DEF IInv
  <2> QED  BY <1>0, <2>3, EnhancementAssumption DEF IInv, TypeOK
<1>2. TypeOK'
  BY <1>0, <1>1 DEF IInv, TypeOK, OwnerPlaces
<1>3. OwnerShape'
  BY <1>0 DEF IInv, OwnerShape, TypeOK, Enqueued, Open
<1>4. LeaseShape'
  BY <1>0 DEF IInv, LeaseShape, TypeOK
<1>5. TransferShape'
  <2>1. \A t \in Transfers : at[t] \in Working => target[t] \in Jobs \ {j}
    BY <1>0, NobodyAtWork
  <2>2. \A k \in Jobs : k # j => owner'[k] = owner[k]
    BY <1>0 DEF IInv, TypeOK
  <2> QED  BY <1>0, <2>1, <2>2 DEF IInv, TransferShape, Holds, Granted
<1>6. FileShape' /\ HalfWrittenEndsLease'
  BY <1>0 DEF IInv, FileShape, HalfWrittenEndsLease, Authorized
<1> QED  BY <1>1, <1>2, <1>3, <1>4, <1>5, <1>6 DEF IInv

LEMMA CleanupEndKeeps ==
  ASSUME IInv, NEW j \in Jobs, CleanupEnds(j)
  PROVE  IInv'
<1>0. /\ owner[j] = "cleaning" /\ Granted(j, j)
      /\ owner' = [owner EXCEPT ![j] = "done"]
      /\ dir' = [dir EXCEPT ![j] = FALSE]
      /\ files' = [files EXCEPT ![j] = [i \in Tracks |-> "none"]]
      /\ line' = [line EXCEPT ![j] = Tail(@)]
      /\ inflight' = inflight - 1
      /\ UNCHANGED <<run, registered, lease, result, progress, ioTask, at, target, interrupted>>
  BY DEF CleanupEnds, RemoveDirectory, jobVars
<1>1. SlotsExact' /\ inflight' \in 0..MaxInflight
  <2>1. "done" \in OwnerPlaces /\ ~Open("done") /\ Open(owner[j])
    BY <1>0 DEF OwnerPlaces, Open
  <2>2. SlotsExact' /\ inflight' \in Nat
    BY <1>0, <2>1, SlotCount DEF IInv
  <2> QED  BY <1>0, <2>2, EnhancementAssumption DEF IInv, TypeOK
<1>2. /\ line' \in [Jobs -> Seq(Transfers \cup Jobs)]
      /\ \A k \in Jobs \ {j} : \A t \in Transfers : Granted(k, t) => Granted(k, t)'
  <2>1. line \in [Jobs -> Seq(Queued)] /\ line[j] # <<>>
    BY <1>0 DEF IInv, TypeOK, Queued, Granted
  <2> QED  BY <1>0, <2>1, TailGranted DEF Queued
<1>3. TypeOK'
  BY <1>0, <1>1, <1>2 DEF IInv, TypeOK, OwnerPlaces
<1>4. OwnerShape' /\ LeaseShape'
  BY <1>0 DEF IInv, OwnerShape, LeaseShape, TypeOK, Enqueued, Open
<1>5. \A t \in Transfers : at[t] \in Working => target[t] \in Jobs \ {j}
  BY <1>0, NobodyAtWork
<1>6. \A k \in Jobs : k # j => owner'[k] = owner[k] /\ files'[k] = files[k]
  BY <1>0 DEF IInv, TypeOK
<1>7. TransferShape'
  BY <1>0, <1>2, <1>5, <1>6 DEF IInv, TransferShape, Holds
<1>8. j \notin registered /\ files'[j] = [i \in Tracks |-> "none"]
  BY <1>0 DEF IInv, OwnerShape, TypeOK, Enqueued
<1>9. FileShape'
  <2>1. \A t \in Transfers : at[t] = "second" => target[t] \in Jobs \ {j}
    BY <1>5 DEF Working, AtPlaces
  <2> QED  BY <1>0, <1>6, <1>8, <2>1 DEF IInv, FileShape
<1>10. HalfWrittenEndsLease'
  BY <1>0, <1>6, <1>8 DEF IInv, HalfWrittenEndsLease, Authorized
<1> QED  BY <1>1, <1>3, <1>4, <1>7, <1>9, <1>10 DEF IInv

----------------------------------------------------------------------------
(* Transfers: what a handler may do to its job, and where it goes.         *)

Leases  == {"none", "offered", "held", "late", "gone"}
Results == {"pending", "failed", "pair"}

(* Only job j changes; its lease may end and its result may be set.        *)
Settles(j, r) ==
  /\ registered' = registered
  /\ lease' \in [Jobs -> Leases] /\ result' \in [Jobs -> Results]
  /\ \A k \in Jobs : k # j => lease'[k] = lease[k] /\ result'[k] = result[k]
  /\ \/ lease'[j] = lease[j] /\ result'[j] = result[j]
     \/ /\ owner[j] \notin {"idle", "reading", "made"}
        /\ lease'[j] = IF lease[j] \in {"held", "late"} THEN "gone" ELSE lease[j]
        /\ result'[j] = IF result[j] = "pending" THEN r ELSE result[j]

LEMMA SettlesKeeps ==
  ASSUME IInv, NEW j \in Jobs, NEW r \in {"failed", "pair"}, Settles(j, r),
         UNCHANGED <<owner, run>>
  PROVE  /\ LeaseShape'
         /\ \A k \in Jobs : Authorized(k)' => Authorized(k)
         /\ \A k \in Jobs : lease'[k] \in {"none", "offered"} <=> lease[k] \in {"none", "offered"}
<1>1. LeaseShape'
  BY DEF IInv, LeaseShape, Settles
<1>2. \A k \in Jobs : Authorized(k)' => Authorized(k)
  BY DEF Settles, Authorized
<1>3. \A k \in Jobs : lease'[k] \in {"none", "offered"} <=> lease[k] \in {"none", "offered"}
  BY DEF Settles
<1> QED  BY <1>1, <1>2, <1>3

LEMMA UnchangedSettles ==
  ASSUME IInv, NEW j \in Jobs, UNCHANGED jobVars
  PROVE  Settles(j, "failed")
BY DEF IInv, TypeOK, Settles, jobVars, Leases, Results

LEMMA FailSettles ==
  ASSUME IInv, NEW j \in Jobs, Fail(j), owner[j] \notin {"idle", "reading", "made"}
  PROVE  Settles(j, "failed")
BY FailEffect DEF Settles, Leases, Results

LEMMA RefusedSettles ==
  ASSUME IInv, NEW j \in Jobs, Refused(j)
  PROVE  Settles(j, "failed")
<1>1. CASE j \in registered /\ lease[j] = "late"
  <2>1. owner[j] \notin {"idle", "reading", "made"}
    BY <1>1 DEF IInv, OwnerShape, Enqueued
  <2> QED  BY <1>1, <2>1, FailSettles DEF Refused
<1>2. CASE ~(j \in registered /\ lease[j] = "late")
  BY <1>2, UnchangedSettles DEF Refused
<1> QED  BY <1>1, <1>2

LEMMA GivesSettles ==
  ASSUME IInv, NEW j \in Jobs, Authorized(j), GivePair(j)
  PROVE  /\ Settles(j, "pair") /\ result[j] = "pending" /\ lease[j] = "held"
         /\ ~Authorized(j)'
<1>1. result[j] = "pending" /\ lease[j] = "held" /\ j \in registered
  BY DEF Authorized, IInv, LeaseShape
<1>2. owner[j] \notin {"idle", "reading", "made"}
  BY <1>1 DEF IInv, OwnerShape, Enqueued
<1>3. /\ lease \in [Jobs -> Leases] /\ result \in [Jobs -> Results]
      /\ lease' = [lease EXCEPT ![j] = "gone"] /\ result' = [result EXCEPT ![j] = "pair"]
      /\ registered' = registered
  BY <1>1 DEF IInv, TypeOK, GivePair, Revoke, Leases, Results
<1> QED  BY <1>1, <1>2, <1>3 DEF Settles, Leases, Results, Authorized

(* The transfer at work has its job to itself.                             *)
LEMMA Alone ==
  ASSUME IInv, NEW t \in Transfers, at[t] \in Working
  PROVE  /\ target[t] \in Jobs
         /\ owner[target[t]] \notin {"idle", "reading", "made"}
         /\ \A u \in Transfers : at[u] \in Working /\ u # t => target[u] # target[t]
<1>1. target[t] \in Jobs /\ owner[target[t]] \in Enqueued \cup {"cleaning"}
  BY DEF IInv, TransferShape, Working
<1>2. \A u \in Transfers : at[u] \in Working => ioTask[target[u]] = u
  BY DEF IInv, TransferShape
<1> QED  BY <1>1, <1>2 DEF Enqueued

(* Who may write has nobody's finished pair in front of it.                *)
LEMMA WriterHasNoPair ==
  ASSUME IInv, NEW t \in Transfers, at[t] \in {"reading", "first", "second"}
  PROVE  /\ result[target[t]] # "pair"
         /\ target[t] \in registered => run[target[t]] \notin {"published", "pair"}
         /\ lease[target[t]] \notin {"none", "offered"}
<1>1. at[t] \in Working
  BY DEF Working, AtPlaces
<1>2. lease[target[t]] \notin {"none", "offered"} /\ target[t] \in Jobs
  BY <1>1, Alone DEF IInv, TransferShape
<1>3. result[target[t]] # "pair"
  BY DEF IInv, FileShape
<1> QED  BY <1>2, <1>3 DEF IInv, LeaseShape

----------------------------------------------------------------------------
(* Transfers: the steps.                                                   *)

LEMMA MoveKeeps ==
  ASSUME IInv, NEW t \in Transfers, at[t] \in {"reading", "first", "second"},
         NEW p \in Working, MoveTo(t, p),
         UNCHANGED <<ownerVars, progress, dir>>,
         NEW r \in {"failed", "pair"}, Settles(target[t], r),
         NEW f \in [Tracks -> {"none", "part", "whole"}],
         files' = [files EXCEPT ![target[t]] = f],
         result'[target[t]] = "pair" => p = "closing" /\ f = [i \in Tracks |-> "whole"],
         p = "second" => f[0] = "whole",
         Authorized(target[t])' /\ (\E i \in Tracks : f[i] = "part")
           => p \in {"first", "second", "failing"}
  PROVE  IInv'
<1> DEFINE j == target[t]
<1>0. /\ UNCHANGED <<inflight, owner, run, progress, dir, line, ioTask, target, interrupted>>
      /\ at' = [at EXCEPT ![t] = p] /\ at \in [Transfers -> AtPlaces]
      /\ at[t] \in Working /\ j \in Jobs /\ registered' = registered
  BY Alone DEF MoveTo, ownerVars, IInv, TypeOK, Working, AtPlaces, Settles
<1>1. TypeOK'
  BY <1>0 DEF IInv, TypeOK, Settles, Leases, Results, Working
<1>2. OwnerShape' /\ SlotsExact'
  BY <1>0 DEF IInv, OwnerShape, SlotsExact
<1>3. /\ LeaseShape'
      /\ \A k \in Jobs : Authorized(k)' => Authorized(k)
      /\ \A k \in Jobs : lease'[k] \in {"none", "offered"} <=> lease[k] \in {"none", "offered"}
  BY <1>0, SettlesKeeps
<1>4. TransferShape'
  <2>1. \A u \in Transfers : at'[u] \in Working <=> at[u] \in Working
    BY <1>0
  <2>2. \A u \in Transfers : at'[u] # "idle" <=> at[u] # "idle"
    BY <1>0 DEF Working
  <2>3. \A u \in Transfers : at[u] \in Working => target[u] \in Jobs
    BY Alone
  <2>4. \A k \in Jobs : ioTask[k] \in Transfers \cup {NoOne}
    BY DEF IInv, TypeOK
  <2> QED  BY <1>0, <1>3, <2>1, <2>2, <2>3, <2>4 DEF IInv, TransferShape, Holds, Granted
<1>5. /\ files'[j] = f
      /\ \A k \in Jobs : k # j => files'[k] = files[k] /\ result'[k] = result[k]
  BY <1>0 DEF IInv, TypeOK, Settles
<1>6. FileShape'
  <2>1. ASSUME NEW u \in Transfers
        PROVE  /\ at'[u] \in {"reading", "first", "second"} => result'[target[u]] # "pair"
               /\ at'[u] = "second" => files'[target[u]][0] = "whole"
    <3>1. CASE u = t
      BY <3>1, <1>0, <1>5
    <3>2. CASE u # t /\ at[u] \in Working
      <4>1. target[u] \in Jobs \ {j}
        BY <3>2, <1>0, Alone
      <4> QED  BY <3>2, <4>1, <1>0, <1>5 DEF IInv, FileShape
    <3>3. CASE u # t /\ at[u] \notin Working
      BY <3>3, <1>0 DEF Working, AtPlaces
    <3> QED  BY <3>1, <3>2, <3>3
  <2>2. ASSUME NEW k \in Jobs
        PROVE  /\ k \in registered /\ (run[k] \in {"published", "pair"} \/ result'[k] = "pair")
                    => files'[k] = [i \in Tracks |-> "whole"]
               /\ lease'[k] \in {"none", "offered"} => \A i \in Tracks : files'[k][i] # "part"
    <3>1. CASE k = j
      BY <3>1, <1>3, <1>5, WriterHasNoPair
    <3>2. CASE k # j
      BY <3>2, <1>3, <1>5 DEF IInv, FileShape
    <3> QED  BY <3>1, <3>2
  <2> QED  BY <1>0, <2>1, <2>2 DEF FileShape
<1>7. HalfWrittenEndsLease'
  <2> SUFFICES ASSUME NEW k \in Jobs, Authorized(k)', \E i \in Tracks : files'[k][i] = "part"
               PROVE  \E u \in Transfers : target'[u] = k /\ at'[u] \in {"first", "second", "failing"}
    BY DEF HalfWrittenEndsLease
  <2>1. CASE k = j
    BY <2>1, <1>0, <1>5
  <2>2. CASE k # j
    <3>1. PICK u \in Transfers : target[u] = k /\ at[u] \in {"first", "second", "failing"}
      BY <2>2, <1>3, <1>5 DEF IInv, HalfWrittenEndsLease
    <3> QED  BY <2>2, <3>1, <1>0
  <2> QED  BY <2>1, <2>2
<1> QED  BY <1>1, <1>2, <1>3, <1>4, <1>6, <1>7 DEF IInv

LEMMA LeaveKeeps ==
  ASSUME IInv, NEW t \in Transfers, at[t] # "idle", Holds(t), Leave(t), Elsewhere,
         NEW j \in Jobs, j = target[t], Settles(j, "failed"),
         Authorized(j)' => at[t] \notin {"first", "second", "failing"}
  PROVE  IInv'
<1>0. /\ UNCHANGED <<inflight, owner, run, progress, dir, files>>
      /\ at' = [at EXCEPT ![t] = "idle"] /\ at \in [Transfers -> AtPlaces]
      /\ target' = [target EXCEPT ![t] = NoOne] /\ target \in [Transfers -> Jobs \cup {NoOne}]
      /\ interrupted' = [interrupted EXCEPT ![t] = FALSE]
      /\ interrupted \in [Transfers -> BOOLEAN]
      /\ ioTask' = [ioTask EXCEPT ![j] = NoOne] /\ ioTask \in [Jobs -> Transfers \cup {NoOne}]
      /\ line' = [line EXCEPT ![j] = Tail(@)]
      /\ j \in Jobs /\ registered' = registered
  BY DEF Leave, Elsewhere, ownerVars, diskVars, IInv, TypeOK, TransferShape, Settles
<1>1. /\ line' \in [Jobs -> Seq(Transfers \cup Jobs)]
      /\ \A k \in Jobs \ {j} : \A u \in Transfers : Granted(k, u) => Granted(k, u)'
  <2>1. line \in [Jobs -> Seq(Queued)] /\ line[j] # <<>>
    BY DEF IInv, TypeOK, Queued, Holds, Granted
  <2> QED  BY <1>0, <2>1, TailGranted DEF Queued
<1>2. TypeOK'
  BY <1>0, <1>1 DEF IInv, TypeOK, Settles, Leases, Results, AtPlaces
<1>3. OwnerShape' /\ SlotsExact'
  BY <1>0 DEF IInv, OwnerShape, SlotsExact
<1>4. /\ LeaseShape'
      /\ \A k \in Jobs : Authorized(k)' => Authorized(k)
      /\ \A k \in Jobs : lease'[k] \in {"none", "offered"} <=> lease[k] \in {"none", "offered"}
  BY <1>0, SettlesKeeps
<1>5. ASSUME NEW u \in Transfers, u # t, at[u] \in Working
      PROVE  target[u] \in Jobs \ {j}
  <2>1. target[u] \in Jobs /\ Granted(target[u], u)
    BY <1>5 DEF IInv, TransferShape, Holds, Working
  <2> QED  BY <1>5, <2>1 DEF Holds, Granted
<1>6. \A u \in Transfers : u # t =>
        at'[u] = at[u] /\ target'[u] = target[u] /\ interrupted'[u] = interrupted[u]
  BY <1>0
<1>7. at'[t] = "idle" /\ interrupted'[t] = FALSE /\ target'[t] = NoOne /\ "idle" \notin Working
  BY <1>0 DEF Working
<1>8. TransferShape'
  <2>1. ASSUME NEW u \in Transfers, u # t, at[u] \in Working
        PROVE  /\ Granted(target[u], u)' /\ ioTask'[target[u]] = u
               /\ owner[target[u]] \in Enqueued \cup {"cleaning"}
               /\ lease'[target[u]] \notin {"none", "offered"}
               /\ owner[target[u]] = "cleaning" => interrupted[u]
    <3>1. target[u] \in Jobs \ {j}
      BY <2>1, <1>5
    <3> QED  BY <2>1, <3>1, <1>0, <1>1, <1>4 DEF IInv, TransferShape, Holds
  <2>2. \A u \in Transfers :
          /\ at'[u] # "idle" => target'[u] \in Jobs
          /\ at'[u] \in Working =>
               /\ Holds(u)' /\ ioTask'[target'[u]] = u
               /\ owner'[target'[u]] \in Enqueued \cup {"cleaning"}
               /\ lease'[target'[u]] \notin {"none", "offered"}
               /\ owner'[target'[u]] = "cleaning" => interrupted'[u]
          /\ interrupted'[u] => at'[u] \in Working /\ owner'[target'[u]] = "cleaning"
    <3> TAKE u \in Transfers
    <3>1. CASE u = t
      BY <3>1, <1>7
    <3>2. CASE u # t
      BY <3>2, <1>0, <1>6, <2>1 DEF IInv, TransferShape, Holds, Granted
    <3> QED  BY <3>1, <3>2
  <2>3. ASSUME NEW k \in Jobs, ioTask'[k] # NoOne
        PROVE  at'[ioTask'[k]] \in Working /\ target'[ioTask'[k]] = k
    <3>1. k # j /\ ioTask'[k] = ioTask[k] /\ ioTask[k] \in Transfers
      BY <2>3, <1>0
    <3>2. at[ioTask[k]] \in Working /\ target[ioTask[k]] = k
      BY <2>3, <3>1 DEF IInv, TransferShape
    <3> QED  BY <3>1, <3>2, <1>6
  <2> QED  BY <2>2, <2>3 DEF TransferShape
<1>9. \A k \in Jobs : result'[k] = "pair" => result[k] = "pair"
  BY DEF Settles
<1>10. FileShape'
  <2>1. \A u \in Transfers : at[u] \in {"reading", "first", "second"} => target[u] \in Jobs
    BY DEF IInv, TransferShape
  <2>2. ASSUME NEW u \in Transfers
        PROVE  /\ at'[u] \in {"reading", "first", "second"} => result'[target'[u]] # "pair"
               /\ at'[u] = "second" => files'[target'[u]][0] = "whole"
    <3>1. CASE u = t
      BY <3>1, <1>7
    <3>2. CASE u # t
      BY <3>2, <1>0, <1>6, <1>9, <2>1 DEF IInv, FileShape
    <3> QED  BY <3>1, <3>2
  <2>3. \A k \in Jobs :
          /\ k \in registered /\ (run[k] \in {"published", "pair"} \/ result'[k] = "pair")
               => files[k] = [i \in Tracks |-> "whole"]
          /\ lease'[k] \in {"none", "offered"} => \A i \in Tracks : files[k][i] # "part"
    BY <1>4, <1>9 DEF IInv, FileShape
  <2> QED  BY <1>0, <2>2, <2>3 DEF FileShape
<1>11. HalfWrittenEndsLease'
  <2> SUFFICES ASSUME NEW k \in Jobs, Authorized(k)', \E i \in Tracks : files'[k][i] = "part"
               PROVE  \E u \in Transfers : target'[u] = k /\ at'[u] \in {"first", "second", "failing"}
    BY DEF HalfWrittenEndsLease
  <2>1. PICK u \in Transfers : target[u] = k /\ at[u] \in {"first", "second", "failing"}
    BY <1>0, <1>4 DEF IInv, HalfWrittenEndsLease
  <2>2. u # t
    BY <2>1
  <2> QED  BY <2>1, <2>2, <1>6
<1> QED  BY <1>2, <1>3, <1>4, <1>8, <1>10, <1>11 DEF IInv

LEMMA ArriveKeeps ==
  ASSUME IInv, NEW t \in Transfers, NEW j \in Jobs, Arrive(t, j)
  PROVE  IInv'
<1>0. /\ at[t] = "idle" /\ at' = [at EXCEPT ![t] = "waiting"]
      /\ target' = [target EXCEPT ![t] = j]
      /\ line' = [line EXCEPT ![j] = Append(@, t)]
      /\ UNCHANGED <<inflight, owner, run, registered, lease, result, progress, dir, files,
                     ioTask, interrupted>>
      /\ at \in [Transfers -> AtPlaces] /\ target \in [Transfers -> Jobs \cup {NoOne}]
  BY DEF Arrive, ownerVars, jobVars, diskVars, IInv, TypeOK
<1>1. /\ line' \in [Jobs -> Seq(Transfers \cup Jobs)]
      /\ \A k \in Jobs : \A u \in Transfers : Granted(k, u) => Granted(k, u)'
  <2>1. line \in [Jobs -> Seq(Queued)] /\ t \in Queued
    BY DEF IInv, TypeOK, Queued
  <2> QED  BY <1>0, <2>1, AppendGranted DEF Queued
<1>2. TypeOK'
  BY <1>0, <1>1 DEF IInv, TypeOK, AtPlaces
<1>3. OwnerShape' /\ LeaseShape' /\ SlotsExact'
  BY <1>0 DEF IInv, OwnerShape, LeaseShape, SlotsExact
<1>4. \A u \in Transfers : u # t => at'[u] = at[u] /\ target'[u] = target[u]
  BY <1>0
<1>5. /\ at'[t] = "waiting" /\ target'[t] = j
      /\ "waiting" \notin Working /\ "idle" \notin Working
  BY <1>0 DEF Working
<1>6. ~interrupted[t] /\ \A k \in Jobs : ioTask[k] # t
  <2>1. \A k \in Jobs : ioTask[k] = t => ioTask[k] # NoOne
    BY EnhancementAssumption
  <2> QED  BY <1>0, <1>5, <2>1 DEF IInv, TransferShape
<1>7. TransferShape'
  <2>1. \A u \in Transfers : at[u] \in Working => target[u] \in Jobs
    BY Alone
  <2>2. \A k \in Jobs : ioTask[k] \in Transfers \cup {NoOne}
    BY DEF IInv, TypeOK
  <2> QED  BY <1>0, <1>1, <1>4, <1>5, <1>6, <2>1, <2>2 DEF IInv, TransferShape, Holds
<1>8. FileShape' /\ HalfWrittenEndsLease'
  <2>1. FileShape'
    BY <1>0, <1>4, <1>5 DEF IInv, FileShape
  <2>2. \A u \in Transfers : at[u] \in {"first", "second", "failing"} => u # t
    BY <1>0
  <2> QED  BY <1>0, <1>4, <2>1, <2>2 DEF IInv, HalfWrittenEndsLease, Authorized
<1> QED  BY <1>2, <1>3, <1>7, <1>8 DEF IInv

LEMMA StartKeeps ==
  ASSUME IInv, NEW t \in Transfers, Start(t)
  PROVE  IInv'
<1> DEFINE j == target[t]
           p == IF t \in Downloads THEN "sending" ELSE "reading"
<1>0. /\ at[t] = "waiting" /\ at' = [at EXCEPT ![t] = p]
      /\ ioTask' = [ioTask EXCEPT ![j] = t]
      /\ UNCHANGED <<inflight, owner, run, registered, lease, result, progress, dir, files,
                     line, target, interrupted>>
      /\ at \in [Transfers -> AtPlaces] /\ ioTask \in [Jobs -> Transfers \cup {NoOne}]
      /\ Holds(t) /\ Authorized(j) /\ j \in Jobs
  BY DEF Start, Begin, ownerVars, jobVars, diskVars, IInv, TypeOK, TransferShape
<1>1. p \in Working /\ p \in {"sending", "reading"}
  BY DEF Working, AtPlaces
<1> HIDE DEF p
<1>2. TypeOK'
  BY <1>0, <1>1 DEF IInv, TypeOK, Working
<1>3. OwnerShape' /\ LeaseShape' /\ SlotsExact'
  BY <1>0 DEF IInv, OwnerShape, LeaseShape, SlotsExact
<1>4. /\ owner[j] \in Enqueued /\ lease[j] = "held" /\ result[j] = "pending"
  BY <1>0 DEF Authorized, IInv, OwnerShape, LeaseShape
<1>5. \A u \in Transfers : u # t => at'[u] = at[u]
  BY <1>0
<1>6. at'[t] = p /\ "waiting" \notin Working
  BY <1>0 DEF Working
<1>7. ASSUME NEW u \in Transfers, u # t, at[u] \in Working
      PROVE  target[u] \in Jobs \ {j}
  <2>1. target[u] \in Jobs /\ Granted(target[u], u)
    BY <1>7 DEF IInv, TransferShape, Holds, Working
  <2> QED  BY <1>0, <1>7, <2>1 DEF Holds, Granted
<1>8. TransferShape'
  <2>1. ASSUME NEW u \in Transfers
        PROVE  /\ at'[u] # "idle" => target[u] \in Jobs
               /\ at'[u] \in Working =>
                    /\ Holds(u)
                    /\ ioTask'[target[u]] = u
                    /\ owner[target[u]] \in Enqueued \cup {"cleaning"}
                    /\ lease[target[u]] \notin {"none", "offered"}
                    /\ owner[target[u]] = "cleaning" => interrupted[u]
               /\ interrupted[u] => at'[u] \in Working /\ owner[target[u]] = "cleaning"
    <3>1. CASE u = t
      <4>1. ~interrupted[t]
        BY <1>0, <1>6 DEF IInv, TransferShape
      <4> QED  BY <3>1, <4>1, <1>0, <1>4 DEF Enqueued
    <3>2. CASE u # t
      BY <3>2, <1>0, <1>5, <1>7 DEF IInv, TransferShape
    <3> QED  BY <3>1, <3>2
  <2>2. ASSUME NEW k \in Jobs, ioTask'[k] # NoOne
        PROVE  at'[ioTask'[k]] \in Working /\ target[ioTask'[k]] = k
    <3>1. CASE k = j
      BY <3>1, <1>0, <1>1, <1>6
    <3>2. CASE k # j
      <4>1. ioTask'[k] = ioTask[k] /\ ioTask[k] \in Transfers
        BY <3>2, <2>2, <1>0
      <4>2. at[ioTask[k]] \in Working /\ target[ioTask[k]] = k
        BY <2>2, <4>1 DEF IInv, TransferShape
      <4> QED  BY <4>1, <4>2, <1>0, <1>5, <1>6
    <3> QED  BY <3>1, <3>2
  <2> QED  BY <1>0, <2>1, <2>2 DEF TransferShape, Holds, Granted
<1>9. FileShape' /\ HalfWrittenEndsLease'
  <2>1. FileShape'
    BY <1>0, <1>1, <1>4, <1>5, <1>6 DEF IInv, FileShape
  <2>2. \A u \in Transfers : at[u] \in {"first", "second", "failing"} => u # t
    BY <1>0
  <2> QED  BY <1>0, <1>5, <2>1, <2>2 DEF IInv, HalfWrittenEndsLease, Authorized
<1> QED  BY <1>2, <1>3, <1>8, <1>9 DEF IInv

LEMMA TransferNextKeeps ==
  ASSUME IInv, NEW t \in Transfers, TransferNext(t)
  PROVE  IInv'
<1>1. CASE \E j \in Jobs : Arrive(t, j)
  BY <1>1, ArriveKeeps
<1>2. CASE Start(t)
  BY <1>2, StartKeeps
<1>3. CASE TurnedAway(t)
  <2>1. at[t] = "waiting" /\ Holds(t) /\ Leave(t) /\ Elsewhere
    BY <1>3 DEF TurnedAway
  <2>2. PICK j \in Jobs : j = target[t]
    BY <2>1 DEF IInv, TransferShape
  <2>3. Settles(j, "failed")
    BY <1>3, <2>2, RefusedSettles DEF TurnedAway
  <2> QED  BY <2>1, <2>2, <2>3, LeaveKeeps
<1>4. CASE DownloadEnds(t) \/ Closes(t)
  <2>1. at[t] \in {"sending", "closing"} /\ Leave(t) /\ UNCHANGED jobVars /\ Elsewhere
    BY <1>4 DEF DownloadEnds, Closes, Goes
  <2>2. PICK j \in Jobs : j = target[t]
    BY <2>1 DEF IInv, TransferShape
  <2>3. Settles(j, "failed") /\ Holds(t)
    BY <2>1, <2>2, UnchangedSettles DEF IInv, TransferShape, Working, AtPlaces
  <2> QED  BY <2>1, <2>2, <2>3, LeaveKeeps
<1>5. CASE BodyFails(t) \/ Fails(t)
  <2>1. at[t] \in {"reading", "failing"} /\ Leave(t) /\ Fail(target[t]) /\ Elsewhere
    BY <1>5 DEF BodyFails, Fails, Goes
  <2>2. at[t] \in Working
    BY <2>1 DEF Working, AtPlaces
  <2>3. PICK j \in Jobs : j = target[t]
    BY <2>2, Alone
  <2>4. Settles(j, "failed") /\ Holds(t)
    BY <2>1, <2>2, <2>3, Alone, FailSettles DEF IInv, TransferShape
  <2>5. ~Authorized(j)'
    BY <2>1, <2>3, FailEffect DEF Authorized
  <2> QED  BY <2>1, <2>3, <2>4, <2>5, LeaveKeeps
<1>6. CASE CancelLands(t)
  <2>1. at[t] \in Working /\ owner[target[t]] = "cleaning"
    BY <1>6 DEF CancelLands, IInv, TransferShape
  <2>2. PICK j \in Jobs : j = target[t]
    BY <2>1, Alone
  <2>3. Settles(j, "failed")
    <3>1. CASE t \in Downloads
      BY <3>1, <1>6, <2>2, UnchangedSettles DEF CancelLands
    <3>2. CASE t \notin Downloads
      <4>1. Fail(j)
        BY <3>2, <1>6, <2>2 DEF CancelLands
      <4> QED  BY <4>1, <2>1, <2>2, FailSettles
    <3> QED  BY <3>1, <3>2
  <2>4. ~Authorized(j)'
    <3>1. j \notin registered
      BY <2>1, <2>2 DEF IInv, OwnerShape, Enqueued
    <3> QED  BY <2>3, <3>1 DEF Settles, Authorized
  <2>5. at[t] # "idle" /\ Holds(t) /\ Leave(t) /\ Elsewhere
    BY <1>6, <2>1 DEF CancelLands, Working, IInv, TransferShape
  <2> QED  BY <2>2, <2>3, <2>4, <2>5, LeaveKeeps
<1>7. CASE WorkerUnknown(t)
  <2>1. at[t] = "reading" /\ MoveTo(t, "closing") /\ Elsewhere /\ "closing" \in Working
    BY <1>7 DEF WorkerUnknown, Goes, Working, AtPlaces
  <2>2. at[t] \in Working /\ target[t] \in Jobs
    BY <2>1, Alone DEF Working, AtPlaces
  <2>3. Settles(target[t], "failed")
    BY <1>7, <2>2, RefusedSettles, UnchangedSettles DEF WorkerUnknown
  <2>4. PICK f \in [Tracks -> {"none", "part", "whole"}] : f = files[target[t]]
    BY <2>2 DEF IInv, TypeOK
  <2>5. files' = [files EXCEPT ![target[t]] = f] /\ UNCHANGED <<ownerVars, progress, dir>>
    BY <2>1, <2>2, <2>4 DEF Elsewhere, diskVars, IInv, TypeOK
  <2>6. result'[target[t]] # "pair"
    BY <2>1, <2>3, WriterHasNoPair DEF Settles
  <2>7. ~(Authorized(target[t])' /\ \E i \in Tracks : f[i] = "part")
    <3> SUFFICES ASSUME Authorized(target[t]), \E i \in Tracks : files[target[t]][i] = "part"
                 PROVE  FALSE
      <4>1. target' = target
        BY <2>1 DEF MoveTo
      <4> QED  BY <4>1, <2>2, <2>3, <2>4 DEF Settles, Authorized
    <3>1. PICK u \in Transfers : target[u] = target[t] /\ at[u] \in {"first", "second", "failing"}
      BY <2>2 DEF IInv, HalfWrittenEndsLease
    <3> QED  BY <3>1, <2>1, <2>2, Alone DEF Working, AtPlaces
  <2>8. target' = target
    BY <2>1 DEF MoveTo
  <2> QED  BY <2>1, <2>3, <2>5, <2>6, <2>7, <2>8, MoveKeeps
<1>8. CASE MetadataFails(t) \/ CopyFails(t)
  <2>1. /\ at[t] \in {"reading", "first", "second"} /\ MoveTo(t, "failing")
        /\ Elsewhere /\ UNCHANGED jobVars /\ "failing" \in Working
    BY <1>8 DEF MetadataFails, CopyFails, CopyAborts, Goes, Working, AtPlaces
  <2>2. at[t] \in Working /\ target[t] \in Jobs
    BY <2>1, Alone DEF Working, AtPlaces
  <2>3. Settles(target[t], "failed")
    BY <2>1, <2>2, UnchangedSettles
  <2>4. PICK f \in [Tracks -> {"none", "part", "whole"}] : f = files[target[t]]
    BY <2>2 DEF IInv, TypeOK
  <2>5. files' = [files EXCEPT ![target[t]] = f] /\ UNCHANGED <<ownerVars, progress, dir>>
    BY <2>1, <2>2, <2>4 DEF Elsewhere, diskVars, IInv, TypeOK
  <2>6. result'[target[t]] # "pair"
    BY <2>1, WriterHasNoPair DEF jobVars
  <2>7. target' = target
    BY <2>1 DEF MoveTo
  <2> QED  BY <2>1, <2>3, <2>5, <2>6, <2>7, MoveKeeps
<1>9. CASE CopyFirst(t) \/ CopySecond(t)
  <2>1. PICK p \in {"first", "second", "failing"} :
          /\ at[t] \in {"reading", "first"} /\ MoveTo(t, p)
          /\ UNCHANGED <<ownerVars, jobVars, progress, dir>>
          /\ p = "second" => at[t] = "first"
    BY <1>9 DEF CopyFirst, CopySecond, Goes
  <2>2. at[t] \in Working /\ target[t] \in Jobs /\ p \in Working
    BY <2>1, Alone DEF Working, AtPlaces
  <2>3. Settles(target[t], "failed")
    BY <2>1, <2>2, UnchangedSettles
  <2>4. files \in [Jobs -> [Tracks -> {"none", "part", "whole"}]] /\ 0 \in Tracks
    BY DEF IInv, TypeOK, Tracks
  <2>5. PICK f \in [Tracks -> {"none", "part", "whole"}] :
          files' = [files EXCEPT ![target[t]] = f] /\ (p = "second" => f[0] = "whole")
    <3>1. CASE CopyFirst(t)
      <4>1. CASE UNCHANGED files
        <5>1. files' = [files EXCEPT ![target[t]] = files[target[t]]] /\ p # "second"
          BY <4>1, <3>1, <2>1, <2>2, <2>4 DEF CopyFirst, Goes
        <5> QED  BY <5>1, <2>2, <2>4
      <4>2. CASE Write(t, 0, "part")
        <5> DEFINE g == [files[target[t]] EXCEPT ![0] = "part"]
        <5>1. g \in [Tracks -> {"none", "part", "whole"}]
          BY <2>2, <2>4
        <5>2. files' = [files EXCEPT ![target[t]] = g] /\ p # "second"
          BY <4>2, <3>1, <2>1 DEF Write, CopyFirst, Goes
        <5> QED  BY <5>1, <5>2
      <4> QED  BY <3>1, <4>1, <4>2 DEF CopyFirst
    <3>2. CASE CopySecond(t)
      <4>1. CASE Write(t, 0, "whole")
        <5> DEFINE g == [files[target[t]] EXCEPT ![0] = "whole"]
        <5>1. g \in [Tracks -> {"none", "part", "whole"}] /\ g[0] = "whole"
          BY <2>2, <2>4
        <5>2. files' = [files EXCEPT ![target[t]] = g]
          BY <4>1 DEF Write
        <5> QED  BY <5>1, <5>2
      <4>2. CASE files' = [files EXCEPT ![target[t]] =
                              [i \in Tracks |-> IF i = 0 THEN "whole" ELSE "part"]]
        <5> DEFINE g == [i \in Tracks |-> IF i = 0 THEN "whole" ELSE "part"]
        <5>1. g \in [Tracks -> {"none", "part", "whole"}] /\ g[0] = "whole"
          BY <2>4
        <5> QED  BY <5>1, <4>2
      <4> QED  BY <3>2, <4>1, <4>2 DEF CopySecond
    <3> QED  BY <1>9, <3>1, <3>2
  <2>6. result'[target[t]] # "pair"
    BY <2>1, WriterHasNoPair DEF jobVars
  <2>7. target' = target
    BY <2>1 DEF MoveTo
  <2> QED  BY <2>1, <2>2, <2>3, <2>5, <2>6, <2>7, MoveKeeps
<1>10. CASE Accept(t)
  <2>1. /\ at[t] = "second" /\ MoveTo(t, "closing") /\ "closing" \in Working
        /\ UNCHANGED <<ownerVars, progress, dir>>
        /\ Write(t, 1, "whole")
    BY <1>10 DEF Accept, Copied, Goes, Working, AtPlaces
  <2>2. at[t] \in Working /\ target[t] \in Jobs /\ target' = target
    BY <2>1, Alone DEF Working, AtPlaces, MoveTo
  <2>3. files \in [Jobs -> [Tracks -> {"none", "part", "whole"}]] /\ Tracks = {0, 1}
    BY DEF IInv, TypeOK, Tracks
  <2>4. files[target[t]][0] = "whole"
    BY <2>1 DEF IInv, FileShape
  <2>5. PICK g \in [Tracks -> {"none", "part", "whole"}] : g = [i \in Tracks |-> "whole"]
    OBVIOUS
  <2>6. files' = [files EXCEPT ![target[t]] = g]
    <3>1. [files[target[t]] EXCEPT ![1] = "whole"] = g
      BY <2>2, <2>3, <2>4, <2>5
    <3> QED  BY <2>1, <3>1 DEF Write
  <2>7. PICK r \in {"failed", "pair"} : Settles(target[t], r)
    BY <1>10, <2>2, GivesSettles, RefusedSettles DEF Accept
  <2>8. PICK p \in Working : p = "closing"
    BY <2>1
  <2>9. MoveTo(t, p) /\ p # "second" /\ at[t] \in {"reading", "first", "second"}
    BY <2>1, <2>8
  <2>10. result'[target[t]] = "pair" => p = "closing" /\ g = [i \in Tracks |-> "whole"]
    BY <2>5, <2>8
  <2>11. ~(Authorized(target[t])' /\ \E i \in Tracks : g[i] = "part")
    BY <2>5
  <2>12. UNCHANGED <<ownerVars, progress, dir>>
    BY <2>1
  <2> HIDE DEF Settles
  <2> QED  BY <2>5, <2>6, <2>7, <2>9, <2>10, <2>11, <2>12, MoveKeeps, ZenonT(30)
<1> QED  BY <1>1, <1>2, <1>3, <1>4, <1>5, <1>6, <1>7, <1>8, <1>9, <1>10 DEF TransferNext

----------------------------------------------------------------------------
(* The invariant, and what follows from it.                                *)

LEMMA OwnerNextKeeps ==
  ASSUME IInv, NEW j \in Jobs, OwnerNext(j)
  PROVE  IInv'
<1>1. CASE OwnerMove(j)
  BY <1>1, OwnerMoveKeeps
<1>2. CASE Admit(j) \/ UploadFails(j)
  BY <1>2, EnterKeeps
<1>3. CASE Enqueue(j)
  BY <1>3, EnqueueKeeps
<1>4. CASE RunStops(j)
  BY <1>4, RunMoveKeeps DEF RunMove
<1>5. CASE CleanupEnds(j)
  BY <1>5, CleanupEndKeeps
<1>6. CASE NotEnqueued(j)
  BY <1>6, CleanupKeeps DEF NotEnqueued
<1>7. CASE Refuse(j)
  BY <1>7, CleanupKeeps DEF Refuse
<1>8. CASE ResponseEnds(j)
  <2>1. owner[j] = "answering" /\ Cleanup(j)
    BY <1>8 DEF ResponseEnds
  <2>2. run[j] \in Ended
    BY <2>1 DEF IInv, OwnerShape, Ended
  <2> QED  BY <2>1, <2>2, CleanupKeeps
<1> QED  BY <1>1, <1>2, <1>3, <1>4, <1>5, <1>6, <1>7, <1>8 DEF OwnerNext, OwnerMove

LEMMA StepKeeps == IInv /\ [Next]_vars => IInv'
<1> SUFFICES ASSUME IInv, [Next]_vars
             PROVE  IInv'
  OBVIOUS
<1>1. CASE \E j \in Jobs : OwnerNext(j)
  BY <1>1, OwnerNextKeeps
<1>2. CASE \E j \in Jobs : RunNext(j)
  <2>1. PICK j \in Jobs : RunNext(j)
    BY <1>2
  <2>2. CASE RunMove(j)
    BY <2>2, RunMoveKeeps
  <2>3. CASE OfficialPublishes(j)
    BY <2>3, PublishKeeps
  <2>4. CASE Offer(j)
    BY <2>4, OfferKeeps
  <2> QED  BY <2>1, <2>2, <2>3, <2>4 DEF RunNext, RunMove
<1>3. CASE \E j \in Jobs : LeaseNext(j)
  BY <1>3, LeaseNextKeeps
<1>4. CASE \E t \in Transfers : TransferNext(t)
  BY <1>4, TransferNextKeeps
<1>5. CASE UNCHANGED vars
  <2>1. UNCHANGED <<inflight, owner, run, registered, lease, result, progress, dir,
                    files, line, ioTask, at, target, interrupted>>
    BY <1>5 DEF vars
  <2>2. TypeOK' /\ OwnerShape' /\ LeaseShape'
    BY <2>1 DEF IInv, TypeOK, OwnerShape, LeaseShape
  <2>3. TransferShape'
    BY <2>1 DEF IInv, TransferShape, Holds, Granted
  <2>4. FileShape' /\ HalfWrittenEndsLease' /\ SlotsExact'
    BY <2>1 DEF IInv, FileShape, HalfWrittenEndsLease, Authorized, SlotsExact
  <2> QED  BY <2>2, <2>3, <2>4 DEF IInv
<1> QED  BY <1>1, <1>2, <1>3, <1>4, <1>5 DEF Next

(* The places of owner, task, lease, transfers and files go together in     *)
(* every state the coordinator reaches.                                    *)
THEOREM Inductive == Spec => []IInv
<1> QED  BY InitHolds, StepKeeps, PTL DEF Spec

(* Every variable has its type; at most max_inflight_requests requests are *)
(* between admission and the end of cleanup, as the 429 of enhance says.   *)
THEOREM Typed == Spec => []TypeOK
<1>1. IInv => TypeOK
  BY DEF IInv
<1> QED  BY <1>1, Inductive, PTL

(* No transfer, official attempt or response is left with a directory that *)
(* cleanup has removed.                                                    *)
THEOREM DirectoryOutlivesUse == Spec => []AudioOutlivesUse
<1>1. ASSUME IInv
      PROVE  AudioOutlivesUse
  <2>1. \A t \in Transfers : at[t] \in Working => dir[target[t]]
    <3>1. SUFFICES ASSUME NEW t \in Transfers, at[t] \in Working
                   PROVE  dir[target[t]]
      OBVIOUS
    <3>2. target[t] \in Jobs /\ owner[target[t]] \in Enqueued \cup {"cleaning"}
      BY <1>1, <3>1 DEF IInv, TransferShape, Working
    <3> QED  BY <1>1, <3>2 DEF IInv, OwnerShape, Open, Enqueued
  <2>2. \A j \in Jobs : run[j] \in {"official", "published"} => dir[j]
    <3>1. SUFFICES ASSUME NEW j \in Jobs, run[j] \in {"official", "published"}
                   PROVE  dir[j]
      OBVIOUS
    <3>2. owner[j] \notin {"idle", "done"}
      BY <1>1, <3>1 DEF IInv, OwnerShape, Ended
    <3> QED  BY <1>1, <3>2 DEF IInv, OwnerShape, Open
  <2>3. \A j \in Jobs : owner[j] = "answering" => dir[j]
    BY <1>1 DEF IInv, OwnerShape, Open
  <2> QED  BY <2>1, <2>2, <2>3 DEF AudioOutlivesUse
<1> QED  BY <1>1, Inductive, PTL

(* io_task names whoever holds io_lock and is at work; once cleanup waits  *)
(* for the lock, that one has been cancelled and no other can start.       *)
THEOREM NothingHoldsCleanup == Spec => []CleanupUnblocked
<1>1. ASSUME IInv, NEW j \in Jobs, owner[j] = "cleaning"
      PROVE  /\ ~Authorized(j)
             /\ \A t \in Transfers : at[t] \in Working /\ target[t] = j => interrupted[t]
  <2>1. j \notin registered
    BY <1>1 DEF IInv, OwnerShape, Enqueued
  <2>2. \A t \in Transfers : at[t] \in Working /\ target[t] = j => interrupted[t]
    BY <1>1 DEF IInv, TransferShape
  <2> QED  BY <2>1, <2>2 DEF Authorized
<1>2. IInv => IoTaskHolds
  BY DEF IInv, TransferShape, IoTaskHolds
<1>3. IInv => CleanupUnblocked
  BY <1>1, <1>2 DEF CleanupUnblocked
<1> QED  BY <1>3, Inductive, PTL

(* A 200 answer has both enhanced tracks behind it, completely written; an  *)
(* upload that fails with a file half written leaves no lease behind under  *)
(* which another upload could meet it.                                     *)
THEOREM TracksAreWhole == Spec => []NoHalfTracks
<1>1. ASSUME IInv, NEW j \in Jobs, owner[j] \in {"accepting", "answering"}
      PROVE  files[j] = [i \in Tracks |-> "whole"]
  <2>1. j \in registered /\ run[j] = "pair"
    BY <1>1 DEF IInv, OwnerShape, Enqueued
  <2> QED  BY <1>1, <2>1 DEF IInv, FileShape
<1>2. IInv => AnswerIsWhole
  BY <1>1 DEF AnswerIsWhole
<1>3. IInv => NoHalfTracks
  BY <1>2 DEF IInv, NoHalfTracks
<1> QED  BY <1>3, Inductive, PTL

(* inflight is the number of admitted requests, whatever way they end.     *)
THEOREM SlotsCounted == Spec => []SlotsExact
<1>1. IInv => SlotsExact
  BY DEF IInv
<1> QED  BY <1>1, Inductive, PTL

----------------------------------------------------------------------------
(* What a step never does.                                                 *)

LEMMA FailKeepsResult ==
  ASSUME IInv, NEW k \in Jobs, Fail(k) \/ Refused(k) \/ UNCHANGED jobVars
  PROVE  \A j \in Jobs : result[j] # "pending" => result'[j] = result[j]
<1>1. CASE Fail(k)
  BY <1>1, FailEffect
<1>2. CASE UNCHANGED jobVars
  BY <1>2 DEF jobVars
<1> QED  BY <1>1, <1>2 DEF Refused

LEMMA CleanupKeepsResult ==
  ASSUME IInv, NEW k \in Jobs, Cleanup(k)
  PROVE  \A j \in Jobs : result[j] # "pending" => result'[j] = result[j]
<1>1. result \in [Jobs -> {"pending", "failed", "pair"}]
  BY DEF IInv, TypeOK
<1> QED  BY <1>1 DEF Cleanup, RevokeJob, FailAndFinish, jobVars

LEMMA OwnerKeepsResult ==
  ASSUME IInv, NEW k \in Jobs, OwnerNext(k) \/ RunNext(k)
  PROVE  \A j \in Jobs : result[j] # "pending" => result'[j] = result[j]
<1>1. CASE Cleanup(k)
  BY <1>1, CleanupKeepsResult
<1>2. CASE UNCHANGED result
  BY <1>2
<1>3. CASE RunNext(k)
  <2>1. UNCHANGED result
    BY <1>3 DEF RunNext, OfficialPublishes, Publish, OfficialReturns, OfficialCut, Offer,
         RunFails, ResultTaken, RunMoves, jobVars
  <2> QED  BY <2>1
<1>4. CASE OwnerNext(k)
  <2>1. UNCHANGED result \/ Cleanup(k)
    BY <1>4 DEF OwnerNext, Admit, EnterService, UploadFails, UploadRead, NotEnqueued, Enqueue,
         RunNoticed, Abandon, RunStops, RunMoves, Refuse, Respond, ResponseEnds, CleanupEnds,
         RemoveDirectory, OwnerMoves, jobVars
  <2> QED  BY <2>1, <1>1, <1>2
<1> QED  BY <1>3, <1>4

LEMMA LeaseKeepsResult ==
  ASSUME IInv, NEW k \in Jobs, LeaseNext(k)
  PROVE  \A j \in Jobs : result[j] # "pending" => result'[j] = result[j]
<1>1. UNCHANGED result \/ Fail(k)
  BY DEF LeaseNext, Lease, DeadlinePasses, ExpiryFound, WorkerGivesUp, ReportProgress, jobVars
<1> QED  BY <1>1, FailKeepsResult

LEMMA TransferKeepsResult ==
  ASSUME IInv, NEW t \in Transfers, TransferNext(t)
  PROVE  \A j \in Jobs : result[j] # "pending" => result'[j] = result[j]
<1>1. CASE (\E j \in Jobs : Arrive(t, j)) \/ Start(t) \/ DownloadEnds(t) \/ MetadataFails(t)
           \/ CopyFirst(t) \/ CopySecond(t) \/ CopyFails(t) \/ Closes(t)
  <2>1. UNCHANGED result
    BY <1>1 DEF Arrive, Start, Begin, DownloadEnds, MetadataFails, CopyFirst, CopySecond,
         CopyFails, CopyAborts, Closes, jobVars
  <2> QED  BY <2>1
<1>2. CASE TurnedAway(t) \/ CancelLands(t) \/ BodyFails(t) \/ WorkerUnknown(t) \/ Fails(t)
           \/ Accept(t)
  <2>1. at[t] # "idle"
    <3>1. CASE CancelLands(t)
      <4>1. interrupted[t]
        BY <3>1 DEF CancelLands
      <4> QED  BY <4>1 DEF IInv, TransferShape, Working
    <3> QED  BY <1>2, <3>1 DEF TurnedAway, BodyFails, WorkerUnknown, Fails, Accept, Copied, Goes
  <2>2. PICK k \in Jobs : k = target[t]
    BY <2>1 DEF IInv, TransferShape
  <2>3. \/ Fail(k) \/ Refused(k) \/ UNCHANGED jobVars
        \/ Authorized(k) /\ GivePair(k)
    BY <1>2, <2>2 DEF TurnedAway, CancelLands, BodyFails, WorkerUnknown, Fails, Accept
  <2>4. CASE Authorized(k) /\ GivePair(k)
    <3>1. result[k] = "pending" /\ result \in [Jobs -> {"pending", "failed", "pair"}]
      BY <2>4, GivesSettles DEF IInv, TypeOK
    <3>2. result' = [result EXCEPT ![k] = "pair"]
      BY <2>4 DEF GivePair
    <3> QED  BY <3>1, <3>2
  <2> QED  BY <2>3, <2>4, FailKeepsResult
<1> QED  BY <1>1, <1>2 DEF TransferNext

(* complete never sets a future that is already set, which Python would     *)
(* answer with InvalidStateError: authorized_job stands between.           *)
THEOREM ResultSetOnce == Spec => ResultOnce
<1>1. ASSUME IInv, [Next]_vars, NEW j \in Jobs, result[j] # "pending"
      PROVE  result'[j] = result[j]
  <2>1. CASE UNCHANGED vars
    BY <2>1 DEF vars
  <2>2. CASE Next
    <3>1. CASE \E k \in Jobs : OwnerNext(k) \/ RunNext(k)
      BY <1>1, <3>1, OwnerKeepsResult
    <3>2. CASE \E k \in Jobs : LeaseNext(k)
      BY <1>1, <3>2, LeaseKeepsResult
    <3>3. CASE \E t \in Transfers : TransferNext(t)
      BY <1>1, <3>3, TransferKeepsResult
    <3> QED  BY <2>2, <3>1, <3>2, <3>3 DEF Next
  <2> QED  BY <1>1, <2>1, <2>2
<1>2. IInv /\ [Next]_vars =>
        [\A j \in Jobs : result[j] # "pending" => result'[j] = result[j]]_vars
  BY <1>1
<1> QED  BY <1>2, Inductive, PTL DEF Spec, ResultOnce

LEMMA FollowsAdvances ==
  ASSUME NEW p \in Reports, NEW q \in Reports, Follows(q, p)
  PROVE  Advances(p, q)
<1>1. /\ p.done \in 0..MaxChunks /\ p.total \in 0..MaxChunks
      /\ q.done \in 0..MaxChunks /\ q.total \in 0..MaxChunks
  BY DEF Reports
<1>2. p # NoOne
  BY NoOneAssumption
<1>3. \/ q.track > p.track /\ p.phase = "encoding"
      \/ /\ q.track = p.track /\ q.done >= p.done
         /\ p.total # 0 => q.total = p.total
         /\ Rank(q.phase) >= Rank(p.phase)
  BY <1>2 DEF Follows
<1> QED  BY <1>3 DEF Advances

LEMMA ProgressStep ==
  ASSUME IInv, Next, NEW j \in Jobs, j \in registered, j \in registered',
         progress[j] # NoOne
  PROVE  progress'[j] = progress[j] \/ Advances(progress[j], progress'[j])
<1>0. progress \in [Jobs -> Reports \cup {NoOne}]
  BY DEF IInv, TypeOK
<1>1. CASE UNCHANGED progress
  BY <1>1
<1>2. ASSUME NEW k \in Jobs, OwnerNext(k) \/ RunNext(k)
      PROVE  progress'[j] = progress[j]
  <2>1. CASE RunNext(k)
    BY <2>1 DEF RunNext, OfficialPublishes, Publish, OfficialReturns, OfficialCut, Offer,
         RunFails, ResultTaken, RunMoves
  <2>2. CASE OwnerNext(k)
    <3>1. UNCHANGED progress \/ Cleanup(k)
      BY <2>2 DEF OwnerNext, Admit, EnterService, UploadFails, UploadRead, NotEnqueued, Enqueue,
           RunNoticed, Abandon, RunStops, RunMoves, Refuse, Respond, ResponseEnds, CleanupEnds,
           RemoveDirectory, OwnerMoves
    <3>2. CASE Cleanup(k)
      <4>1. CASE k \in registered
        <5>1. registered' = registered \ {k} /\ progress' = [progress EXCEPT ![k] = NoOne]
          BY <3>2, <4>1 DEF Cleanup, RevokeJob, FailAndFinish
        <5> QED  BY <5>1, <1>0
      <4>2. CASE k \notin registered
        BY <3>2, <4>2 DEF Cleanup, RevokeJob
      <4> QED  BY <4>1, <4>2
    <3> QED  BY <3>1, <3>2
  <2> QED  BY <1>2, <2>1, <2>2
<1>3. ASSUME NEW k \in Jobs, LeaseNext(k)
      PROVE  progress'[j] = progress[j] \/ Advances(progress[j], progress'[j])
  <2>1. CASE ReportProgress(k)
    <3>1. PICK q \in Reports : Follows(q, progress[k]) /\ progress' = [progress EXCEPT ![k] = q]
      BY <2>1 DEF ReportProgress
    <3>2. CASE k = j
      <4>1. progress'[j] = q /\ progress[j] \in Reports /\ Follows(q, progress[j])
        BY <1>0, <3>1, <3>2
      <4> QED  BY <4>1, FollowsAdvances
    <3> QED  BY <1>0, <3>1, <3>2
  <2>2. CASE ~ReportProgress(k)
    BY <1>3, <2>2 DEF LeaseNext, Lease, DeadlinePasses, ExpiryFound, WorkerGivesUp, LeaseStep
  <2> QED  BY <2>1, <2>2
<1>4. ASSUME NEW t \in Transfers, TransferNext(t)
      PROVE  UNCHANGED progress
  BY <1>4 DEF TransferNext, Arrive, Start, Begin, DownloadEnds, MetadataFails, CopyFirst,
       CopySecond, CopyFails, CopyAborts, Closes, TurnedAway, CancelLands, BodyFails,
       WorkerUnknown, Fails, Accept, Copied, Elsewhere
<1> QED  BY <1>1, <1>2, <1>3, <1>4 DEF Next

(* What /v1/queue shows of a volunteer's work never goes back while the    *)
(* job is registered: validate_update compares each report with the last.  *)
THEOREM ProgressOnlyAdvances == Spec => ProgressAdvances
<1>1. ASSUME IInv, [Next]_vars, NEW j \in registered \cap registered', progress[j] # NoOne
      PROVE  progress'[j] = progress[j] \/ Advances(progress[j], progress'[j])
  <2>1. j \in Jobs
    BY <1>1 DEF IInv, TypeOK
  <2>2. CASE UNCHANGED vars
    BY <2>2 DEF vars
  <2> QED  BY <1>1, <2>1, <2>2, ProgressStep
<1>2. IInv /\ [Next]_vars =>
        [\A j \in registered \cap registered' : progress[j] # NoOne =>
           progress'[j] = progress[j] \/ Advances(progress[j], progress'[j])]_vars
  BY <1>1
<1> QED  BY <1>2, Inductive, PTL DEF Spec, ProgressAdvances

=============================================================================
