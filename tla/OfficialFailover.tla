-------------------------- MODULE OfficialFailover --------------------------
(***************************************************************************)
(* How the coordinator spends the time it has for a request                *)
(* (l0_draft_engine/coordinator.py): official_deadline, the attempts of      *)
(* _backend_request and _official_enhancement_request, and the swarm phase   *)
(* behind them, in run_job and wait_for_enhancement.                        *)
(*                                                                         *)
(* Times are in ticks of any length since the request was admitted, and the  *)
(* event loop wakes a coroutine in the tick its timeout is due.  The code    *)
(* divides; here both sides are multiplied.                                *)
(***************************************************************************)
EXTENDS Integers

CONSTANTS
  Backends,        (* the number of backend_urls                            *)
  RequestTimeout,  (* request_timeout_seconds                               *)
  QueueTime,       (* queue_seconds                                         *)
  LeaseTime,       (* lease_seconds                                         *)
  BackendTimeout,  (* backend_timeout_seconds                               *)
  HealthTimeout,   (* the 5 seconds GET /health may take                    *)
  Slack            (* bound on how late a body may come                     *)

ASSUME TimeAssumption ==
  /\ Backends \in Nat /\ HealthTimeout \in Nat /\ Slack \in Nat
  /\ RequestTimeout \in Nat /\ QueueTime \in Nat /\ LeaseTime \in Nat
  /\ BackendTimeout \in Nat
  /\ QueueTime + LeaseTime < RequestTimeout

VARIABLES
  now,         (* time.monotonic()                                          *)
  phase,       (* where the request is                                      *)
  arrived,     (* when its body was there                                   *)
  reserve,     (* twice the reserve that official_deadline computed          *)
  index,       (* of the attempt, from 0                                    *)
  began,       (* when the attempt began                                    *)
  leasedAt     (* when a volunteer took the job                             *)

vars == <<now, phase, arrived, reserve, index, began, leasedAt>>

Phases == {"upload", "official", "health", "attempt", "unoffered", "queued", "leased", "done"}

TypeOK ==
  /\ now \in Nat /\ arrived \in Nat /\ began \in Nat /\ leasedAt \in Nat
  /\ phase \in Phases
  /\ reserve \in Nat
  /\ index \in 0..Backends

Init ==
  /\ now = 0 /\ arrived = 0 /\ began = 0 /\ leasedAt = 0
  /\ phase = "upload"
  /\ reserve = 0
  /\ index = 0

Least(a, b) == IF a =< b THEN a ELSE b
AtLeastZero(a) == IF a < 0 THEN 0 ELSE a

----------------------------------------------------------------------------

(* Mutant: the swarm may have all that remains.                             *)
UncappedReserve(t) ==
  Least(2 * (QueueTime + LeaseTime), 2 * AtLeastZero(RequestTimeout - t))

(* Mutant: the officials have the time until the owner's deadline.          *)
NoReserve(t) == 0

(* official_deadline: the reserve, at most half of what remains; doubled.    *)
Reserve(t) == Least(2 * (QueueTime + LeaseTime), AtLeastZero(RequestTimeout - t))

(* Twice the time from t to the deadline of the officials.                  *)
OfficialTime(t) == 2 * (RequestTimeout - t) - reserve

(* The body is read, for transcribe and draft without any timeout.          *)
Arrive(t) ==
  /\ phase = "upload"
  /\ t \in now..(RequestTimeout + Slack)
  /\ phase' = "official"
  /\ now' = t /\ arrived' = t
  /\ reserve' = Reserve(t)
  /\ UNCHANGED <<index, began, leasedAt>>

(* Mutant: an attempt may use all the time there is.                        *)
InWhole(t) ==
  /\ t - began =< BackendTimeout
  /\ 2 * (t - began) =< OfficialTime(began)

(* An attempt has its share of the time and of nobody else's: the time left  *)
(* at its beginning, divided by the backends still to be tried.             *)
InShare(t) ==
  /\ t - began =< BackendTimeout
  /\ 2 * (t - began) * (Backends - index) =< OfficialTime(began)

(* What is left of the attempt after its health check.                      *)
TimeLeft(t) ==
  /\ t - began < BackendTimeout
  /\ 2 * (t - began) * (Backends - index) < OfficialTime(began)

(* To the next backend, with GET /health first for an enhancement.          *)
Attempt ==
  /\ phase = "official" /\ index < Backends
  /\ OfficialTime(now) > 0
  /\ began' = now
  /\ phase' \in {"health", "attempt"}
  /\ UNCHANGED <<now, arrived, reserve, index, leasedAt>>

(* Mutant: the upload after the health check has a share of its own.         *)
HealthyAnew(t) ==
  /\ phase = "health"
  /\ t \in now..(now + HealthTimeout) /\ TimeLeft(t)
  /\ now' = t /\ began' = t
  /\ phase' = "attempt"
  /\ UNCHANGED <<arrived, reserve, index, leasedAt>>

(* The backend has the model; the upload shares the attempt's deadline.      *)
Healthy(t) ==
  /\ phase = "health"
  /\ t \in now..(now + HealthTimeout) /\ TimeLeft(t)
  /\ now' = t
  /\ phase' = "attempt"
  /\ UNCHANGED <<arrived, reserve, index, began, leasedAt>>

(* A transport error, a timeout, a busy backend, or an invalid result.       *)
NextBackend(t) ==
  /\ \/ phase = "health" /\ t \in now..(now + HealthTimeout)
     \/ phase = "attempt" /\ t \in now..(now + BackendTimeout)
  /\ InShare(t)
  /\ now' = t
  /\ index' = index + 1
  /\ phase' = "official"
  /\ UNCHANGED <<arrived, reserve, began, leasedAt>>

(* A result, or an error that the swarm is not asked about.                 *)
Answer(t) ==
  /\ phase = "attempt"
  /\ t \in now..(now + BackendTimeout) /\ InShare(t)
  /\ now' = t
  /\ phase' = "done"
  /\ UNCHANGED <<arrived, reserve, index, began, leasedAt>>

(* Every backend was tried, or there is no time left for them.              *)
OfficialsOver ==
  /\ phase = "official"
  /\ index = Backends \/ OfficialTime(now) =< 0
  /\ phase' = "unoffered"
  /\ UNCHANGED <<now, arrived, reserve, index, began, leasedAt>>

(* queue_for_swarm, or the answer when no volunteer is idle.                *)
Offer ==
  /\ phase = "unoffered"
  /\ phase' \in {"queued", "done"}
  /\ began' = now
  /\ UNCHANGED <<now, arrived, reserve, index, leasedAt>>

(* Mutant: the owner's deadline does not cut a wait short.                  *)
InTicks(t, since, ticks) == t - since =< ticks

(* What asyncio.wait_for leaves of a timeout of so many ticks, as of then.   *)
InTime(t, since, ticks) ==
  t - since =< Least(ticks, AtLeastZero(RequestTimeout - since))

Leased(t) ==
  /\ phase = "queued" /\ began < RequestTimeout
  /\ t \in now..(now + QueueTime) /\ InTime(t, began, QueueTime)
  /\ now' = t /\ leasedAt' = t
  /\ phase' = "leased"
  /\ UNCHANGED <<arrived, reserve, index, began>>

(* Nobody came, or the volunteer answers, or it does not.                   *)
SwarmOver(t) ==
  /\ \/ phase = "queued" /\ t \in now..(now + QueueTime) /\ InTime(t, began, QueueTime)
     \/ phase = "leased" /\ t \in now..(now + LeaseTime) /\ InTime(t, leasedAt, LeaseTime)
  /\ now' = t
  /\ phase' = "done"
  /\ UNCHANGED <<arrived, reserve, index, began, leasedAt>>

Times == 0..(RequestTimeout + Slack)

Next ==
  \/ \E t \in Times : Arrive(t)
  \/ Attempt
  \/ \E t \in Times : Healthy(t) \/ NextBackend(t) \/ Answer(t)
  \/ OfficialsOver
  \/ Offer
  \/ \E t \in Times : Leased(t) \/ SwarmOver(t)

Spec == Init /\ [][Next]_vars

----------------------------------------------------------------------------
(* Properties.                                                             *)

(* README.md: "Official attempts share the earlier phase so one stalled      *)
(* endpoint cannot consume every fallback opportunity".  Before an attempt,   *)
(* the backends still to be tried have their full part of at least half of   *)
(* the time the request had left, however long the earlier ones stalled.    *)
FairShares ==
  phase = "official" /\ arrived =< RequestTimeout =>
    OfficialTime(now) * Backends >= (Backends - index) * (RequestTimeout - arrived)

(* The officials leave the swarm its reserve, the queue and the lease or     *)
(* half of the time there was, and a reserve that is not cut in half is good *)
(* for a whole lease, even of a volunteer that comes at the last moment.     *)
ReserveKept ==
  arrived =< RequestTimeout =>
    /\ phase = "unoffered" =>
         2 * (RequestTimeout - now) >=
           Least(2 * (QueueTime + LeaseTime), RequestTimeout - arrived)
    /\ phase = "leased" /\ RequestTimeout - arrived >= 2 * (QueueTime + LeaseTime) =>
         RequestTimeout - leasedAt >= LeaseTime

(* Nobody is answered past the deadline, except who was late with the body,  *)
(* and then at once.                                                       *)
DeadlineKept == now > RequestTimeout => now = arrived

=============================================================================
