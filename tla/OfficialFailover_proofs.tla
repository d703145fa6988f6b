----------------------- MODULE OfficialFailover_proofs -----------------------
(***************************************************************************)
(* For any number of backends and any configured times: the shares of the    *)
(* officials are fair, the swarm keeps its reserve and the owner its         *)
(* deadline.  The invariant follows the time that is left from one attempt   *)
(* to the next; what is hard in it is one fact of arithmetic, ShareLeft.      *)
(***************************************************************************)
EXTENDS OfficialFailover, TLAPS

----------------------------------------------------------------------------
(* Arithmetic.                                                             *)

(* Products keep the order of a factor.                                     *)
LEMMA Scale ==
  ASSUME NEW k \in Nat, NEW x \in Int, NEW y \in Int, x >= y
  PROVE  k * x >= k * y
<1>1. k * (x - y) >= 0  BY SMT
<1>2. k * (x - y) = k * x - k * y  BY SMT
<1>3. k * x \in Int /\ k * y \in Int  BY SMT
<1> QED  BY <1>1, <1>2, <1>3, SMT

(* A positive factor can be divided out.                                   *)
LEMMA Unscale ==
  ASSUME NEW k \in Nat, k > 0, NEW x \in Int, NEW y \in Int, k * x >= k * y
  PROVE  x >= y
<1>1. SUFFICES ASSUME x < y PROVE FALSE  BY SMT
<1>2. k * y >= k * (x + 1)  BY <1>1, Scale, y >= x + 1, SMT
<1>3. k * (x + 1) = k * x + k  BY SMT
<1>4. k * x \in Int /\ k * y \in Int  BY SMT
<1> QED  BY <1>2, <1>3, <1>4, SMT

(* An attempt that began with the time o, used the time u within its share   *)
(* of m + 1 backends, leaves the m others their part of d.                  *)
LEMMA ShareLeft ==
  ASSUME NEW m \in Nat, NEW n \in Nat, NEW o \in Int, NEW u \in Int, NEW d \in Int,
         u * (m + 1) =< o,
         o * n >= (m + 1) * d
  PROVE  (o - u) * n >= m * d
<1> DEFINE k == m + 1
<1>1. k \in Nat /\ k > 0  BY SMT
<1>2. k * (o - u) >= m * o
  <2>1. k * (o - u) = k * o - u * k  BY SMT
  <2>2. k * o = m * o + o  BY SMT
  <2>3. k * o \in Int /\ u * k \in Int /\ m * o \in Int  BY SMT
  <2> QED  BY <2>1, <2>2, <2>3, SMT
<1>3. n * (k * (o - u)) >= n * (m * o)
  BY <1>2, Scale, k * (o - u) \in Int, m * o \in Int, SMT
<1>4. m * (o * n) >= m * (k * d)
  BY Scale, o * n \in Int, k * d \in Int, SMT
<1>5. n * (m * o) = m * (o * n)  BY SMT
<1>6. n * (k * (o - u)) = k * ((o - u) * n)  BY SMT
<1>7. m * (k * d) = k * (m * d)  BY SMT
<1>8. (o - u) * n \in Int /\ m * d \in Int  BY SMT
<1> HIDE DEF k
<1>9. k * ((o - u) * n) >= k * (m * d)
  <2>1. /\ k * ((o - u) * n) \in Int /\ k * (m * d) \in Int
        /\ n * (m * o) \in Int
    BY <1>1, <1>8, SMT
  <2> QED  BY <1>3, <1>4, <1>5, <1>6, <1>7, <2>1, SMT
<1> QED  BY <1>1, <1>8, <1>9, Unscale

----------------------------------------------------------------------------
(* The invariant.                                                          *)

Numbers ==
  /\ now \in Nat /\ arrived \in Nat /\ began \in Nat /\ leasedAt \in Nat
  /\ reserve \in Nat
  /\ index \in 0..Backends

(* The reserve is computed once, when the body is there.                    *)
ReserveOfArrival ==
  /\ phase = "upload" => now = 0 /\ arrived = 0 /\ index = 0
  /\ phase # "upload" => reserve = Reserve(arrived)

(* What the time t leaves to the backends not tried before.                 *)
Fair(t) == OfficialTime(t) * Backends >= (Backends - index) * (RequestTimeout - arrived)

(* A body in time: before an attempt, within one, and after the officials.   *)
Officials ==
  arrived =< RequestTimeout =>
    /\ phase = "official" => OfficialTime(now) >= 0 /\ Fair(now)
    /\ phase \in {"health", "attempt"} =>
         /\ index < Backends /\ began =< now
         /\ OfficialTime(began) >= 0 /\ Fair(began) /\ InShare(now)

Swarm ==
  arrived =< RequestTimeout =>
    /\ phase = "unoffered" => OfficialTime(now) >= 0
    /\ phase = "queued" => began = now /\ OfficialTime(now) >= 0
    /\ phase = "leased" => leasedAt = now
    /\ now =< RequestTimeout

(* A body that is late.                                                     *)
Late ==
  arrived > RequestTimeout =>
    /\ now = arrived
    /\ phase \in {"official", "unoffered", "queued", "done"}
    /\ phase = "queued" => began = now

IInv == TypeOK /\ ReserveOfArrival /\ Officials /\ Swarm /\ Late /\ ReserveKept

----------------------------------------------------------------------------

LEMMA ReserveBounds ==
  ASSUME NEW t \in Nat
  PROVE  /\ Reserve(t) \in Nat
         /\ t =< RequestTimeout => Reserve(t) =< RequestTimeout - t
         /\ t > RequestTimeout => Reserve(t) = 0
BY TimeAssumption, SMT DEF Reserve, Least, AtLeastZero

(* Within its share, an attempt leaves time, and the others their part.      *)
LEMMA ShareGives ==
  ASSUME Numbers, index < Backends, arrived =< RequestTimeout, OfficialTime(began) >= 0,
         Fair(began), NEW t \in Nat, began =< t, InShare(t)
  PROVE  /\ OfficialTime(t) >= 0 /\ t =< RequestTimeout
         /\ OfficialTime(t) * Backends
               >= (Backends - (index + 1)) * (RequestTimeout - arrived)
<1> DEFINE m == Backends - (index + 1)
           u == 2 * (t - began)
           o == OfficialTime(began)
           d == RequestTimeout - arrived
<1>1. m \in Nat /\ u \in Nat /\ o \in Int /\ d \in Int /\ Backends \in Nat
  BY TimeAssumption, SMT DEF Numbers, OfficialTime
<1>2. u * (m + 1) =< o
  <2>1. m + 1 = Backends - index  BY TimeAssumption, SMT DEF Numbers
  <2> QED  BY <2>1 DEF InShare
<1>3. o * Backends >= (m + 1) * d
  <2>1. m + 1 = Backends - index  BY TimeAssumption, SMT DEF Numbers
  <2> QED  BY <2>1 DEF Fair
<1>4. OfficialTime(t) = o - u
  BY TimeAssumption, SMT DEF Numbers, OfficialTime
<1>5. u =< o
  <2> HIDE DEF m, u, o
  <2>1. m * u >= 0 /\ m * u \in Int  BY <1>1, SMT
  <2>2. u * (m + 1) = m * u + u  BY <1>1, SMT
  <2> QED  BY <1>1, <1>2, <2>1, <2>2, SMT
<1>6. t =< RequestTimeout
  BY <1>4, <1>5, TimeAssumption, SMT DEF Numbers, OfficialTime
<1>7. (o - u) * Backends >= m * d
  <2> HIDE DEF m, u, o, d
  <2> QED  BY <1>1, <1>2, <1>3, ShareLeft
<1> QED  BY <1>1, <1>4, <1>5, <1>6, <1>7, SMT

----------------------------------------------------------------------------

LEMMA Initially == Init => IInv
BY TimeAssumption, SMT
DEF Init, IInv, TypeOK, ReserveOfArrival, Officials, Swarm, Late, ReserveKept, Phases

LEMMA ArriveStep ==
  ASSUME IInv, NEW t \in Times, Arrive(t)
  PROVE  IInv'
<1>1. /\ phase = "upload" /\ phase' = "official"
      /\ now' = t /\ arrived' = t /\ reserve' = Reserve(t)
      /\ index' = 0 /\ began' = began /\ leasedAt' = leasedAt
      /\ t \in Nat
  BY TimeAssumption, SMT DEF IInv, ReserveOfArrival, Arrive, Times
<1>2. TypeOK'
  BY <1>1, ReserveBounds, TimeAssumption, SMT DEF IInv, TypeOK, Phases
<1>3. ReserveOfArrival'  BY <1>1, SMT DEF ReserveOfArrival, Reserve, Least, AtLeastZero
<1>4. Officials'
  <2> SUFFICES ASSUME t =< RequestTimeout PROVE OfficialTime(t)' >= 0 /\ Fair(t)'
    BY <1>1, SMT DEF Officials
  <2>1. OfficialTime(t)' = 2 * (RequestTimeout - t) - Reserve(t)
    BY <1>1 DEF OfficialTime
  <2>2. /\ RequestTimeout - t \in Nat /\ Reserve(t) \in Nat
        /\ Reserve(t) =< RequestTimeout - t
    BY <1>1, ReserveBounds, TimeAssumption, SMT
  <2>3. /\ OfficialTime(t)' \in Int /\ OfficialTime(t)' >= RequestTimeout - t
        /\ OfficialTime(t)' >= 0
    BY <2>1, <2>2, TimeAssumption, <1>1, SMT
  <2>4. Backends * OfficialTime(t)' >= Backends * (RequestTimeout - t)
    BY <2>2, <2>3, Scale, TimeAssumption
  <2>5. OfficialTime(t)' * Backends >= (Backends - 0) * (RequestTimeout - t)
    BY <2>2, <2>3, <2>4, TimeAssumption, SMT
  <2> QED  BY <1>1, <2>3, <2>5 DEF Fair
<1>5. Swarm'  BY <1>1, SMT DEF Swarm
<1>6. Late'  BY <1>1, SMT DEF Late
<1>7. ReserveKept'  BY <1>1, SMT DEF ReserveKept
<1> QED  BY <1>2, <1>3, <1>4, <1>5, <1>6, <1>7 DEF IInv

LEMMA AttemptStep ==
  ASSUME IInv, Attempt
  PROVE  IInv'
<1>1. /\ phase = "official" /\ phase' \in {"health", "attempt"}
      /\ began' = now /\ index < Backends /\ OfficialTime(now) > 0
      /\ UNCHANGED <<now, arrived, reserve, index, leasedAt>>
  BY DEF Attempt
<1>2. Numbers  BY DEF IInv, TypeOK, Numbers
<1>3. TypeOK'  BY <1>1, SMT DEF IInv, TypeOK, Phases
<1>4. ReserveOfArrival'
  BY <1>1, SMT DEF IInv, ReserveOfArrival, Reserve, Least, AtLeastZero
<1>5. Officials'
  <2> SUFFICES ASSUME arrived =< RequestTimeout
               PROVE  OfficialTime(now)' >= 0 /\ Fair(now)' /\ InShare(now)'
    BY <1>1, <1>2, TimeAssumption, SMT
    DEF Officials, Numbers, OfficialTime, Fair, InShare
  <2>1. OfficialTime(now)' = OfficialTime(now)  BY <1>1 DEF OfficialTime
  <2>2. Fair(now)  BY <1>1 DEF IInv, Officials
  <2>3. Fair(now)'  BY <1>1, <2>1, <2>2 DEF Fair
  <2>4. InShare(now)'
    <3>1. now - now = 0 /\ 2 * 0 = 0 /\ 0 * (Backends - index) = 0
      BY <1>2, TimeAssumption, SMT DEF Numbers
    <3>2. 0 =< BackendTimeout /\ 0 =< OfficialTime(now)
      BY <1>1, <1>2, TimeAssumption, SMT DEF Numbers, OfficialTime
    <3> QED  BY <1>1, <3>1, <3>2 DEF InShare, OfficialTime
  <2>5. OfficialTime(now)' >= 0
    BY <1>1, <1>2, <2>1, TimeAssumption, SMT DEF Numbers, OfficialTime
  <2> QED  BY <2>3, <2>4, <2>5
<1>6. Swarm'  BY <1>1, SMT DEF IInv, Swarm
<1>7. Late'
  <2> SUFFICES ASSUME arrived > RequestTimeout PROVE FALSE  BY <1>1 DEF Late
  <2>1. now = arrived /\ reserve = 0
    BY <1>1, <1>2, ReserveBounds DEF IInv, Late, ReserveOfArrival, Numbers
  <2> QED  BY <1>1, <1>2, <2>1, TimeAssumption, SMT DEF Numbers, OfficialTime
<1>8. ReserveKept'  BY <1>1, SMT DEF ReserveKept
<1> QED  BY <1>3, <1>4, <1>5, <1>6, <1>7, <1>8 DEF IInv

(* A body that is late is never with an official.                           *)
LEMMA InTimeOfOfficials ==
  ASSUME IInv, phase \in {"health", "attempt"}
  PROVE  /\ arrived =< RequestTimeout /\ index < Backends /\ began =< now
         /\ OfficialTime(began) >= 0 /\ Fair(began) /\ Numbers
<1>1. Numbers  BY DEF IInv, TypeOK, Numbers
<1>2. arrived =< RequestTimeout
  BY <1>1, TimeAssumption, SMT DEF IInv, Late, Numbers
<1> QED  BY <1>1, <1>2 DEF IInv, Officials

LEMMA HealthyStep ==
  ASSUME IInv, NEW t \in Times, Healthy(t)
  PROVE  IInv'
<1>1. /\ phase = "health" /\ phase' = "attempt" /\ now' = t /\ TimeLeft(t)
      /\ t >= now /\ t \in Nat
      /\ UNCHANGED <<arrived, reserve, index, began, leasedAt>>
  <2>1. t \in now..(now + HealthTimeout) /\ t \in Nat
    BY TimeAssumption, SMT DEF Healthy, Times
  <2>2. now \in Nat  BY DEF IInv, TypeOK
  <2> QED  BY <2>1, <2>2, TimeAssumption, SMT DEF Healthy
<1>2. /\ arrived =< RequestTimeout /\ index < Backends /\ began =< now
      /\ OfficialTime(began) >= 0 /\ Fair(began) /\ Numbers
  BY <1>1, InTimeOfOfficials
<1>share. InShare(t)
  BY <1>1, <1>2, TimeAssumption, SMT DEF Numbers, TimeLeft, InShare, OfficialTime
<1>3. began =< t  BY <1>1, <1>2, SMT DEF Numbers
<1>4. OfficialTime(t) >= 0 /\ t =< RequestTimeout
  BY <1>1, <1>2, <1>3, <1>share, ShareGives
<1>5. TypeOK'  BY <1>1, SMT DEF IInv, TypeOK, Phases
<1>6. ReserveOfArrival'
  BY <1>1, SMT DEF IInv, ReserveOfArrival, Reserve, Least, AtLeastZero
<1>7. Officials'
  <2>1. OfficialTime(began)' = OfficialTime(began)  BY <1>1 DEF OfficialTime
  <2>2. Fair(began)'  BY <1>1, <1>2, <2>1 DEF Fair
  <2>3. InShare(now)'  BY <1>1, <1>share, <2>1 DEF InShare
  <2> QED  BY <1>1, <1>2, <1>3, <2>1, <2>2, <2>3 DEF Officials
<1>8. Swarm'  BY <1>1, <1>4 DEF Swarm
<1>9. Late'  BY <1>1, <1>2, TimeAssumption, SMT DEF Late, Numbers
<1>10. ReserveKept'  BY <1>1, SMT DEF ReserveKept
<1> QED  BY <1>5, <1>6, <1>7, <1>8, <1>9, <1>10 DEF IInv

LEMMA NextBackendStep ==
  ASSUME IInv, NEW t \in Times, NextBackend(t)
  PROVE  IInv'
<1>1. /\ phase \in {"health", "attempt"} /\ phase' = "official"
      /\ now' = t /\ InShare(t) /\ t >= now /\ t \in Nat /\ index' = index + 1
      /\ UNCHANGED <<arrived, reserve, began, leasedAt>>
  <2>1. now \in Nat /\ t \in Nat
    BY TimeAssumption, SMT DEF IInv, TypeOK, Times
  <2> QED  BY <2>1, TimeAssumption, SMT DEF NextBackend
<1>2. /\ arrived =< RequestTimeout /\ index < Backends /\ began =< now
      /\ OfficialTime(began) >= 0 /\ Fair(began) /\ Numbers
  BY <1>1, InTimeOfOfficials
<1>3. began =< t  BY <1>1, <1>2, SMT DEF Numbers
<1>4. /\ OfficialTime(t) >= 0 /\ t =< RequestTimeout
      /\ OfficialTime(t) * Backends
            >= (Backends - (index + 1)) * (RequestTimeout - arrived)
  BY <1>1, <1>2, <1>3, ShareGives
<1>5. TypeOK'
  BY <1>1, <1>2, TimeAssumption, SMT DEF IInv, TypeOK, Phases
<1>6. ReserveOfArrival'
  BY <1>1, SMT DEF IInv, ReserveOfArrival, Reserve, Least, AtLeastZero
<1>7. Officials'
  <2>1. OfficialTime(t)' = OfficialTime(t)  BY <1>1 DEF OfficialTime
  <2>2. Fair(t)'  BY <1>1, <1>4, <2>1 DEF Fair
  <2> QED  BY <1>1, <1>4, <2>1, <2>2 DEF Officials, Fair, OfficialTime
<1>8. Swarm'  BY <1>1, <1>4 DEF Swarm
<1>9. Late'  BY <1>1, <1>2, TimeAssumption, SMT DEF Late, Numbers
<1>10. ReserveKept'  BY <1>1, SMT DEF ReserveKept
<1> QED  BY <1>5, <1>6, <1>7, <1>8, <1>9, <1>10 DEF IInv

LEMMA AnswerStep ==
  ASSUME IInv, NEW t \in Times, Answer(t)
  PROVE  IInv'
<1>1. /\ phase = "attempt" /\ phase' = "done"
      /\ now' = t /\ InShare(t) /\ t >= now /\ t \in Nat
      /\ UNCHANGED <<arrived, reserve, index, began, leasedAt>>
  <2>1. now \in Nat /\ t \in Nat
    BY TimeAssumption, SMT DEF IInv, TypeOK, Times
  <2> QED  BY <2>1, TimeAssumption, SMT DEF Answer
<1>2. /\ arrived =< RequestTimeout /\ index < Backends /\ began =< now
      /\ OfficialTime(began) >= 0 /\ Fair(began) /\ Numbers
  BY <1>1, InTimeOfOfficials
<1>3. began =< t  BY <1>1, <1>2, SMT DEF Numbers
<1>4. t =< RequestTimeout  BY <1>1, <1>2, <1>3, ShareGives
<1>5. TypeOK'  BY <1>1, SMT DEF IInv, TypeOK, Phases
<1>6. ReserveOfArrival'
  BY <1>1, SMT DEF IInv, ReserveOfArrival, Reserve, Least, AtLeastZero
<1>7. Officials' /\ ReserveKept'  BY <1>1, SMT DEF Officials, ReserveKept
<1>8. Swarm'  BY <1>1, <1>4 DEF Swarm
<1>9. Late'  BY <1>1, <1>2, TimeAssumption, SMT DEF Late, Numbers
<1> QED  BY <1>5, <1>6, <1>7, <1>8, <1>9 DEF IInv

LEMMA OfficialsOverStep ==
  ASSUME IInv, OfficialsOver
  PROVE  IInv'
<1>1. /\ phase = "official" /\ phase' = "unoffered"
      /\ UNCHANGED <<now, arrived, reserve, index, began, leasedAt>>
  BY DEF OfficialsOver
<1>2. TypeOK'  BY <1>1, SMT DEF IInv, TypeOK, Phases
<1>3. ReserveOfArrival'
  BY <1>1, SMT DEF IInv, ReserveOfArrival, Reserve, Least, AtLeastZero
<1>4. OfficialTime(now)' = OfficialTime(now)  BY <1>1 DEF OfficialTime
<1>5. Officials'  BY <1>1, SMT DEF Officials
<1>6. Swarm'  BY <1>1, <1>4 DEF IInv, Swarm, Officials
<1>7. Late'  BY <1>1 DEF IInv, Late
<1>8. ReserveKept'
  <2> SUFFICES ASSUME arrived =< RequestTimeout
               PROVE  2 * (RequestTimeout - now)
                        >= Least(2 * (QueueTime + LeaseTime), RequestTimeout - arrived)
    BY <1>1 DEF ReserveKept
  <2>1. reserve = Reserve(arrived) /\ OfficialTime(now) >= 0
    BY <1>1 DEF IInv, ReserveOfArrival, Officials
  <2> QED  BY <2>1, TimeAssumption, SMT
           DEF IInv, TypeOK, OfficialTime, Reserve, Least, AtLeastZero
<1> QED  BY <1>2, <1>3, <1>5, <1>6, <1>7, <1>8 DEF IInv

LEMMA OfferStep ==
  ASSUME IInv, Offer
  PROVE  IInv'
<1>1. /\ phase = "unoffered" /\ phase' \in {"queued", "done"} /\ began' = now
      /\ UNCHANGED <<now, arrived, reserve, index, leasedAt>>
  BY DEF Offer
<1>2. TypeOK'  BY <1>1, SMT DEF IInv, TypeOK, Phases
<1>3. ReserveOfArrival'
  BY <1>1, SMT DEF IInv, ReserveOfArrival, Reserve, Least, AtLeastZero
<1>4. OfficialTime(now)' = OfficialTime(now)  BY <1>1 DEF OfficialTime
<1>5. Officials' /\ ReserveKept'  BY <1>1, SMT DEF Officials, ReserveKept
<1>6. Swarm'  BY <1>1, <1>4, SMT DEF IInv, Swarm
<1>7. Late'  BY <1>1, SMT DEF IInv, Late
<1> QED  BY <1>2, <1>3, <1>5, <1>6, <1>7 DEF IInv

LEMMA LeasedStep ==
  ASSUME IInv, NEW t \in Times, Leased(t)
  PROVE  IInv'
<1>1. /\ phase = "queued" /\ phase' = "leased" /\ now' = t /\ leasedAt' = t
      /\ began < RequestTimeout /\ InTime(t, began, QueueTime)
      /\ t \in Nat /\ Numbers
      /\ UNCHANGED <<arrived, reserve, index, began>>
  BY TimeAssumption, SMT DEF Leased, Times, IInv, TypeOK, Numbers
<1>2. began = now /\ arrived =< RequestTimeout /\ OfficialTime(began) >= 0
  <2>1. arrived =< RequestTimeout
    BY <1>1, TimeAssumption, SMT DEF IInv, Late, Numbers
  <2> QED  BY <1>1, <2>1 DEF IInv, Swarm
<1>3. t - began =< QueueTime /\ t =< RequestTimeout
  BY <1>1, TimeAssumption, SMT DEF InTime, Least, AtLeastZero, Numbers
<1>4. TypeOK'  BY <1>1, SMT DEF IInv, TypeOK, Phases
<1>5. ReserveOfArrival'
  BY <1>1, SMT DEF IInv, ReserveOfArrival, Reserve, Least, AtLeastZero
<1>6. Officials'  BY <1>1, SMT DEF Officials
<1>7. Swarm'  BY <1>1, <1>3, SMT DEF Swarm
<1>8. Late'  BY <1>1, <1>2, TimeAssumption, SMT DEF Late, Numbers
<1>9. ReserveKept'
  <2> SUFFICES ASSUME RequestTimeout - arrived >= 2 * (QueueTime + LeaseTime)
               PROVE  RequestTimeout - t >= LeaseTime
    BY <1>1, SMT DEF ReserveKept
  <2>1. reserve = Reserve(arrived)  BY <1>1 DEF IInv, ReserveOfArrival
  <2>2. reserve = 2 * (QueueTime + LeaseTime)
    BY <1>1, <2>1, TimeAssumption, SMT DEF Reserve, Least, AtLeastZero, Numbers
  <2> QED  BY <1>1, <1>2, <1>3, <2>2, TimeAssumption, SMT DEF OfficialTime, Numbers
<1> QED  BY <1>4, <1>5, <1>6, <1>7, <1>8, <1>9 DEF IInv

LEMMA SwarmOverStep ==
  ASSUME IInv, NEW t \in Times, SwarmOver(t)
  PROVE  IInv'
<1>1. /\ phase \in {"queued", "leased"} /\ phase' = "done" /\ now' = t
      /\ t \in Nat /\ t >= now /\ Numbers
      /\ UNCHANGED <<arrived, reserve, index, began, leasedAt>>
  <2>1. t \in Nat /\ Numbers
    BY TimeAssumption, SMT DEF Times, IInv, TypeOK, Numbers
  <2> QED  BY <2>1, TimeAssumption, SMT DEF SwarmOver, Numbers
<1>2. TypeOK'  BY <1>1, SMT DEF IInv, TypeOK, Phases
<1>3. ReserveOfArrival'
  BY <1>1, SMT DEF IInv, ReserveOfArrival, Reserve, Least, AtLeastZero
<1>4. Officials' /\ ReserveKept'  BY <1>1, SMT DEF Officials, ReserveKept
<1>5. Swarm'
  <2> SUFFICES ASSUME arrived =< RequestTimeout PROVE t =< RequestTimeout
    BY <1>1, SMT DEF Swarm
  <2>1. PICK since \in Nat, ticks \in Nat :
          since =< RequestTimeout /\ InTime(t, since, ticks)
    <3>1. CASE phase = "queued"
      <4>1. began =< RequestTimeout  BY <3>1 DEF IInv, Swarm
      <4> QED  BY <3>1, <4>1, <1>1, TimeAssumption DEF SwarmOver, Numbers
    <3>2. CASE phase = "leased"
      <4>1. leasedAt =< RequestTimeout  BY <3>2 DEF IInv, Swarm
      <4> QED  BY <3>2, <4>1, <1>1, TimeAssumption DEF SwarmOver, Numbers
    <3> QED  BY <1>1, <3>1, <3>2
  <2> QED  BY <1>1, <2>1, TimeAssumption, SMT DEF InTime, Least, AtLeastZero
<1>6. Late'
  <2> SUFFICES ASSUME arrived > RequestTimeout PROVE t = arrived
    BY <1>1, SMT DEF Late
  <2>1. phase = "queued" /\ began = now /\ now = arrived
    BY <1>1 DEF IInv, Late
  <2>2. InTime(t, began, QueueTime)  BY <2>1 DEF SwarmOver
  <2> QED  BY <1>1, <2>1, <2>2, TimeAssumption, SMT
           DEF InTime, Least, AtLeastZero, Numbers
<1> QED  BY <1>2, <1>3, <1>4, <1>5, <1>6 DEF IInv

----------------------------------------------------------------------------

(* The invariant, and with it TypeOK, holds for all constants.               *)
THEOREM Invariance == Spec => []IInv
<1>1. IInv /\ [Next]_vars => IInv'
  <2> SUFFICES ASSUME IInv, [Next]_vars PROVE IInv'  OBVIOUS
  <2>1. ASSUME NEW t \in Times, Arrive(t) PROVE IInv'  BY <2>1, ArriveStep
  <2>2. CASE Attempt  BY <2>2, AttemptStep
  <2>3. ASSUME NEW t \in Times, Healthy(t) PROVE IInv'  BY <2>3, HealthyStep
  <2>4. ASSUME NEW t \in Times, NextBackend(t) PROVE IInv'  BY <2>4, NextBackendStep
  <2>5. ASSUME NEW t \in Times, Answer(t) PROVE IInv'  BY <2>5, AnswerStep
  <2>6. CASE OfficialsOver  BY <2>6, OfficialsOverStep
  <2>7. CASE Offer  BY <2>7, OfferStep
  <2>8. ASSUME NEW t \in Times, Leased(t) PROVE IInv'  BY <2>8, LeasedStep
  <2>9. ASSUME NEW t \in Times, SwarmOver(t) PROVE IInv'  BY <2>9, SwarmOverStep
  <2>10. CASE UNCHANGED vars
    BY <2>10 DEF vars, IInv, TypeOK, ReserveOfArrival, Reserve, Officials, OfficialTime,
      Fair, InShare, Swarm, Late, ReserveKept
  <2> QED  BY <2>1, <2>2, <2>3, <2>4, <2>5, <2>6, <2>7, <2>8, <2>9, <2>10 DEF Next
<1> QED  BY <1>1, Initially, PTL DEF Spec

(* The time left to an official is shared fairly, for any number of them.    *)
THEOREM FairSharesHold == Spec => []FairShares
<1>1. IInv => FairShares  BY DEF IInv, Officials, Fair, FairShares
<1> QED  BY <1>1, Invariance, PTL

(* The swarm has its reserve, and a whole lease where half is enough.        *)
THEOREM ReserveIsKept == Spec => []ReserveKept
<1>1. IInv => ReserveKept  BY DEF IInv
<1> QED  BY <1>1, Invariance, PTL

(* Nothing of a request outlives its deadline but a late body's refusal.     *)
THEOREM DeadlineIsKept == Spec => []DeadlineKept
<1>1. IInv => DeadlineKept
  <2> SUFFICES ASSUME IInv PROVE DeadlineKept  OBVIOUS
  <2>1. now \in Nat /\ arrived \in Nat  BY DEF IInv, TypeOK
  <2>2. CASE arrived =< RequestTimeout
    BY <2>1, <2>2, TimeAssumption, SMT DEF IInv, Swarm, DeadlineKept
  <2>3. CASE ~(arrived =< RequestTimeout)
    BY <2>1, <2>3, TimeAssumption, SMT DEF IInv, Late, DeadlineKept
  <2> QED  BY <2>2, <2>3
<1> QED  BY <1>1, Invariance, PTL

=============================================================================
