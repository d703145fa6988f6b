------------------------ MODULE TimingFlight_proofs ------------------------
(***************************************************************************)
(* Timing is private, transcribed once and never replaced, for any number   *)
(* of requests, keys and bytes.  The invariant ties the cache and the table  *)
(* of flights to the requests that filled them: a record belongs to its      *)
(* key, a flight to the request that leads it, a waiting request to a flight *)
(* of its own key and input.                                               *)
(*                                                                         *)
(* The directory stays within its limit, its bytes being a sum over its      *)
(* files, and what an upload hands out was stored before.                   *)
(***************************************************************************)
EXTENDS TimingFlight, CollectionLemmas

RecordsOwn == \A k \in DOMAIN files : Key(files[k].by) = k

FlightsLed ==
  \A k \in Keys : flights[k] # Nobody =>
    Key(flights[k]) = k /\ pc[flights[k]] = "leading"

LeadersShape ==
  \A r \in Requests : pc[r] = "leading" =>
    flights[Key(r)] = r /\ Key(r) \notin DOMAIN files

(* No flight has an outcome before its leader is through.                   *)
Fresh == \A r \in Requests : pc[r] # "done" => outcome[r] = "pending"

SameWork(r, q) ==
  Key(q) = Key(r) /\ (r \in Uploads => InputOf[q] = InputOf[r])

WaitersShape ==
  \A r \in Requests : pc[r] = "waiting" =>
    /\ joined[r] \in Requests /\ SameWork(r, joined[r])
    /\ outcome[joined[r]] = "pending" => pc[joined[r]] = "leading"

AnswersOwn == \A r \in Requests : Given(r) => SameWork(r, answer[r])

IInv ==
  /\ TypeOK
  /\ RecordsOwn
  /\ FlightsLed
  /\ LeadersShape
  /\ Fresh
  /\ WaitersShape
  /\ AnswersOwn

----------------------------------------------------------------------------
(* What the methods of the cache do to it.                                 *)

LEMMA KeyType == ASSUME NEW r \in Requests PROVE Key(r) \in Keys
BY DEF Keys

LEMMA EmptyCache == CacheInit => CacheTypeOK /\ DOMAIN files = {}
<1> SUFFICES ASSUME CacheInit PROVE CacheTypeOK /\ DOMAIN files = {}
  OBVIOUS
<1>1. <<>> \in Seq(Keys) /\ Len(<<>>) = 0
  BY EmptySeq
<1>2. DOMAIN <<>> = {}
  BY <1>1, LenProperties
<1>3. ToSet(<<>>) = {} /\ IsInjective(<<>>)
  BY <1>1, <1>2 DEF ToSet, IsInjective
<1> QED  BY <1>1, <1>2, <1>3 DEF CacheInit, CacheTypeOK

(* The records that are left after a step are as they were.                *)
Shrinks ==
  /\ DOMAIN files' \subseteq DOMAIN files
  /\ \A k \in DOMAIN files' : files'[k].by = files[k].by

LEMMA LastUsedFacts ==
  ASSUME CacheTypeOK, NEW k \in Keys
  PROVE  /\ LastUsed(k) \in Seq(Keys) /\ IsInjective(LastUsed(k))
         /\ ToSet(LastUsed(k)) = DOMAIN files \cup {k}
<1> DEFINE t == RemoveFirst(byUse, k)
<1>1. /\ t \in Seq(Keys) /\ ToSet(t) = ToSet(byUse) \ {k} /\ IsInjective(t)
  BY RemoveFirstElement DEF CacheTypeOK
<1> HIDE DEF t
<1>2. /\ Append(t, k) \in Seq(Keys) /\ ToSet(Append(t, k)) = ToSet(t) \cup {k}
      /\ IsInjective(Append(t, k))
  BY <1>1, AppendNew
<1> QED  BY <1>1, <1>2 DEF LastUsed, t, CacheTypeOK

LEMMA NewestIsLast ==
  ASSUME CacheTypeOK, NEW k \in Keys
  PROVE  Len(LastUsed(k)) > 0 /\ LastUsed(k)[Len(LastUsed(k))] = k
<1> DEFINE t == RemoveFirst(byUse, k)
<1>1. t \in Seq(Keys)
  BY RemoveFirstElement DEF CacheTypeOK
<1> HIDE DEF t
<1>2. Len(Append(t, k)) = Len(t) + 1 /\ Append(t, k)[Len(t) + 1] = k /\ Len(t) \in Nat
  BY <1>1, AppendProperties, LenProperties
<1> QED  BY <1>2 DEF LastUsed, t

LEMMA TouchFacts ==
  ASSUME CacheTypeOK, NEW k \in DOMAIN files, Touch(k), UNCHANGED orphans
  PROVE  CacheTypeOK' /\ Shrinks
<1>1. k \in Keys
  BY DEF CacheTypeOK
<1>2. /\ LastUsed(k) \in Seq(Keys) /\ IsInjective(LastUsed(k))
      /\ ToSet(LastUsed(k)) = DOMAIN files \cup {k}
  BY <1>1, LastUsedFacts
<1>3. byUse' = LastUsed(k) /\ files' = files
  BY DEF Touch
<1>4. /\ byUse' \in Seq(Keys) /\ IsInjective(byUse') /\ ToSet(byUse') = DOMAIN files'
  BY <1>2, <1>3
<1> QED  BY <1>3, <1>4 DEF CacheTypeOK, Shrinks

LEMMA ForgetFacts ==
  ASSUME CacheTypeOK, NEW k \in Keys, Forget(k), UNCHANGED orphans
  PROVE  CacheTypeOK' /\ Shrinks /\ (~Held(k) => k \notin DOMAIN files')
<1>1. CASE k \in DOMAIN files /\ ~Held(k)
  <2>1. /\ RemoveFirst(byUse, k) \in Seq(Keys) /\ IsInjective(RemoveFirst(byUse, k))
        /\ ToSet(RemoveFirst(byUse, k)) = ToSet(byUse) \ {k}
    BY RemoveFirstElement DEF CacheTypeOK
  <2>2. byUse' = RemoveFirst(byUse, k) /\ files' = Restrict(files, DOMAIN files \ {k})
    BY <1>1 DEF Forget
  <2>3. DOMAIN files' = DOMAIN files \ {k} /\ \A j \in DOMAIN files' : files'[j] = files[j]
    BY <2>2 DEF Restrict
  <2>4. /\ byUse' \in Seq(Keys) /\ IsInjective(byUse') /\ ToSet(byUse') = DOMAIN files'
    BY <2>1, <2>2, <2>3 DEF CacheTypeOK
  <2> QED  BY <2>3, <2>4 DEF CacheTypeOK, Shrinks
<1>2. CASE ~(k \in DOMAIN files /\ ~Held(k))
  BY <1>2 DEF Forget, CacheTypeOK, Shrinks, Held
<1> QED  BY <1>1, <1>2

LEMMA KeptFacts ==
  ASSUME NEW f, NEW order \in Seq(Keys), IsInjective(order), ToSet(order) = DOMAIN f,
         NEW n \in 0..Len(order)
  PROVE  /\ From(order, n) \in Seq(Keys) /\ IsInjective(From(order, n))
         /\ ToSet(From(order, n)) = DOMAIN Kept(f, order, n)
         /\ DOMAIN Kept(f, order, n) \subseteq DOMAIN f
         /\ \A k \in DOMAIN Kept(f, order, n) : Kept(f, order, n)[k] = f[k]
<1>1. /\ From(order, n) \in Seq(Keys) /\ ToSet(From(order, n)) \subseteq ToSet(order)
      /\ IsInjective(From(order, n))
  BY DropFront DEF From
<1>2. /\ DOMAIN Kept(f, order, n) = ToSet(From(order, n))
      /\ \A k \in ToSet(From(order, n)) : Kept(f, order, n)[k] = f[k]
  BY DEF Kept, Restrict
<1> QED  BY <1>1, <1>2

LEMMA RotateFacts ==
  ASSUME NEW f, NEW order \in Seq(Keys), IsInjective(order), ToSet(order) = DOMAIN f,
         Rotate(f, order)
  PROVE  /\ byUse' \in Seq(Keys) /\ IsInjective(byUse') /\ ToSet(byUse') = DOMAIN files'
         /\ DOMAIN files' \subseteq DOMAIN f
         /\ \A k \in DOMAIN files' : files'[k] = f[k]
<1>1. PICK n \in 0..Len(order) : byUse' = From(order, n) /\ files' = Kept(f, order, n)
  BY DEF Rotate
<1>2. /\ From(order, n) \in Seq(Keys) /\ IsInjective(From(order, n))
      /\ ToSet(From(order, n)) = DOMAIN Kept(f, order, n)
      /\ DOMAIN Kept(f, order, n) \subseteq DOMAIN f
      /\ \A k \in DOMAIN Kept(f, order, n) : Kept(f, order, n)[k] = f[k]
  BY KeptFacts
<1> QED  BY <1>1, <1>2

(* The records of a directory, as far as the type is concerned.             *)
Directory(f) == DOMAIN f \subseteq Keys /\ \A k \in DOMAIN f : f[k] \in Record

LEMMA ReplacedFacts ==
  ASSUME CacheTypeOK, NEW r \in Requests, NEW labelled \in BOOLEAN
  PROVE  /\ Directory(Replaced(r, labelled))
         /\ DOMAIN Replaced(r, labelled) = DOMAIN files \cup {Key(r)}
         /\ Replaced(r, labelled)[Key(r)].by = r
         /\ \A k \in DOMAIN files \ {Key(r)} : Replaced(r, labelled)[k] = files[k]
BY KeyType DEF CacheTypeOK, Directory, Replaced, Record

LEMMA AgedFacts ==
  ASSUME NEW f, Directory(f), NEW deployed \in BOOLEAN
  PROVE  /\ Directory(Aged(f, deployed)) /\ DOMAIN Aged(f, deployed) = DOMAIN f
         /\ \A k \in DOMAIN f : Aged(f, deployed)[k].by = f[k].by
BY DEF Aged, Directory, Record

(* A rotation after which there are no new files.                          *)
LEMMA RestartFacts ==
  ASSUME CacheTypeOK, NEW deployed \in BOOLEAN, Rotate(Aged(files, deployed), byUse),
         orphans' \subseteq Requests
  PROVE  CacheTypeOK' /\ Shrinks
<1>1. Directory(files)
  BY DEF CacheTypeOK, Directory
<1>2. PICK f : f = Aged(files, deployed)
  OBVIOUS
<1>3. /\ Directory(f) /\ DOMAIN f = DOMAIN files
      /\ \A k \in DOMAIN f : f[k].by = files[k].by
  BY <1>1, <1>2, AgedFacts
<1>4. /\ byUse' \in Seq(Keys) /\ IsInjective(byUse') /\ ToSet(byUse') = DOMAIN files'
      /\ DOMAIN files' \subseteq DOMAIN f
      /\ \A k \in DOMAIN files' : files'[k] = f[k]
  BY <1>2, <1>3, RotateFacts DEF CacheTypeOK
<1> QED  BY <1>3, <1>4 DEF CacheTypeOK, Shrinks, Directory

(* A put: one record may be new, and it is the request's own.               *)
Adds(r) ==
  /\ DOMAIN files' \subseteq DOMAIN files \cup {Key(r)}
  /\ \A k \in DOMAIN files' : files'[k].by = IF k = Key(r) THEN r ELSE files[k].by

LEMMA PutFacts ==
  ASSUME CacheTypeOK, NEW r \in Requests, NEW labelled \in BOOLEAN, NEW f,
         Directory(f), DOMAIN f = DOMAIN files \cup {Key(r)},
         \A k \in DOMAIN f : f[k].by = Replaced(r, labelled)[k].by,
         Rotate(f, LastUsed(Key(r))), orphans' = orphans
  PROVE  CacheTypeOK' /\ Adds(r)
<1>0. Key(r) \in Keys
  BY KeyType
<1>1. PICK order : order = LastUsed(Key(r))
  OBVIOUS
<1>2. order \in Seq(Keys) /\ IsInjective(order) /\ ToSet(order) = DOMAIN f
  BY <1>0, <1>1, LastUsedFacts
<1>3. Rotate(f, order)
  BY <1>1
<1>4. /\ byUse' \in Seq(Keys) /\ IsInjective(byUse') /\ ToSet(byUse') = DOMAIN files'
      /\ DOMAIN files' \subseteq DOMAIN f
      /\ \A k \in DOMAIN files' : files'[k] = f[k]
  BY <1>2, <1>3, RotateFacts
<1>5. /\ Replaced(r, labelled)[Key(r)].by = r
      /\ \A k \in DOMAIN files \ {Key(r)} : Replaced(r, labelled)[k] = files[k]
  BY ReplacedFacts
<1>6. \A k \in DOMAIN f : f[k].by = IF k = Key(r) THEN r ELSE files[k].by
  BY <1>5
<1> QED  BY <1>4, <1>6 DEF CacheTypeOK, Adds, Directory

----------------------------------------------------------------------------
(* The bytes of a directory.                                               *)

Sizes(f) == [k \in DOMAIN f |-> SizeOf[f[k].by]]

LEMMA KeysFinite == IsFiniteSet(Keys)
<1> DEFINE key == [r \in Requests |-> Key(r)]
<1>1. key \in Surjection(Requests, Keys)
  BY DEF Keys, Surjection
<1> HIDE DEF key
<1> QED  BY <1>1, CacheAssumption, FS_Surjection

LEMMA BytesAreSums ==
  ASSUME NEW f, Directory(f)
  PROVE  /\ IsFiniteSet(DOMAIN f)
         /\ \A k \in DOMAIN f : Sizes(f)[k] = SizeOf[f[k].by] /\ Sizes(f)[k] \in Nat
         /\ Bytes(f) = SumFunctionOnSet(Sizes(f), DOMAIN f)
         /\ Bytes(f) \in Nat
<1>1. IsFiniteSet(DOMAIN f)
  BY KeysFinite, FS_Subset DEF Directory
<1>2. \A k \in DOMAIN f : Sizes(f)[k] = SizeOf[f[k].by] /\ Sizes(f)[k] \in Nat
  BY CacheAssumption DEF Sizes, Directory, Record
<1>3. Bytes(f) = SumFunctionOnSet(Sizes(f), DOMAIN Sizes(f))
  BY DEF Bytes, SumFunction, Sizes
<1>4. DOMAIN Sizes(f) = DOMAIN f
  BY DEF Sizes
<1> QED  BY <1>1, <1>2, <1>3, <1>4, SumType

(* Fewer records take fewer bytes, ...                                     *)
LEMMA BytesOfPart ==
  ASSUME NEW f, NEW g, Directory(f), Directory(g), DOMAIN g \subseteq DOMAIN f,
         \A k \in DOMAIN g : g[k].by = f[k].by
  PROVE  Bytes(g) <= Bytes(f)
<1>1. \A k \in DOMAIN g : Sizes(g)[k] = Sizes(f)[k]
  BY BytesAreSums
<1>2. SumFunctionOnSet(Sizes(g), DOMAIN g) = SumFunctionOnSet(Sizes(f), DOMAIN g)
  BY <1>1, BytesAreSums, SumCongruent
<1>3. SumFunctionOnSet(Sizes(f), DOMAIN g) <= SumFunctionOnSet(Sizes(f), DOMAIN f)
  BY BytesAreSums, SumOfPart
<1> QED  BY <1>2, <1>3, BytesAreSums

(* ... none takes none, ...                                                *)
LEMMA BytesOfNone ==
  ASSUME NEW f, Directory(f), DOMAIN f = {}
  PROVE  Bytes(f) = 0
BY BytesAreSums, SumEquation

(* ... and one its own.                                                    *)
LEMMA BytesOfOne ==
  ASSUME NEW f, Directory(f), NEW k, DOMAIN f = {k}
  PROVE  Bytes(f) = SizeOf[f[k].by]
<1>1. SumFunctionOnSet(Sizes(f), {k}) = Sizes(f)[k] + SumFunctionOnSet(Sizes(f), {k} \ {k})
  BY BytesAreSums, SumRemove
<1>2. SumFunctionOnSet(Sizes(f), {k} \ {k}) = 0
  BY FS_EmptySet, SumEquation
<1> QED  BY <1>1, <1>2, BytesAreSums

(* Nothing is left when all is dropped, ...                                 *)
LEMMA DropAll ==
  ASSUME NEW order \in Seq(Keys)
  PROVE  ToSet(From(order, Len(order))) = {}
BY LenProperties, SubSeqProperties DEF From, ToSet

(* ... and the last entry before that.                                      *)
LEMMA DropToLast ==
  ASSUME NEW order \in Seq(Keys), Len(order) > 0, NEW n \in 0..Len(order)
  PROVE  /\ ToSet(From(order, Len(order) - 1)) = {order[Len(order)]}
         /\ n <= Len(order) - 1 => order[Len(order)] \in ToSet(From(order, n))
<1>1. Len(order) \in Nat /\ \A i \in 1..Len(order) : order[i] \in Keys
  BY LenProperties, ElementOfSeq
<1>2. ASSUME NEW m \in 0..(Len(order) - 1)
      PROVE  /\ DOMAIN From(order, m) = 1..(Len(order) - m)
             /\ \A i \in 1..(Len(order) - m) : From(order, m)[i] = order[m + i]
  BY <1>1
     DEF From
<1> QED  BY <1>1, <1>2 DEF ToSet

(* What a rotation leaves fits, ...                                        *)
LEMMA RotateFits ==
  ASSUME NEW f, Directory(f), NEW order \in Seq(Keys), IsInjective(order),
         ToSet(order) = DOMAIN f, Rotate(f, order)
  PROVE  DiskBounded'
<1>1. PICK n \in 0..Len(order) :
        /\ Bytes(Kept(f, order, n)) =< MaxBytes \/ n = Len(order)
        /\ files' = Kept(f, order, n)
  BY DEF Rotate
<1>2. Directory(Kept(f, order, n)) /\ DOMAIN Kept(f, order, n) = ToSet(From(order, n))
  BY KeptFacts DEF Directory
<1>3. CASE n = Len(order)
  <2>1. ToSet(From(order, n)) = {}
    BY <1>3, DropAll
  <2>2. Bytes(Kept(f, order, n)) = 0
    BY <1>2, <2>1, BytesOfNone
  <2> QED  BY <1>1, <2>2, CacheAssumption DEF DiskBounded, Bytes
<1> QED  BY <1>1, <1>3 DEF DiskBounded, Bytes

(* ... and keeps the newest record if that fits.                            *)
LEMMA RotateKeepsNewest ==
  ASSUME NEW f, Directory(f), NEW order \in Seq(Keys), IsInjective(order),
         ToSet(order) = DOMAIN f, Rotate(f, order),
         Len(order) > 0, SizeOf[f[order[Len(order)]].by] =< MaxBytes
  PROVE  order[Len(order)] \in DOMAIN files'
<1> DEFINE m == Len(order) - 1
<1>1. PICK n \in 0..Len(order) :
        /\ \A i \in 0..(n - 1) : Bytes(Kept(f, order, i)) > MaxBytes
        /\ files' = Kept(f, order, n)
  BY DEF Rotate
<1>2. Len(order) \in Nat /\ m \in 0..Len(order)
  BY LenProperties
<1>3. /\ ToSet(From(order, m)) = {order[Len(order)]}
      /\ n <= m => order[Len(order)] \in ToSet(From(order, n))
  BY <1>2, DropToLast
<1>4. n <= m
  <2>1. SUFFICES ASSUME n > m PROVE FALSE
    BY <1>2
  <2>2. m \in 0..(n - 1)
    BY <1>2, <2>1
  <2>3. /\ Directory(Kept(f, order, m))
        /\ DOMAIN Kept(f, order, m) = {order[Len(order)]}
        /\ Kept(f, order, m)[order[Len(order)]] = f[order[Len(order)]]
    <3> HIDE DEF m
    <3>1. DOMAIN Kept(f, order, m) = {order[Len(order)]}
      BY <1>2, <1>3 DEF Kept, Restrict
    <3>2. /\ DOMAIN Kept(f, order, m) \subseteq DOMAIN f
          /\ \A k \in DOMAIN Kept(f, order, m) : Kept(f, order, m)[k] = f[k]
      BY <1>2, KeptFacts
    <3> QED  BY <3>1, <3>2 DEF Directory
  <2>4. Bytes(Kept(f, order, m)) = SizeOf[f[order[Len(order)]].by]
    BY <2>3, BytesOfOne
  <2>5. Bytes(Kept(f, order, m)) \in Nat
    BY <2>3, BytesAreSums
  <2> QED  BY <1>1, <2>2, <2>4, <2>5, CacheAssumption
<1> QED  BY <1>1, <1>3, <1>4, KeptFacts

----------------------------------------------------------------------------
(* The steps.                                                              *)

LEMMA InitIInv == Init => IInv
<1> SUFFICES ASSUME Init PROVE IInv
  OBVIOUS
<1>1. CacheTypeOK /\ DOMAIN files = {}
  BY EmptyCache DEF Init
<1>2. TypeOK
  BY <1>1 DEF Init, TypeOK, Places, Refusals
<1>3. RecordsOwn /\ FlightsLed /\ LeadersShape /\ Fresh /\ WaitersShape
  BY <1>1 DEF Init, RecordsOwn, FlightsLed, LeadersShape, Fresh, WaitersShape
<1>4. \A r \in Requests : answer[r] = "none"
  BY DEF Init
<1>5. AnswersOwn
  BY <1>4, FlightAssumption DEF AnswersOwn, Given, Refusals
<1> QED  BY <1>2, <1>3, <1>5 DEF IInv

(* How the cache's part of the invariant follows from what a step does to it. *)
LEMMA ShrinksOwn ==
  ASSUME RecordsOwn, Shrinks
  PROVE  RecordsOwn'
<1>1. \A k \in DOMAIN files' : Key(files'[k].by) = k
  BY DEF RecordsOwn, Shrinks
<1> QED  BY <1>1 DEF RecordsOwn, Key

(* A step that moves one request to its answer, and touches no flight.       *)
LEMMA AnswerStep ==
  ASSUME IInv, CacheTypeOK', Shrinks, NEW r \in Requests, NEW from \in Places \ {"leading"},
         NEW a \in Requests \cup Refusals, Reply(r, from, a),
         a \in Requests => SameWork(r, a),
         UNCHANGED <<flights, outcome, joined, strict>>
  PROVE  IInv'
<1> USE DEF Reply, Goto
<1>0. TypeOK /\ pc[r] = from
  BY DEF IInv
<1>1. TypeOK'
  BY <1>0 DEF TypeOK, Places
<1>2. RecordsOwn'
  BY ShrinksOwn DEF IInv
<1>3. FlightsLed'
  BY <1>0 DEF IInv, FlightsLed, TypeOK, Key
<1>4. LeadersShape'
  BY <1>0 DEF IInv, LeadersShape, TypeOK, Key, Shrinks
<1>5. WaitersShape'
  BY <1>0 DEF IInv, WaitersShape, TypeOK, Key, SameWork
<1>6. AnswersOwn'
  BY <1>0 DEF IInv, AnswersOwn, Given, TypeOK, Key, SameWork
<1>7. Fresh'
  BY <1>0 DEF IInv, Fresh, TypeOK
<1> QED  BY <1>1, <1>2, <1>3, <1>4, <1>5, <1>6, <1>7 DEF IInv

(* A step that lets a request wait for the flight of its key.               *)
LEMMA WaitStep ==
  ASSUME IInv, CacheTypeOK', Shrinks, NEW r \in Requests, NEW from \in {"idle", "uploading"},
         Goto(r, from, "waiting"), Underway(r), r \in Uploads => SameInput(r),
         joined' = [joined EXCEPT ![r] = flights[Key(r)]],
         UNCHANGED <<flights, outcome, answer, strict>>
  PROVE  IInv'
<1> USE DEF Goto
<1>0. TypeOK /\ pc[r] = from /\ Key(r) \in Keys
  BY KeyType DEF IInv
<1>1. PICK q : q = flights[Key(r)]
  OBVIOUS
<1>2. /\ q \in Requests /\ Key(q) = Key(r) /\ pc[q] = "leading"
      /\ r \in Uploads => InputOf[q] = InputOf[r]
  BY <1>0, <1>1 DEF IInv, FlightsLed, TypeOK, Underway, SameInput
<1>3. TypeOK'
  BY <1>0, <1>1, <1>2 DEF TypeOK, Places
<1>4. RecordsOwn'
  BY ShrinksOwn DEF IInv
<1>5. FlightsLed'
  BY <1>0 DEF IInv, FlightsLed, TypeOK, Key
<1>6. LeadersShape'
  BY <1>0 DEF IInv, LeadersShape, TypeOK, Key, Shrinks
<1>7. WaitersShape'
  <2>1. SUFFICES ASSUME NEW w \in Requests, pc'[w] = "waiting"
                 PROVE  /\ joined'[w] \in Requests /\ SameWork(w, joined'[w])
                        /\ outcome'[joined'[w]] = "pending" => pc'[joined'[w]] = "leading"
    BY DEF WaitersShape, SameWork, Key
  <2>2. CASE w = r
    <3>1. joined'[w] = q /\ pc'[q] = "leading"
      BY <1>0, <1>1, <1>2, <2>2 DEF TypeOK
    <3> QED  BY <1>2, <2>2, <3>1 DEF SameWork
  <2>3. CASE w # r
    <3>1. joined'[w] = joined[w] /\ pc[w] = "waiting"
      BY <1>0, <2>1, <2>3 DEF TypeOK
    <3>2. /\ joined[w] \in Requests /\ SameWork(w, joined[w])
          /\ outcome[joined[w]] = "pending" => pc[joined[w]] = "leading"
      BY <3>1 DEF IInv, WaitersShape
    <3> QED  BY <1>0, <3>1, <3>2 DEF TypeOK
  <2> QED  BY <2>2, <2>3
<1>8. AnswersOwn'
  BY <1>0 DEF IInv, AnswersOwn, Given, TypeOK, Key, SameWork
<1>9. Fresh'
  BY <1>0 DEF IInv, Fresh, TypeOK
<1> QED  BY <1>3, <1>4, <1>5, <1>6, <1>7, <1>8, <1>9 DEF IInv

(* A leader's end.                                                         *)
LEMMA SettleStep ==
  ASSUME IInv, CacheTypeOK', NEW r \in Requests, NEW how \in {"failed", "timed"},
         NEW a \in {r, "failed"}, Reply(r, "leading", a), Settle(r, how),
         Shrinks \/ Adds(r), UNCHANGED <<joined, strict>>
  PROVE  IInv'
<1> USE DEF Reply, Goto
<1>0. TypeOK /\ pc[r] = "leading" /\ Key(r) \in Keys
  BY KeyType DEF IInv
<1>a. /\ flights[Key(r)] = r /\ Key(r) \notin DOMAIN files /\ outcome[r] = "pending"
  BY <1>0 DEF IInv, LeadersShape, Fresh
<1>b. /\ outcome' = [outcome EXCEPT ![r] = how]
      /\ flights' = [flights EXCEPT ![Key(r)] = Nobody]
  BY <1>a DEF Settle
<1>1. TypeOK'
  BY <1>0, <1>b DEF TypeOK, Places, Refusals
<1>2. RecordsOwn'
  <2>1. CASE Shrinks
    BY <2>1, ShrinksOwn DEF IInv
  <2>2. CASE Adds(r)
    <3>1. \A k \in DOMAIN files' : Key(files'[k].by) = k
      BY <2>2 DEF Adds, IInv, RecordsOwn
    <3> QED  BY <3>1 DEF RecordsOwn, Key
  <2> QED  BY <2>1, <2>2
<1>3. FlightsLed'
  BY <1>0, <1>a, <1>b DEF IInv, FlightsLed, TypeOK, Key
<1>4. LeadersShape'
  <2>1. SUFFICES ASSUME NEW q \in Requests, pc'[q] = "leading"
                 PROVE  flights'[Key(q)] = q /\ Key(q) \notin DOMAIN files'
    BY DEF LeadersShape, Key
  <2>2. q # r /\ pc[q] = "leading"
    BY <1>0, <2>1 DEF TypeOK
  <2>3. flights[Key(q)] = q /\ Key(q) \notin DOMAIN files /\ Key(q) \in Keys
    BY <2>2, KeyType DEF IInv, LeadersShape
  <2>4. Key(q) # Key(r)
    BY <2>2, <2>3, <1>a
  <2> QED  BY <1>0, <1>b, <2>2, <2>3, <2>4 DEF TypeOK, Shrinks, Adds
<1>5. WaitersShape'
  BY <1>0, <1>b DEF IInv, WaitersShape, TypeOK, Key, SameWork
<1>6. AnswersOwn'
  BY <1>0, FlightAssumption DEF IInv, AnswersOwn, Given, TypeOK, Key, SameWork, Refusals
<1>7. Fresh'
  BY <1>0, <1>b DEF IInv, Fresh, TypeOK
<1> QED  BY <1>1, <1>2, <1>3, <1>4, <1>5, <1>6, <1>7 DEF IInv

LEMMA SameCache == ASSUME CacheTypeOK, UNCHANGED cacheVars PROVE CacheTypeOK' /\ Shrinks
BY DEF CacheTypeOK, cacheVars, Shrinks

LEMMA UploadStep ==
  ASSUME IInv, NEW r \in Requests, Upload(r)
  PROVE  IInv'
<1> USE DEF Upload, Goto
<1>0. TypeOK /\ pc[r] = "idle" /\ CacheTypeOK' /\ Shrinks
  BY SameCache DEF IInv, TypeOK
<1>1. TypeOK'
  BY <1>0 DEF TypeOK, Places
<1>2. RecordsOwn'
  BY <1>0, ShrinksOwn DEF IInv
<1>3. FlightsLed'
  BY <1>0 DEF IInv, FlightsLed, TypeOK, Key
<1>4. LeadersShape'
  BY <1>0 DEF IInv, LeadersShape, TypeOK, Key, Shrinks
<1>5. WaitersShape'
  BY <1>0 DEF IInv, WaitersShape, TypeOK, Key, SameWork
<1>6. AnswersOwn'
  BY <1>0 DEF IInv, AnswersOwn, Given, TypeOK, Key, SameWork
<1>7. Fresh'
  BY <1>0 DEF IInv, Fresh, TypeOK
<1> QED  BY <1>1, <1>2, <1>3, <1>4, <1>5, <1>6, <1>7 DEF IInv

LEMMA LeadStep ==
  ASSUME IInv, NEW r \in Requests, Lead(r)
  PROVE  IInv'
<1> USE DEF Lead, Goto
<1>0. TypeOK /\ pc[r] = "uploading" /\ Key(r) \in Keys
  BY KeyType DEF IInv
<1>1. CacheTypeOK' /\ Shrinks /\ Key(r) \notin DOMAIN files'
  BY <1>0, ForgetFacts DEF TypeOK
<1>2. TypeOK'
  BY <1>0, <1>1 DEF TypeOK, Places
<1>3. RecordsOwn'
  BY <1>1, ShrinksOwn DEF IInv
<1>4. FlightsLed'
  BY <1>0 DEF IInv, FlightsLed, TypeOK, Key
<1>5. LeadersShape'
  <2>1. SUFFICES ASSUME NEW q \in Requests, pc'[q] = "leading"
                 PROVE  flights'[Key(q)] = q /\ Key(q) \notin DOMAIN files'
    BY DEF LeadersShape, Key
  <2>2. CASE q = r
    BY <1>0, <1>1, <2>2 DEF TypeOK
  <2>3. CASE q # r
    <3>1. pc[q] = "leading"
      BY <1>0, <2>1, <2>3 DEF TypeOK
    <3>2. flights[Key(q)] = q /\ Key(q) \notin DOMAIN files /\ Key(q) \in Keys
      BY <3>1, KeyType DEF IInv, LeadersShape
    <3>3. Key(q) # Key(r)
      BY <3>2, FlightAssumption DEF Underway
    <3> QED  BY <1>0, <1>1, <3>2, <3>3 DEF TypeOK, Shrinks
  <2> QED  BY <2>2, <2>3
<1>6. WaitersShape'
  BY <1>0 DEF IInv, WaitersShape, TypeOK, Key, SameWork
<1>7. AnswersOwn'
  BY <1>0 DEF IInv, AnswersOwn, Given, TypeOK, Key, SameWork
<1>8. Fresh'
  BY <1>0 DEF IInv, Fresh, TypeOK
<1> QED  BY <1>2, <1>3, <1>4, <1>5, <1>6, <1>7, <1>8 DEF IInv

(* A restart finds the records of before, or one more of a leader's, ...     *)
LEMMA RestartCache ==
  ASSUME TypeOK, RecordsOwn, LeadersShape, Restart
  PROVE  /\ CacheTypeOK' /\ RecordsOwn'
         /\ \A k \in DOMAIN files \cap DOMAIN files' : files'[k].by = files[k].by
<1> DEFINE Same == \A k \in DOMAIN files \cap DOMAIN files' : files'[k].by = files[k].by
<1>1. PICK deployed \in BOOLEAN :
        \/ Rotate(Aged(files, deployed), byUse) /\ orphans' \subseteq Requests
        \/ \E r \in Requests, labelled \in BOOLEAN :
             /\ pc[r] = "leading"
             /\ Rotate(Aged(Replaced(r, labelled), deployed), LastUsed(Key(r)))
             /\ orphans' = orphans
  BY DEF Restart, TypeOK, CacheTypeOK
<1>2. CASE Rotate(Aged(files, deployed), byUse) /\ orphans' \subseteq Requests
  <2>1. CacheTypeOK' /\ Shrinks
    BY <1>2, RestartFacts DEF TypeOK
  <2> QED  BY <2>1, ShrinksOwn DEF Shrinks
<1>3. ASSUME NEW r \in Requests, NEW labelled \in BOOLEAN, pc[r] = "leading",
             Rotate(Aged(Replaced(r, labelled), deployed), LastUsed(Key(r))),
             orphans' = orphans
      PROVE  CacheTypeOK' /\ RecordsOwn' /\ Same
  <2>1. PICK g : g = Replaced(r, labelled)
    OBVIOUS
  <2>2. Directory(g) /\ DOMAIN g = DOMAIN files \cup {Key(r)}
    BY <2>1, ReplacedFacts DEF TypeOK
  <2>3. PICK f : f = Aged(g, deployed)
    OBVIOUS
  <2>4. Directory(f) /\ DOMAIN f = DOMAIN g /\ \A k \in DOMAIN g : f[k].by = g[k].by
    BY <2>2, <2>3, AgedFacts
  <2>5. Rotate(f, LastUsed(Key(r)))
    BY <1>3, <2>1, <2>3
  <2>6. \A k \in DOMAIN f : f[k].by = Replaced(r, labelled)[k].by
    BY <2>1, <2>4
  <2>7. CacheTypeOK' /\ Adds(r)
    BY <1>3, <2>2, <2>4, <2>5, <2>6, PutFacts DEF TypeOK
  <2>8. \A k \in DOMAIN files' : Key(files'[k].by) = k
    BY <2>7 DEF Adds, RecordsOwn
  <2>9. Key(r) \notin DOMAIN files
    BY <1>3 DEF LeadersShape
  <2> QED  BY <2>7, <2>8, <2>9 DEF RecordsOwn, Key, Adds
<1> QED  BY <1>1, <1>2, <1>3

(* ... and forgets whatever was about the requests of before.               *)
LEMMA RestartStep ==
  ASSUME IInv, Restart
  PROVE  IInv'
<1>0. TypeOK
  BY DEF IInv
<1>1. CacheTypeOK' /\ RecordsOwn'
  BY RestartCache DEF IInv
<1>2. \A r \in Requests : pc'[r] \in {"idle", "done"}
  BY DEF Restart
<1>3. TypeOK'
  BY <1>0, <1>1 DEF Restart, TypeOK, Places
<1>4. FlightsLed' /\ LeadersShape' /\ WaitersShape'
  BY <1>2 DEF Restart, FlightsLed, LeadersShape, WaitersShape
<1>6. Fresh'
  BY <1>0 DEF Restart, IInv, Fresh, TypeOK
<1>5. AnswersOwn'
  BY DEF Restart, IInv, AnswersOwn, Given, SameWork, Key
<1> QED  BY <1>1, <1>3, <1>4, <1>5, <1>6 DEF IInv

(* Steps that store nothing.                                               *)
Quiet(r) ==
  \/ Upload(r) \/ Reject(r)
  \/ Reuse(r) \/ Conflict(r) \/ Join(r) \/ Lead(r)
  \/ Fail(r)
  \/ FindCached(r) \/ FindNothing(r) \/ FindFlight(r)
  \/ Wake(r) \/ GiveUp(r)

LEMMA QuietCache ==
  ASSUME TypeOK, NEW r \in Requests, Quiet(r)
  PROVE  CacheTypeOK' /\ Shrinks
<1>0. CacheTypeOK /\ Key(r) \in Keys
  BY KeyType DEF TypeOK
<1>1. CASE Upload(r) \/ Reject(r) \/ Fail(r) \/ Wake(r) \/ GiveUp(r)
  BY <1>0, <1>1, SameCache DEF Upload, Reject, Fail, Wake, GiveUp
<1>2. CASE Reuse(r) \/ FindCached(r)
  <2>1. Key(r) \in DOMAIN files /\ Touch(Key(r)) /\ UNCHANGED orphans
    BY <1>2 DEF Reuse, FindCached, HeldFor, Usable, Held
  <2> QED  BY <1>0, <2>1, TouchFacts
<1>3. CASE Conflict(r) \/ Join(r) \/ Lead(r) \/ FindFlight(r)
  BY <1>0, <1>3, ForgetFacts DEF Conflict, Join, Lead, FindFlight
<1>4. CASE FindNothing(r)
  <2>1. UNCHANGED orphans /\ ((Key(r) \in DOMAIN files /\ Touch(Key(r))) \/ Forget(Key(r)))
    BY <1>4 DEF FindNothing, Held
  <2> QED  BY <1>0, <2>1, TouchFacts, ForgetFacts
<1> QED  BY <1>1, <1>2, <1>3, <1>4 DEF Quiet

LEMMA SucceedCache ==
  ASSUME TypeOK, NEW r \in Requests, Succeed(r)
  PROVE  CacheTypeOK' /\ Adds(r)
<1>0. CacheTypeOK
  BY DEF TypeOK
<1>1. PICK labelled \in BOOLEAN : Put(r, labelled)
  BY DEF Succeed
<1>2. PICK f : f = Replaced(r, labelled)
  OBVIOUS
<1>3. Directory(f) /\ DOMAIN f = DOMAIN files \cup {Key(r)}
  BY <1>0, <1>2, ReplacedFacts
<1>4. Rotate(f, LastUsed(Key(r)))
  BY <1>1, <1>2 DEF Put
<1> QED  BY <1>0, <1>2, <1>3, <1>4, PutFacts DEF Succeed

LEMMA StepInductive ==
  ASSUME IInv, NEW r \in Requests, Step(r)
  PROVE  IInv'
<1>0. TypeOK /\ \A k \in DOMAIN files : files[k].by \in Requests
  BY DEF IInv, TypeOK, CacheTypeOK, Record
<1>a. Quiet(r) => CacheTypeOK' /\ Shrinks
  BY <1>0, QuietCache
<1>1. CASE Upload(r)
  BY <1>1, UploadStep
<1>2. CASE Reject(r)
  <2>1. CacheTypeOK' /\ Shrinks
    BY <1>a, <1>2 DEF Quiet
  <2> QED  BY <1>2, <2>1, AnswerStep, FlightAssumption DEF Reject, Places, Refusals
<1>3. CASE Reuse(r)
  <2>1. Key(r) \in DOMAIN files /\ InputOf[files[Key(r)].by] = InputOf[r]
    BY <1>3 DEF Reuse, HeldFor, Held
  <2>2. CacheTypeOK' /\ Shrinks
    BY <1>a, <1>3 DEF Quiet
  <2>3. PICK a \in Requests : a = files[Key(r)].by
    BY <1>0, <2>1
  <2>4. SameWork(r, a)
    BY <2>1, <2>3 DEF SameWork, IInv, RecordsOwn
  <2> QED  BY <1>3, <2>2, <2>3, <2>4, AnswerStep DEF Reuse, Places
<1>4. CASE Conflict(r)
  <2>1. CacheTypeOK' /\ Shrinks
    BY <1>a, <1>4 DEF Quiet
  <2> QED  BY <1>4, <2>1, AnswerStep, FlightAssumption DEF Conflict, Places, Refusals
<1>5. CASE Join(r)
  <2>1. CacheTypeOK' /\ Shrinks
    BY <1>a, <1>5 DEF Quiet
  <2> QED  BY <1>5, <2>1, WaitStep DEF Join
<1>6. CASE Lead(r)
  BY <1>6, LeadStep
<1>7. CASE Succeed(r)
  <2>1. CacheTypeOK' /\ Adds(r)
    BY <1>0, <1>7, SucceedCache
  <2> QED  BY <1>7, <2>1, SettleStep DEF Succeed
<1>8. CASE Fail(r)
  <2>1. CacheTypeOK' /\ Shrinks
    BY <1>a, <1>8 DEF Quiet
  <2> QED  BY <1>8, <2>1, SettleStep DEF Fail
<1>9. CASE FindCached(r)
  <2>1. Key(r) \in DOMAIN files /\ r \notin Uploads
    BY <1>9 DEF FindCached, Usable, Held
  <2>2. CacheTypeOK' /\ Shrinks
    BY <1>a, <1>9 DEF Quiet
  <2>3. PICK a \in Requests : a = files[Key(r)].by
    BY <1>0, <2>1
  <2>4. SameWork(r, a)
    BY <2>1, <2>3 DEF SameWork, IInv, RecordsOwn
  <2> QED  BY <1>9, <2>2, <2>3, <2>4, AnswerStep DEF FindCached, Places
<1>10. CASE FindNothing(r)
  <2>1. CacheTypeOK' /\ Shrinks
    BY <1>a, <1>10 DEF Quiet
  <2> QED  BY <1>10, <2>1, AnswerStep, FlightAssumption DEF FindNothing, Places, Refusals
<1>11. CASE FindFlight(r)
  <2>1. CacheTypeOK' /\ Shrinks
    BY <1>a, <1>11 DEF Quiet
  <2> QED  BY <1>11, <2>1, WaitStep DEF FindFlight
<1>12. CASE Wake(r)
  <2>1. CacheTypeOK' /\ Shrinks
    BY <1>a, <1>12 DEF Quiet
  <2>2. PICK a : a = IF outcome[joined[r]] = "timed" THEN joined[r]
                     ELSE IF r \in Uploads THEN "failed" ELSE "missing"
    OBVIOUS
  <2>3. joined[r] \in Requests /\ SameWork(r, joined[r])
    BY <1>12 DEF Wake, IInv, WaitersShape
  <2>4. a \in Requests \cup Refusals /\ (a \in Requests => SameWork(r, a))
    BY <2>2, <2>3, FlightAssumption DEF Refusals
  <2> QED  BY <1>12, <2>1, <2>2, <2>4, AnswerStep DEF Wake, Places
<1>13. CASE GiveUp(r)
  <2>1. CacheTypeOK' /\ Shrinks
    BY <1>a, <1>13 DEF Quiet
  <2> QED  BY <1>13, <2>1, AnswerStep, FlightAssumption DEF GiveUp, Places, Refusals
<1> QED
  BY <1>1, <1>2, <1>3, <1>4, <1>5, <1>6, <1>7, <1>8, <1>9, <1>10, <1>11, <1>12, <1>13 DEF Step

LEMMA StutterInductive ==
  ASSUME IInv, UNCHANGED vars
  PROVE  IInv'
<1> USE DEF vars, cacheVars
<1>1. TypeOK'
  BY DEF IInv, TypeOK, CacheTypeOK
<1>2. RecordsOwn' /\ FlightsLed' /\ LeadersShape' /\ Fresh'
  BY DEF IInv, RecordsOwn, FlightsLed, LeadersShape, Fresh, Key
<1>3. WaitersShape' /\ AnswersOwn'
  BY DEF IInv, WaitersShape, AnswersOwn, Given, SameWork, Key
<1> QED  BY <1>1, <1>2, <1>3 DEF IInv

LEMMA Inductive == IInv /\ [Next]_vars => IInv'
BY StepInductive, RestartStep, StutterInductive DEF Next

LEMMA Invariance == Spec => []IInv
BY InitIInv, Inductive, PTL DEF Spec

----------------------------------------------------------------------------
(* What follows.                                                           *)

(* Every variable keeps its type, and the LRU list names the files there are. *)
THEOREM TypeCorrect == Spec => []TypeOK
<1>1. IInv => TypeOK
  BY DEF IInv
<1> QED  BY <1>1, Invariance, PTL

(* cached_timing and transcribe never give away timing of another task,      *)
(* capability or audio, however requests, failures and restarts interleave. *)
THEOREM Private == Spec => []OwnTimingOnly
<1>1. IInv => OwnTimingOnly
  <2> SUFFICES ASSUME IInv, NEW r \in Requests, Given(r)
               PROVE  /\ TaskOf[answer[r]] = TaskOf[r]
                      /\ TokenOf[answer[r]] = TokenOf[r]
                      /\ r \in Uploads => InputOf[answer[r]] = InputOf[r]
    BY DEF OwnTimingOnly
  <2>1. SameWork(r, answer[r])
    BY DEF IInv, AnswersOwn
  <2> QED  BY <2>1 DEF SameWork, Key
<1> QED  BY <1>1, Invariance, PTL

(* timing_flights lets one request work for a key, and none for a cached one; *)
(* whoever waits for a flight waits for a leader at work or an outcome, and   *)
(* nobody but the leader decides it.                                       *)
THEOREM Awaited == Spec => []FlightsHaveLeaders
<1>1. IInv => WorkedOnce
  BY DEF IInv, WorkedOnce, LeadersShape
<1>2. IInv => WaitersHaveLeaders /\ LeadersDecide
  BY FlightAssumption
     DEF IInv, WaitersHaveLeaders, LeadersDecide, WaitersShape, Fresh
<1>3. IInv => FlightsHaveLeaders
  BY <1>1, <1>2 DEF FlightsHaveLeaders
<1> QED  BY <1>3, Invariance, PTL

(* The timing of a task under a capability is never replaced in the cache.   *)
THEOREM Final == Spec => CachedIsFinal
<1> DEFINE Same == \A k \in DOMAIN files \cap DOMAIN files' : files'[k].by = files[k].by
<1>1. ASSUME IInv, NEW r \in Requests, Quiet(r) PROVE Same
  BY <1>1, QuietCache DEF IInv, Shrinks
<1>2. ASSUME IInv, NEW r \in Requests, Succeed(r) PROVE Same
  <2>1. pc[r] = "leading" /\ Adds(r)
    BY <1>2, SucceedCache DEF IInv, Succeed, Reply, Goto
  <2>2. Key(r) \notin DOMAIN files
    BY <1>2, <2>1 DEF IInv, LeadersShape
  <2> QED  BY <2>1, <2>2 DEF Adds
<1>3. ASSUME IInv, Restart PROVE Same
  BY <1>3, RestartCache DEF IInv
<1>4. IInv /\ [Next]_vars => [Same]_vars
  BY <1>1, <1>2, <1>3 DEF Next, Step, Quiet
<1> QED  BY <1>4, Invariance, PTL DEF Spec, CachedIsFinal

(* The cache's directory fits into its budget between any two steps: every   *)
(* rotation leaves it so, and whatever else happens only takes records away. *)
THEOREM DiskStaysBounded == Spec => []DiskBounded
<1>1. Init => DiskBounded
  <2> SUFFICES ASSUME Init PROVE DiskBounded
    OBVIOUS
  <2>1. DOMAIN files = {} /\ Directory(files)
    BY EmptyCache DEF Init, CacheTypeOK, Directory
  <2> QED  BY <2>1, BytesOfNone, CacheAssumption DEF DiskBounded
<1>2. ASSUME TypeOK, DiskBounded, TypeOK', Shrinks PROVE DiskBounded'
  <2>1. PICK f, g : f = files /\ g = files'
    OBVIOUS
  <2>2. /\ Directory(f) /\ Directory(g) /\ DOMAIN g \subseteq DOMAIN f
        /\ \A k \in DOMAIN g : g[k].by = f[k].by
    BY <1>2, <2>1 DEF TypeOK, CacheTypeOK, Directory, Shrinks
  <2>3. Bytes(g) <= Bytes(f) /\ Bytes(g) \in Nat /\ Bytes(f) \in Nat
    BY <2>2, BytesOfPart, BytesAreSums
  <2>4. Bytes(f) <= MaxBytes
    BY <1>2, <2>1 DEF DiskBounded
  <2>5. Bytes(g) <= MaxBytes
    BY <2>3, <2>4, CacheAssumption
  <2> QED  BY <2>1, <2>5 DEF DiskBounded, Bytes
<1>3. ASSUME TypeOK, NEW r \in Requests, Succeed(r) PROVE DiskBounded'
  <2>1. PICK labelled \in BOOLEAN : Rotate(Replaced(r, labelled), LastUsed(Key(r)))
    BY <1>3 DEF Succeed, Put
  <2>2. PICK f : f = Replaced(r, labelled)
    OBVIOUS
  <2>3. Directory(f) /\ DOMAIN f = DOMAIN files \cup {Key(r)}
    BY <1>3, <2>2, ReplacedFacts DEF TypeOK
  <2>4. PICK order : order = LastUsed(Key(r))
    OBVIOUS
  <2>5. order \in Seq(Keys) /\ IsInjective(order) /\ ToSet(order) = DOMAIN f
    BY <1>3, <2>3, <2>4, KeyType, LastUsedFacts DEF TypeOK
  <2> QED  BY <2>1, <2>2, <2>3, <2>4, <2>5, RotateFits
<1>4. ASSUME TypeOK, Restart PROVE DiskBounded'
  <2>1. PICK deployed \in BOOLEAN :
          \/ Rotate(Aged(files, deployed), byUse)
          \/ \E r \in Requests, labelled \in BOOLEAN :
               Rotate(Aged(Replaced(r, labelled), deployed), LastUsed(Key(r)))
    BY <1>4 DEF Restart
  <2>2. Directory(files) /\ byUse \in Seq(Keys) /\ IsInjective(byUse) /\ ToSet(byUse) = DOMAIN files
    BY <1>4 DEF TypeOK, CacheTypeOK, Directory
  <2>3. CASE Rotate(Aged(files, deployed), byUse)
    <3>1. PICK f : f = Aged(files, deployed)
      OBVIOUS
    <3>2. Directory(f) /\ DOMAIN f = DOMAIN files
      BY <2>2, <3>1, AgedFacts
    <3> QED  BY <2>2, <2>3, <3>1, <3>2, RotateFits
  <2>4. ASSUME NEW r \in Requests, NEW labelled \in BOOLEAN,
               Rotate(Aged(Replaced(r, labelled), deployed), LastUsed(Key(r)))
        PROVE  DiskBounded'
    <3>1. PICK g : g = Replaced(r, labelled)
      OBVIOUS
    <3>2. Directory(g) /\ DOMAIN g = DOMAIN files \cup {Key(r)}
      BY <1>4, <3>1, ReplacedFacts DEF TypeOK
    <3>3. PICK f : f = Aged(g, deployed)
      OBVIOUS
    <3>4. Directory(f) /\ DOMAIN f = DOMAIN g
      BY <3>2, <3>3, AgedFacts
    <3>5. PICK order : order = LastUsed(Key(r))
      OBVIOUS
    <3>6. order \in Seq(Keys) /\ IsInjective(order) /\ ToSet(order) = DOMAIN f
      BY <1>4, <3>2, <3>4, <3>5, KeyType, LastUsedFacts DEF TypeOK
    <3> QED  BY <2>4, <3>1, <3>3, <3>4, <3>5, <3>6, RotateFits
  <2> QED  BY <2>1, <2>3, <2>4
<1>5. TypeOK /\ DiskBounded /\ TypeOK' /\ [Next]_vars => DiskBounded'
  <2> SUFFICES ASSUME TypeOK, DiskBounded, TypeOK', [Next]_vars PROVE DiskBounded'
    OBVIOUS
  <2>1. ASSUME NEW r \in Requests, Quiet(r) PROVE DiskBounded'
    BY <1>2, <2>1, QuietCache
  <2>2. CASE UNCHANGED vars
    BY <2>2 DEF vars, cacheVars, DiskBounded, Bytes
  <2> QED  BY <1>3, <1>4, <2>1, <2>2 DEF Next, Step, Quiet
<1> QED  BY <1>1, <1>5, TypeCorrect, PTL DEF Spec

(* Who is given a flight's timing can rely on its being in the cache: the     *)
(* future is set after put, and put's rotation spares the record it wrote.   *)
THEOREM StoredFirst == Spec => HandedOutIsStored
<1> DEFINE Stored == \A r \in Requests : outcome[r] = "pending" /\ outcome'[r] = "timed" =>
                       Key(r) \in DOMAIN files' /\ files'[Key(r)].by = r
<1>1. ASSUME TypeOK, NEW r \in Requests, Succeed(r)
      PROVE  Key(r) \in DOMAIN files' /\ files'[Key(r)].by = r
  <2>1. PICK labelled \in BOOLEAN : Rotate(Replaced(r, labelled), LastUsed(Key(r)))
    BY <1>1 DEF Succeed, Put
  <2>2. PICK f : f = Replaced(r, labelled)
    OBVIOUS
  <2>3. Directory(f) /\ DOMAIN f = DOMAIN files \cup {Key(r)} /\ f[Key(r)].by = r
    BY <1>1, <2>2, ReplacedFacts DEF TypeOK
  <2>4. PICK order : order = LastUsed(Key(r))
    OBVIOUS
  <2>5. order \in Seq(Keys) /\ IsInjective(order) /\ ToSet(order) = DOMAIN f
    BY <1>1, <2>3, <2>4, KeyType, LastUsedFacts DEF TypeOK
  <2>6. Len(order) > 0 /\ order[Len(order)] = Key(r)
    BY <1>1, <2>4, KeyType, NewestIsLast DEF TypeOK
  <2>7. Key(r) \in DOMAIN files'
    BY <1>1, <2>1, <2>2, <2>3, <2>4, <2>5, <2>6, RotateKeepsNewest DEF Succeed, Fits
  <2>8. files'[Key(r)] = f[Key(r)]
    BY <2>1, <2>2, <2>3, <2>4, <2>5, <2>7, RotateFacts
  <2> QED  BY <2>3, <2>7, <2>8
<1>2. ASSUME TypeOK, NEW r \in Requests, Step(r), NEW q \in Requests,
             outcome[q] = "pending", outcome'[q] = "timed"
      PROVE  q = r /\ Succeed(r)
  <2>1. CASE Succeed(r)
    BY <1>2, <2>1 DEF Succeed, Settle, TypeOK
  <2>2. CASE Fail(r)
    BY <1>2, <2>2 DEF Fail, Settle, TypeOK
  <2>3. ~(Succeed(r) \/ Fail(r)) => UNCHANGED outcome
    BY <1>2 DEF Step, Upload, Reject, Reuse, Conflict, Join, Lead, FindCached, FindNothing,
                FindFlight, Wake, GiveUp
  <2> QED  BY <1>2, <2>1, <2>2, <2>3
<1>3. TypeOK /\ [Next]_vars => [Stored]_vars
  BY <1>1, <1>2 DEF Next, Restart
<1> QED  BY <1>3, TypeCorrect, PTL DEF Spec, HandedOutIsStored

=============================================================================
