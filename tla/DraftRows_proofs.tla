-------------------------- MODULE DraftRows_proofs --------------------------
(***************************************************************************)
(* NothingLost, whatever the lanes, the loudness of their frames, the limits  *)
(* of the segmentation, the recognizer's answers and the client's rows are.  *)
(*                                                                         *)
(* First what the operators of the model return: sorting, runs of frames,    *)
(* boundaries, segments, bisect_left and the words of a row.  Then the       *)
(* invariant: the segments are those of the loud frames, and every word was   *)
(* heard in one of them.                                                    *)
(***************************************************************************)
EXTENDS DraftRows, CollectionLemmas

----------------------------------------------------------------------------
(* Sorting.                                                                *)

LEMMA FunctionIsSeq ==
  ASSUME NEW S, NEW n \in Nat, NEW t \in [1..n -> S]
  PROVE  t \in Seq(S) /\ Len(t) = n
OBVIOUS

(* R orders S strictly and in full.                                         *)
Orders(R, S) ==
  /\ \A x \in S : <<x, x>> \notin R
  /\ \A x, y \in S : x # y => <<x, y>> \in R \/ <<y, x>> \in R
  /\ \A x, y, z \in S : <<x, y>> \in R /\ <<y, z>> \in R => <<x, z>> \in R

(* t has the members of S, in the order of R.                               *)
Enumerates(t, S, R) ==
  /\ t \in Seq(S)
  /\ \A x \in S : \E i \in 1..Len(t) : t[i] = x
  /\ \A i, j \in 1..Len(t) : i < j => <<t[i], t[j]>> \in R

(* The rank of a member, the number of those before it, is its place.       *)
LEMMA RankedEnumerates ==
  ASSUME NEW S, IsFiniteSet(S), NEW R, Orders(R, S)
  PROVE  Enumerates(Ranked(S, R), S, R) /\ Len(Ranked(S, R)) = Cardinality(S)
<1> DEFINE n == Cardinality(S)
           Lower(x) == {y \in S : <<y, x>> \in R}
           rank == [x \in S |-> Cardinality(Lower(x))]
           t == Ranked(S, R)
<1>1. n \in Nat
  BY FS_CardinalityType
<1>2. ASSUME NEW x \in S
      PROVE  IsFiniteSet(Lower(x)) /\ rank[x] \in Nat /\ rank[x] < n
  <2>1. IsFiniteSet(Lower(x)) /\ Cardinality(Lower(x)) <= n
    BY FS_Subset
  <2>2. Cardinality(Lower(x)) \in Nat
    BY <2>1, FS_CardinalityType
  <2>3. Cardinality(Lower(x)) # n
    <3>1. Lower(x) # S
      BY DEF Orders
    <3>2. Lower(x) \in SUBSET S
      OBVIOUS
    <3> HIDE DEF Lower
    <3> QED  BY <3>1, <3>2, FS_Subset
  <2> QED  BY <2>1, <2>2, <2>3, <1>1
<1>3. ASSUME NEW x \in S, NEW y \in S, <<x, y>> \in R
      PROVE  rank[x] < rank[y]
  <2>1. Lower(x) \in SUBSET Lower(y) /\ Lower(x) # Lower(y)
    BY <1>3 DEF Orders
  <2>2. IsFiniteSet(Lower(y)) /\ rank[x] \in Nat /\ rank[y] \in Nat
    BY <1>2
  <2>3. rank[x] = Cardinality(Lower(x)) /\ rank[y] = Cardinality(Lower(y))
    OBVIOUS
  <2> HIDE DEF Lower, rank
  <2>4. rank[x] <= rank[y] /\ rank[x] # rank[y]
    BY <2>1, <2>2, <2>3, FS_Subset
  <2> QED  BY <2>2, <2>4
<1>4. rank \in Injection(S, 0..(n - 1))
  <2>1. rank \in [S -> 0..(n - 1)]
    BY <1>1, <1>2
  <2>2. ASSUME NEW x \in S, NEW y \in S, rank[x] = rank[y] PROVE x = y
    <3>1. rank[x] \in Nat /\ rank[y] \in Nat
      BY <1>2
    <3>2. <<x, y>> \notin R /\ <<y, x>> \notin R
      BY <1>3, <2>2, <3>1
    <3> HIDE DEF rank
    <3> QED  BY <3>2 DEF Orders
  <2> HIDE DEF rank
  <2> QED  BY <2>1, <2>2 DEF Injection, IsInjective
<1>5. \A k \in 0..(n - 1) : \E x \in S : rank[x] = k
  <2>1. IsFiniteSet(0..(n - 1)) /\ Cardinality(0..(n - 1)) = n
    <3>1. /\ IsFiniteSet(0..(n - 1))
          /\ Cardinality(0..(n - 1)) = IF 0 > n - 1 THEN 0 ELSE (n - 1) - 0 + 1
      BY <1>1, FS_Interval, 0 \in Int, n - 1 \in Int
    <3> HIDE DEF n
    <3> QED  BY <3>1, <1>1
  <2>2. rank \in Surjection(S, 0..(n - 1))
    <3> HIDE DEF rank
    <3> QED  BY <1>4, <2>1, FS_Injection
  <2> HIDE DEF rank
  <2> QED  BY <2>2 DEF Surjection
<1>6. t = [i \in 1..n |-> CHOOSE x \in S : Cardinality(Lower(x)) = i - 1]
  BY DEF Ranked
<1>7. ASSUME NEW i \in 1..n PROVE t[i] \in S /\ rank[t[i]] = i - 1
  <2>1. \E x \in S : rank[x] = i - 1
    <3> HIDE DEF rank, n
    <3> QED  BY <1>1, <1>5
  <2>2. \E x \in S : Cardinality(Lower(x)) = i - 1
    BY <2>1
  <2>3. t[i] = CHOOSE x \in S : Cardinality(Lower(x)) = i - 1
    <3> HIDE DEF n, t, Lower
    <3> QED  BY <1>6
  <2>4. t[i] \in S /\ Cardinality(Lower(t[i])) = i - 1
    <3> HIDE DEF n, t, Lower
    <3> QED  BY <2>2, <2>3
  <2> HIDE DEF t, n
  <2> QED  BY <2>4
<1> HIDE DEF t, rank, n, Lower
<1>8. t \in [1..n -> S]
  BY <1>6, <1>7
<1>9. t \in Seq(S) /\ Len(t) = n
  BY <1>1, <1>8, FunctionIsSeq
<1>10. ASSUME NEW x \in S PROVE \E i \in 1..n : t[i] = x
  <2>1. rank[x] + 1 \in 1..n
    BY <1>1, <1>2
  <2>2. rank[t[rank[x] + 1]] = rank[x] /\ t[rank[x] + 1] \in S
    BY <2>1, <1>7, <1>2
  <2> QED  BY <2>1, <2>2, <1>4 DEF Injection, IsInjective
<1>11. ASSUME NEW i \in 1..n, NEW j \in 1..n, i < j PROVE <<t[i], t[j]>> \in R
  <2>1. t[i] \in S /\ t[j] \in S /\ rank[t[i]] = i - 1 /\ rank[t[j]] = j - 1
    BY <1>7
  <2>2. t[i] # t[j]
    BY <2>1, <1>11, <1>1
  <2>3. <<t[j], t[i]>> \notin R
    <3>1. ~(j - 1 < i - 1)
      BY <1>11, <1>1
    <3> QED  BY <3>1, <2>1, <1>3
  <2> QED  BY <2>1, <2>2, <2>3 DEF Orders
<1> QED  BY <1>9, <1>10, <1>11 DEF Enumerates, t, n

LEMMA SortedNumbers ==
  ASSUME NEW S \in SUBSET Int, IsFiniteSet(S)
  PROVE  LET t == Sorted(S, <)
         IN  /\ t \in Seq(S) /\ Len(t) = Cardinality(S)
             /\ \A x \in S : \E i \in 1..Len(t) : t[i] = x
             /\ \A i, j \in 1..Len(t) : i < j => t[i] < t[j]
<1> DEFINE R == {p \in S \X S : p[1] < p[2]}
<1>1. Orders(R, S)
  BY DEF Orders
<1>2. Sorted(S, <) = Ranked(S, R)
  BY DEF Sorted
<1>3. Enumerates(Ranked(S, R), S, R) /\ Len(Ranked(S, R)) = Cardinality(S)
  <2> HIDE DEF R
  <2> QED  BY <1>1, RankedEnumerates
<1>4. \A x, y : <<x, y>> \in R => x < y
  OBVIOUS
<1> HIDE DEF R
<1> QED  BY <1>2, <1>3, <1>4 DEF Enumerates
----------------------------------------------------------------------------
(* Least and greatest numbers.                                             *)

LEMMA LeastIn ==
  ASSUME NEW S \in SUBSET Nat, S # {}
  PROVE  Min(S) \in S /\ \A n \in S : Min(S) <= n
<1>1. \E n \in S : \A m \in S : n <= m
  BY LeastNatural
<1> QED  BY <1>1 DEF Min

LEMMA GreatestIn ==
  ASSUME NEW n \in Nat, NEW S \in SUBSET Nat, S # {}, \A m \in S : m <= n
  PROVE  Max(S) \in S /\ \A m \in S : m <= Max(S)
<1> DEFINE T == {n - m : m \in S}
<1>1. T \in SUBSET Nat /\ T # {}
  <2>1. ASSUME NEW m \in S PROVE n - m \in Nat
    OBVIOUS
  <2> QED  BY <2>1
<1>2. PICK t \in T : \A u \in T : t <= u
  <2> HIDE DEF T
  <2> QED  BY <1>1, LeastNatural
<1>3. PICK m \in S : t = n - m
  BY <1>2
<1>4. ASSUME NEW k \in S PROVE m >= k
  <2>1. n - m <= n - k
    BY <1>2, <1>3
  <2>2. m \in Int /\ k \in Int
    OBVIOUS
  <2> QED  BY <2>1, <2>2
<1>5. \E x \in S : \A y \in S : x >= y
  BY <1>4
<1>6. Max(S) \in S /\ \A y \in S : Max(S) >= y
  BY <1>5 DEF Max
<1> HIDE DEF T
<1>7. \A y \in S : y \in Nat
  OBVIOUS
<1> QED  BY <1>6, <1>7

LEMMA MinOfTwo ==
  ASSUME NEW a \in Int, NEW b \in Int
  PROVE  Min({a, b}) = IF a <= b THEN a ELSE b
BY DEF Min

LEMMA MaxOfTwo ==
  ASSUME NEW a \in Int, NEW b \in Int
  PROVE  Max({a, b}) = IF a <= b THEN b ELSE a
BY DEF Max

LEMMA MinOfThree ==
  ASSUME NEW a \in Int, NEW b \in Int, NEW c \in Int
  PROVE  /\ Min({a, b, c}) \in {a, b, c}
         /\ Min({a, b, c}) <= a /\ Min({a, b, c}) <= b /\ Min({a, b, c}) <= c
<1>1. \E x \in {a, b, c} : \A y \in {a, b, c} : x <= y
  OBVIOUS
<1> QED  BY <1>1 DEF Min

----------------------------------------------------------------------------
(* Frames and samples.                                                     *)

At(f) == f * FrameSamples

LEMMA FramesAndSamples ==
  /\ FrameTotal \in Nat \ {0} /\ FrameCount \in Nat \ {0}
  /\ At(0) = 0
  /\ \A f \in Nat : At(f) \in Nat
  /\ \A f, g \in Nat : f < g => At(f) < At(g)
  /\ \A f \in Frames : At(f) < FrameCount
  /\ FrameCount <= At(FrameTotal)
<1> DEFINE S == FrameSamples
           C == FrameCount
           N == FrameTotal
<1>1. S \in Nat \ {0} /\ C \in Nat \ {0}
  BY RowsAssumption
<1>2. N \in Nat /\ N * S <= C + S - 1 /\ C + S - 1 < (N + 1) * S
  <2>1. N = (C + S - 1) \div S
    BY DEF FrameTotal
  <2> HIDE DEF N, S, C
  <2> QED  BY <1>1, <2>1, Z3
<1>3. ASSUME NEW f \in Nat PROVE f * S \in Nat
  BY <1>1
<1>4. ASSUME NEW f \in Nat, NEW g \in Nat, f < g PROVE f * S + S <= g * S
  <2>1. PICK d \in Nat : g = f + 1 + d
    <3>1. g = f + 1 + (g - f - 1) /\ g - f - 1 \in Nat
      BY <1>4
    <3> QED  BY <3>1
  <2>2. g * S = f * S + S + d * S /\ d * S \in Nat
    <3> HIDE DEF S
    <3> QED  BY <1>1, <2>1
  <2> QED  BY <1>1, <1>3, <2>2
<1>5. N # 0
  <2>1. N = 0 => (N + 1) * S = S
    BY <1>1
  <2> QED  BY <1>1, <1>2, <2>1
<1>6. (N + 1) * S = N * S + S /\ N * S \in Nat
  BY <1>1, <1>2
<1>7. C <= N * S
  <2> HIDE DEF N, S, C
  <2> QED  BY <1>1, <1>2, <1>6
<1>8. ASSUME NEW f \in Frames PROVE f * S < C
  <2>1. f \in Nat /\ f < N
    BY <1>2 DEF Frames
  <2>2. f * S + S <= N * S
    BY <2>1, <1>2, <1>4
  <2> HIDE DEF N, S, C
  <2> QED  BY <1>1, <1>2, <1>3, <1>6, <2>1, <2>2
<1>9. ASSUME NEW f \in Nat, NEW g \in Nat, f < g PROVE f * S < g * S
  <2> HIDE DEF S
  <2> QED  BY <1>1, <1>3, <1>4, <1>9
<1>10. 0 * S = 0
  BY <1>1
<1> QED  BY <1>1, <1>2, <1>3, <1>5, <1>7, <1>8, <1>9, <1>10 DEF At

----------------------------------------------------------------------------
(* Runs.                                                                   *)

(* Every frame is in a run of its value, ...                                *)
LEMMA RunAround ==
  ASSUME NEW values \in [Frames -> BOOLEAN], NEW f \in Frames
  PROVE  \E run \in Runs(values, values[f]) : In(f, run)
<1> DEFINE N == FrameTotal
           From == {s \in 0..f : \A g \in s..f : values[g] = values[f]}
           To == {e \in (f + 1)..N : e < N => values[e] # values[f]}
<1>1. N \in Nat /\ f \in Nat /\ f < N /\ Frames = 0..(N - 1)
  BY FramesAndSamples DEF Frames
<1> HIDE DEF N
<1>2. From \in SUBSET Nat /\ f \in From
  BY <1>1
<1>3. PICK s \in From : \A t \in From : s <= t
  <2> HIDE DEF From
  <2> QED  BY <1>2, LeastNatural
<1>4. To \in SUBSET Nat /\ N \in To
  BY <1>1
<1>5. PICK e \in To : \A t \in To : e <= t
  <2> HIDE DEF To
  <2> QED  BY <1>4, LeastNatural
<1>6. s > 0 => values[s - 1] # values[f]
  <2> SUFFICES ASSUME s > 0, values[s - 1] = values[f] PROVE FALSE
    OBVIOUS
  <2>1. s - 1 \in From
    <3>1. ASSUME NEW g \in (s - 1)..f PROVE values[g] = values[f]
      <4>1. g = s - 1 \/ g \in s..f
        BY <1>1
      <4> QED  BY <4>1, <1>3
    <3> QED  BY <3>1, <1>1
  <2> QED  BY <2>1, <1>3, <1>1
<1>7. ASSUME NEW g \in s..(e - 1) PROVE values[g] = values[f]
  <2>1. CASE g <= f
    BY <2>1, <1>1, <1>3
  <2>2. CASE g > f
    <3>1. g \in (f + 1)..N /\ ~(e <= g)
      BY <2>2, <1>1
    <3> QED  BY <3>1, <1>5
  <2> QED  BY <2>1, <2>2, <1>1
<1> DEFINE run == [start |-> s, end |-> e]
<1>8. run \in [start : Frames, end : 1..N]
  BY <1>1
<1>9. s <= f /\ f < e /\ s < e
  BY <1>1
<1>10. run \in Runs(values, values[f])
  BY <1>5, <1>6, <1>7, <1>8, <1>9 DEF Runs, N
<1>11. In(f, run)
  BY <1>9 DEF In
<1> QED  BY <1>10, <1>11

(* ... which cannot overlap another: it would go on.                        *)
LEMMA RunsMeet ==
  ASSUME NEW values \in [Frames -> BOOLEAN], NEW value,
         NEW r \in Runs(values, value), NEW s \in Runs(values, value),
         NEW f \in Frames, In(f, r), In(f, s)
  PROVE  r = s
<1> DEFINE N == FrameTotal
<1>1. N \in Nat /\ Frames = 0..(N - 1) /\ f \in 0..(N - 1)
  BY FramesAndSamples DEF Frames
<1> HIDE DEF N
<1>2. ASSUME NEW u \in Runs(values, value), NEW v \in Runs(values, value), In(f, u), In(f, v)
      PROVE  ~(u.start < v.start) /\ ~(v.end < u.end)
  <2>1. /\ u.start \in 0..(N - 1) /\ u.end \in 1..N
        /\ v.start \in 0..(N - 1) /\ v.end \in 1..N
        /\ \A g \in u.start..(u.end - 1) : values[g] = value
        /\ v.start > 0 => values[v.start - 1] # value
        /\ v.end < N => values[v.end] # value
    BY <1>1 DEF Runs, N
  <2>2. u.start <= f /\ f < u.end /\ v.start <= f /\ f < v.end
    BY <1>2 DEF In
  <2>3. ASSUME u.start < v.start PROVE FALSE
    <3>1. v.start - 1 \in u.start..(u.end - 1) /\ v.start > 0
      BY <2>1, <2>2, <2>3, <1>1
    <3> QED  BY <3>1, <2>1
  <2>4. ASSUME v.end < u.end PROVE FALSE
    <3>1. v.end \in u.start..(u.end - 1) /\ v.end < N
      BY <2>1, <2>2, <2>4, <1>1
    <3> QED  BY <3>1, <2>1
  <2> QED  BY <2>3, <2>4
<1>3. /\ r \in [start : Frames, end : 1..N] /\ s \in [start : Frames, end : 1..N]
  BY DEF Runs, N
<1>4. r.start = s.start /\ r.end = s.end
  <2>1. ~(r.start < s.start) /\ ~(s.end < r.end) /\ ~(s.start < r.start) /\ ~(r.end < s.end)
    BY <1>2
  <2> QED  BY <2>1, <1>3, <1>1
<1> QED  BY <1>3, <1>4
(* The frames of a run, and the frame after it.                             *)
LEMMA RunShape ==
  ASSUME NEW values, NEW value, NEW r \in Runs(values, value)
  PROVE  /\ r.start \in Nat /\ r.end \in Nat /\ r.start < r.end /\ r.end <= FrameTotal
         /\ \A f \in Nat : r.start <= f /\ f < r.end => values[f] = value
         /\ r.end < FrameTotal => values[r.end] # value
<1> DEFINE N == FrameTotal
<1>1. N \in Nat /\ Frames = 0..(N - 1)
  BY FramesAndSamples DEF Frames
<1> HIDE DEF N
<1>2. /\ r.start \in 0..(N - 1) /\ r.end \in 1..N /\ r.start < r.end
      /\ \A f \in r.start..(r.end - 1) : values[f] = value
      /\ r.end < N => values[r.end] # value
  BY <1>1 DEF Runs, N
<1>3. ASSUME NEW f \in Nat, r.start <= f, f < r.end PROVE values[f] = value
  <2>1. f \in r.start..(r.end - 1)
    BY <1>1, <1>2, <1>3
  <2> QED  BY <2>1, <1>2
<1> QED  BY <1>1, <1>2, <1>3 DEF N

LEMMA FrameNumbers == \A f : f \in Frames <=> f \in Nat /\ f < FrameTotal
<1> DEFINE N == FrameTotal
<1>1. N \in Nat /\ Frames = 0..(N - 1)
  BY FramesAndSamples DEF Frames
<1> HIDE DEF N
<1> QED  BY <1>1 DEF N

----------------------------------------------------------------------------
(* Smoothing.                                                              *)

LEMMA SmoothType ==
  ASSUME NEW values \in [Frames -> BOOLEAN]
  PROVE  /\ Bridged(values) \in [Frames -> BOOLEAN]
         /\ Smooth(values) \in [Frames -> BOOLEAN]
<1>1. \A v \in [Frames -> BOOLEAN] : Bridged(v) \in [Frames -> BOOLEAN]
  BY DEF Bridged
<1>2. \A v \in [Frames -> BOOLEAN] : WithoutBursts(v) \in [Frames -> BOOLEAN]
  BY DEF WithoutBursts
<1> QED  BY <1>1, <1>2 DEF Smooth

(* Between loud frames that belong together every silence is bridged.        *)
LEMMA TogetherIsBridged ==
  ASSUME NEW values \in [Frames -> BOOLEAN], NEW g \in Frames, NEW f \in Frames, g <= f,
         Together(values, g, f), NEW k \in g..f
  PROVE  Bridged(values)[k]
<1> DEFINE N == FrameTotal
<1>1. /\ N \in Nat /\ Frames = 0..(N - 1) /\ Bridge \in Nat
      /\ g \in 0..(N - 1) /\ f \in 0..(N - 1) /\ k \in Frames
  BY FramesAndSamples, RowsAssumption DEF Frames
<1> HIDE DEF N
<1>2. Min({g, f}) = g /\ Max({g, f}) = f
  BY <1>1, MinOfTwo, MaxOfTwo
<1>3. CASE values[k]
  BY <1>1, <1>3 DEF Bridged
<1>4. CASE ~values[k]
  <2>1. PICK gap \in Runs(values, FALSE) : In(k, gap)
    <3>1. values[k] = FALSE
      BY <1>1, <1>4
    <3> QED  BY <1>1, <3>1, RunAround
  <2>2. /\ gap.start \in 0..(N - 1) /\ gap.end \in 1..N
        /\ \A h \in gap.start..(gap.end - 1) : ~values[h]
        /\ gap.start <= k /\ k < gap.end
    BY <1>1, <2>1 DEF Runs, In, N
  <2>3. values[g] /\ values[f]
    BY DEF Together
  <2>4. g < gap.start /\ gap.end <= f
    <3>1. g \notin gap.start..(gap.end - 1) /\ f \notin gap.start..(gap.end - 1)
      BY <2>2, <2>3
    <3> QED  BY <3>1, <2>2, <1>1
  <2>5. gap.end <= gap.start + Bridge
    <3>1. gap.start \in Min({g, f})..Max({g, f})
      BY <1>1, <1>2, <2>2, <2>4
    <3>2. PICK i \in gap.start..Min({gap.start + Bridge, f}) : values[i]
      BY <3>1, <1>2 DEF Together
    <3>3. /\ Min({gap.start + Bridge, f}) <= gap.start + Bridge
          /\ Min({gap.start + Bridge, f}) \in Int
      <4>1. gap.start + Bridge \in Int /\ f \in Int
        BY <1>1, <2>2
      <4>2. Min({gap.start + Bridge, f})
              = IF gap.start + Bridge <= f THEN gap.start + Bridge ELSE f
        BY <4>1, MinOfTwo
      <4> QED  BY <4>1, <4>2
    <3>4. i \notin gap.start..(gap.end - 1)
      BY <2>2, <3>2
    <3> QED  BY <3>2, <3>3, <3>4, <1>1, <2>2
  <2>6. gap.start > 0 /\ gap.end < N /\ Length(gap) =< Bridge
    BY <2>2, <2>4, <2>5, <1>1 DEF Length
  <2> QED  BY <1>1, <2>1, <2>6 DEF Bridged, N
<1> QED  BY <1>3, <1>4

(* Speech is loud long enough to be no burst.                               *)
LEMMA SpokenIsActive ==
  ASSUME NEW values \in [Frames -> BOOLEAN], NEW f \in Frames, Spoken(values, f)
  PROVE  Smooth(values)[f]
<1> DEFINE N == FrameTotal
           B == Bridged(values)
<1>1. PICK g \in Frames, h \in Frames :
        /\ g =< f /\ f =< h /\ h - g + 1 >= Minimum
        /\ Together(values, g, f) /\ Together(values, f, h)
  BY DEF Spoken
<1>2. /\ N \in Nat /\ Frames = 0..(N - 1) /\ Minimum \in Nat
      /\ f \in 0..(N - 1) /\ g \in 0..(N - 1) /\ h \in 0..(N - 1)
  BY FramesAndSamples, RowsAssumption DEF Frames
<1> HIDE DEF N
<1>3. ASSUME NEW k \in g..h PROVE B[k]
  <2>1. k \in g..f \/ k \in f..h
    BY <1>2
  <2> QED  BY <2>1, <1>1, TogetherIsBridged
<1>4. B \in [Frames -> BOOLEAN]
  BY SmoothType
<1> HIDE DEF B
<1>5. ASSUME NEW run \in Runs(B, TRUE), In(f, run) PROVE ~(Length(run) < Minimum)
  <2>1. /\ run.start \in 0..(N - 1) /\ run.end \in 1..N
        /\ run.start > 0 => B[run.start - 1] # TRUE
        /\ run.end < N => B[run.end] # TRUE
        /\ run.start <= f /\ f < run.end
    BY <1>2, <1>5 DEF Runs, In, N
  <2>2. ASSUME run.start > g PROVE FALSE
    <3>1. run.start - 1 \in g..h /\ run.start - 1 \in Frames /\ run.start > 0
      BY <1>1, <1>2, <2>1, <2>2
    <3> QED  BY <3>1, <1>3, <1>4, <2>1
  <2>3. ASSUME run.end <= h PROVE FALSE
    <3>1. run.end \in g..h /\ run.end \in Frames /\ run.end < N
      BY <1>1, <1>2, <2>1, <2>3
    <3> QED  BY <3>1, <1>3, <1>4, <2>1
  <2>4. run.start <= g /\ h < run.end
    BY <2>1, <2>2, <2>3, <1>2
  <2> QED  BY <1>1, <1>2, <2>1, <2>4 DEF Length
<1>6. B[f]
  BY <1>1, <1>2, <1>3
<1> QED  BY <1>5, <1>6 DEF Smooth, WithoutBursts, B
----------------------------------------------------------------------------
(* Segments.                                                               *)

(* Where a boundary may be: at the start of a frame, or at the track's end.  *)
OnFrame(b) == b = FrameCount \/ \E k \in Nat : b = At(k)

(* What is said of the boundaries b of a lane: they are sorted, all speech   *)
(* is between the first and the last, and there is some between any two.     *)
Divides(b, active) ==
  /\ b \in Seq(Nat) /\ Len(b) >= 2
  /\ \A i, j \in 1..Len(b) : i < j => b[i] < b[j]
  /\ \A i \in 1..Len(b) : b[i] <= FrameCount /\ OnFrame(b[i])
  /\ \A f \in Frames : active[f] => b[1] <= At(f) /\ At(f) < b[Len(b)]
  /\ \A i \in 1..(Len(b) - 1) :
       \E f \in Frames : active[f] /\ b[i] <= At(f) /\ At(f) < b[i + 1]

LEMMA BoundariesDivide ==
  ASSUME NEW active \in [Frames -> BOOLEAN], Runs(active, TRUE) # {}
  PROVE  Divides(Boundaries(active), active)
<1> DEFINE N == FrameTotal
           C == FrameCount
           spoken == Runs(active, TRUE)
           starts == {run.start : run \in spoken}
           ends == {run.end : run \in spoken}
           first == Min(starts)
           last == Max(ends)
           Long == {g \in Runs(active, FALSE) :
                      Length(g) >= Silence /\ g.start > first /\ g.end < last}
           split == {(gap.start + gap.end) \div 2 : gap \in Long}
           E == Min({C, At(last)})
           bset == {At(first)} \cup {At(f) : f \in split} \cup {E}
           b == Sorted(bset, <)
<1>1. /\ N \in Nat /\ C \in Nat /\ Silence \in Nat
      /\ \A f \in Nat : At(f) \in Nat
      /\ \A f, g \in Nat : f < g => At(f) < At(g)
      /\ \A f \in Nat : f < N => At(f) < C
      /\ \A f : f \in Frames <=> f \in Nat /\ f < N
  BY FramesAndSamples, FrameNumbers, RowsAssumption
<1>0. N \in Nat
  BY <1>1
<1> HIDE DEF N, C
<1>2. ASSUME NEW value, NEW r \in Runs(active, value)
      PROVE  /\ r.start \in Nat /\ r.end \in Nat /\ r.start < r.end /\ r.end <= N
             /\ \A f \in Nat : r.start <= f /\ f < r.end => active[f] = value
             /\ r.end < N => active[r.end] # value
  BY RunShape DEF N
<1>3. /\ first \in Nat /\ first < N /\ active[first]
      /\ \A r \in spoken : first <= r.start
  <2>1. starts \in SUBSET Nat /\ starts # {}
    <3>1. ASSUME NEW r \in spoken PROVE r.start \in Nat
      BY <1>2
    <3> QED  BY <3>1
  <2>2. first \in starts /\ \A s \in starts : first <= s
    <3> HIDE DEF starts
    <3> QED  BY <2>1, LeastIn
  <2>3. PICK r \in spoken : first = r.start
    BY <2>2
  <2>4. /\ r.start \in Nat /\ r.end \in Nat /\ r.start < r.end /\ r.end <= N
        /\ active[r.start] = TRUE
    <3>1. /\ r.start \in Nat /\ r.end \in Nat /\ r.start < r.end /\ r.end <= N
          /\ \A f \in Nat : r.start <= f /\ f < r.end => active[f] = TRUE
      BY <1>2
    <3>2. r.start <= r.start
      BY <3>1
    <3> QED  BY <3>1, <3>2
  <2>5. \A q \in spoken : first <= q.start
    BY <2>2
  <2> HIDE DEF first, spoken
  <2> QED  BY <1>0, <2>3, <2>4, <2>5
<1>4. /\ last \in 1..N /\ active[last - 1]
      /\ \A r \in spoken : r.end <= last
  <2>1. /\ ends \in SUBSET Nat /\ ends # {}
        /\ \A e \in ends : e <= N
    <3>1. ASSUME NEW r \in spoken PROVE r.end \in Nat /\ r.end <= N
      BY <1>2
    <3> QED  BY <3>1
  <2>2. last \in ends /\ \A e \in ends : e <= last
    <3> HIDE DEF ends
    <3> QED  BY <2>1, <1>0, GreatestIn
  <2>3. PICK r \in spoken : last = r.end
    BY <2>2
  <2>4. /\ r.start \in Nat /\ r.end \in Nat /\ r.start < r.end /\ r.end <= N
        /\ \A f \in Nat : r.start <= f /\ f < r.end => active[f] = TRUE
    <3> HIDE DEF last
    <3> QED  BY <1>2
  <2>5. \A q \in spoken : q.end <= last
    BY <2>2
  <2> HIDE DEF last, spoken
  <2>6. last - 1 \in Nat /\ r.start <= last - 1 /\ last - 1 < r.end /\ last \in 1..N
    BY <1>0, <2>3, <2>4
  <2> QED  BY <2>4, <2>5, <2>6
<1>5. b = Boundaries(active)
  BY DEF Boundaries, At, C
<1> HIDE DEF first, last, starts, ends
<1>6. ASSUME NEW f \in Frames, active[f] PROVE first <= f /\ f < last
  <2>1. PICK r \in spoken : In(f, r)
    <3>1. active[f] = TRUE
      BY <1>6
    <3> QED  BY <3>1, RunAround
  <2>2. r.start <= f /\ f < r.end /\ first <= r.start /\ r.end <= last
    BY <1>3, <1>4, <2>1 DEF In
  <2>3. r.start \in Nat /\ r.end \in Nat /\ f \in Nat
    BY <1>1, <1>2
  <2> QED  BY <1>3, <1>4, <2>2, <2>3
<1>7. first < last
  <2>1. first \in Frames
    BY <1>1, <1>3
  <2> QED  BY <2>1, <1>3, <1>6
<1>8. /\ E \in Nat /\ E <= C /\ E <= At(last)
      /\ \A f \in Nat : f < last => At(f) < E
      /\ E = C \/ E = At(last)
  <2>1. At(last) \in Nat
    BY <1>1, <1>4
  <2>2. E = IF C <= At(last) THEN C ELSE At(last)
    BY <1>1, <2>1, MinOfTwo
  <2>3. ASSUME NEW f \in Nat, f < last PROVE At(f) < C /\ At(f) < At(last)
    <3>1. f < N
      BY <1>0, <1>4, <2>3
    <3> QED  BY <3>1, <1>1, <1>4, <2>3
  <2> HIDE DEF E
  <2> QED  BY <1>1, <2>1, <2>2, <2>3
<1> HIDE DEF E
(* A middle is in its gap, and the gap is followed by speech.               *)
<1>9. ASSUME NEW gap \in Long
      PROVE  /\ gap \in Runs(active, FALSE)
             /\ (gap.start + gap.end) \div 2 \in gap.start..(gap.end - 1)
             /\ first < gap.start /\ gap.end < last /\ active[gap.end]
             /\ gap.start \in Nat /\ gap.end \in Frames
  <2>1. gap \in Runs(active, FALSE) /\ gap.start > first /\ gap.end < last
    OBVIOUS
  <2>2. gap.start \in Nat /\ gap.end \in Nat /\ gap.start < gap.end
        /\ (gap.end < N => active[gap.end] # FALSE)
    BY <1>2, <2>1
  <2>3. gap.end < N
    BY <1>0, <1>4, <2>1, <2>2
  <2>4. gap.end \in Frames /\ active[gap.end]
    BY <1>1, <2>2, <2>3
  <2>5. ASSUME NEW x \in Nat, NEW y \in Nat, x < y PROVE (x + y) \div 2 \in x..(y - 1)
    BY <2>5
  <2>6. first < gap.start
    BY <2>1, <2>2, <1>3
  <2> HIDE DEF Long
  <2> QED  BY <2>1, <2>2, <2>4, <2>5, <2>6
<1>10. ASSUME NEW s \in split
       PROVE  \E gap \in Long : s = (gap.start + gap.end) \div 2
  OBVIOUS
<1> HIDE DEF Long
<1>11. ASSUME NEW s \in split
       PROVE  s \in Nat /\ first < s /\ s < last
  <2>1. PICK gap \in Long : s = (gap.start + gap.end) \div 2
    BY <1>10
  <2>2. /\ s \in gap.start..(gap.end - 1) /\ first < gap.start /\ gap.end < last
        /\ gap.start \in Nat /\ gap.end \in Frames
    BY <1>9, <2>1
  <2>3. gap.end \in Nat
    BY <1>1, <2>2
  <2> QED  BY <1>3, <1>4, <2>2, <2>3
<1> HIDE DEF split
<1>12. ASSUME NEW x \in bset
       PROVE  /\ x \in Nat /\ x <= C /\ OnFrame(x)
              /\ At(first) <= x /\ x <= E
  <2>1. CASE x = At(first)
    <3>1. first \in Nat /\ first < last /\ At(first) \in Nat /\ At(first) < E
      BY <1>1, <1>3, <1>7, <1>8
    <3> QED  BY <2>1, <3>1, <1>1, <1>8 DEF OnFrame
  <2>2. ASSUME NEW s \in split, x = At(s)
        PROVE  /\ x \in Nat /\ x <= C /\ OnFrame(x)
               /\ At(first) <= x /\ x <= E
    <3>1. /\ s \in Nat /\ At(s) \in Nat /\ At(first) \in Nat
          /\ At(first) < At(s) /\ At(s) < E
      BY <1>1, <1>3, <1>8, <1>11
    <3> QED  BY <2>2, <3>1, <1>1, <1>8 DEF OnFrame, C
  <2>3. CASE x = E
    <3>1. At(first) \in Nat /\ At(first) < E /\ last \in Nat
      BY <1>1, <1>3, <1>4, <1>7, <1>8
    <3> QED  BY <2>3, <3>1, <1>8 DEF OnFrame, C
  <2> QED  BY <2>1, <2>2, <2>3
<1>13. /\ b \in Seq(bset) /\ Len(b) = Cardinality(bset)
       /\ \A x \in bset : \E i \in 1..Len(b) : b[i] = x
       /\ \A i, j \in 1..Len(b) : i < j => b[i] < b[j]
  <2>1. bset \in SUBSET Nat /\ \A x \in bset : x <= C
    BY <1>12
  <2> HIDE DEF bset
  <2>2. IsFiniteSet(bset)
    BY <1>1, <2>1, FS_BoundedSetOfNaturals
  <2>3. bset \in SUBSET Int
    BY <2>1
  <2> QED  BY <2>2, <2>3, SortedNumbers
<1>14. At(first) \in bset /\ E \in bset /\ At(first) < E
  BY <1>3, <1>7, <1>8
<1>15. ASSUME NEW x \in bset, x < E
       PROVE  \E f \in Frames : active[f] /\ x <= At(f) /\ \A y \in bset : x < y => At(f) < y
  <2>1. CASE x = At(first)
    <3>1. first \in Frames
      BY <1>1, <1>3
    <3> QED  BY <3>1, <2>1, <1>3, <1>1
  <2>2. ASSUME NEW s \in split, x = At(s)
        PROVE  \E f \in Frames : active[f] /\ x <= At(f) /\ \A y \in bset : x < y => At(f) < y
    <3>1. PICK gap \in Long : s = (gap.start + gap.end) \div 2
      BY <1>10
    <3> DEFINE f == gap.end
    <3>2. /\ gap \in Runs(active, FALSE) /\ s \in Nat /\ gap.start \in Nat
          /\ f \in Frames /\ f \in Nat /\ active[f] /\ f < last /\ first < f
          /\ gap.start <= s /\ s < f
      <4>1. /\ gap \in Runs(active, FALSE) /\ s \in gap.start..(gap.end - 1)
            /\ first < gap.start /\ gap.end < last /\ active[gap.end]
            /\ gap.start \in Nat /\ gap.end \in Frames
        BY <1>9, <3>1
      <4>2. gap.end \in Nat
        BY <1>1, <4>1
      <4>3. gap.start <= s /\ s < gap.end /\ first < gap.end /\ s \in Nat
        BY <1>3, <4>1, <4>2
      <4> QED  BY <4>1, <4>2, <4>3
    <3> HIDE DEF f
    <3>3. x < At(f) /\ At(f) \in Nat /\ x \in Nat
      BY <2>2, <3>2, <1>1
    <3>4. ASSUME NEW y \in bset, x < y PROVE At(f) < y
      <4>1. CASE y = At(first)
        <5>1. first < s /\ first \in Nat
          BY <1>3, <1>11
        <5>2. At(first) < At(s) /\ At(first) \in Nat
          BY <5>1, <3>2, <1>1
        <5> QED  BY <5>2, <4>1, <3>4, <2>2, <3>3
      <4>2. ASSUME NEW s2 \in split, y = At(s2) PROVE At(f) < y
        <5>1. PICK g2 \in Long : s2 = (g2.start + g2.end) \div 2
          BY <1>10
        <5>2. /\ g2 \in Runs(active, FALSE) /\ s2 \in g2.start..(g2.end - 1)
              /\ g2.start \in Nat /\ g2.end \in Nat
              /\ active[s2] = FALSE
          <6>1. /\ g2 \in Runs(active, FALSE) /\ s2 \in g2.start..(g2.end - 1)
                /\ g2.start \in Nat
            BY <1>9, <5>1
          <6>2. g2.end \in Nat /\ \A h \in Nat : g2.start <= h /\ h < g2.end => active[h] = FALSE
            BY <1>2, <6>1
          <6>3. s2 \in Nat /\ g2.start <= s2 /\ s2 < g2.end
            BY <6>1, <6>2
          <6> QED  BY <6>1, <6>2, <6>3
        <5>3. s2 \in Nat /\ s < s2
          <6>1. s2 \in Nat
            BY <1>11
          <6>2. ~(s2 < s) /\ s2 # s
            <7>1. s2 < s => At(s2) < At(s) /\ At(s2) \in Nat
              BY <6>1, <3>2, <1>1
            <7> QED  BY <7>1, <3>4, <4>2, <2>2, <3>3
          <6> QED  BY <6>1, <6>2, <3>2
        <5>4. ~(s2 < f)
          <6> SUFFICES ASSUME s2 < f PROVE FALSE
            OBVIOUS
          <6>1. s2 \in Frames /\ In(s2, gap) /\ In(s2, g2)
            <7>1. s2 < N
              <8>1. f < N
                BY <1>1, <3>2
              <8> QED  BY <8>1, <3>2, <5>3, <1>0
            <7>2. gap.start <= s2 /\ s2 < gap.end
              BY <3>2, <5>3 DEF f
            <7>3. g2.start <= s2 /\ s2 < g2.end
              BY <5>2, <5>3
            <7> QED  BY <1>1, <5>3, <7>1, <7>2, <7>3 DEF In
          <6>2. gap = g2
            BY <6>1, <3>2, <5>2, RunsMeet
          <6> QED  BY <6>2, <5>1, <3>1, <5>3, <3>2
        <5>5. s2 # f
          BY <5>2, <3>2
        <5>6. f < s2
          BY <5>3, <5>4, <5>5, <3>2
        <5> QED  BY <5>6, <5>3, <3>2, <1>1, <4>2
      <4>3. CASE y = E
        BY <4>3, <1>8, <3>2
      <4> QED  BY <4>1, <4>2, <4>3
    <3> QED  BY <3>2, <3>3, <3>4
  <2> QED  BY <1>15, <1>8, <2>1, <2>2
<1>16. \A f \in Frames : active[f] => At(first) <= At(f) /\ At(f) < E
  <2> SUFFICES ASSUME NEW f \in Frames, active[f]
               PROVE  At(first) <= At(f) /\ At(f) < E
    OBVIOUS
  <2>1. f \in Nat /\ first <= f /\ f < last
    BY <1>1, <1>6
  <2>2. first = f \/ At(first) < At(f)
    <3>1. first = f \/ first < f
      BY <2>1, <1>3
    <3> QED  BY <3>1, <2>1, <1>1, <1>3
  <2>3. At(first) \in Nat /\ At(f) \in Nat /\ At(f) < E
    BY <2>1, <1>1, <1>3, <1>8
  <2> QED  BY <2>2, <2>3
<1> HIDE DEF b
<1>17. /\ Len(b) \in Nat
       /\ \A i \in 1..Len(b) : b[i] \in bset
       /\ b \in Seq(Nat)
  <2>1. bset \subseteq Nat
    BY <1>12
  <2> HIDE DEF bset
  <2>2. Len(b) \in Nat /\ \A i \in 1..Len(b) : b[i] \in bset
    BY <1>13, LenProperties, ElementOfSeq
  <2> QED  BY <1>13, <2>1, <2>2, SeqMonotonic
<1> HIDE DEF bset
<1>18. Len(b) >= 2 /\ b[1] = At(first) /\ b[Len(b)] = E
  <2>1. PICK i \in 1..Len(b) : b[i] = At(first)
    BY <1>13, <1>14
  <2>2. PICK j \in 1..Len(b) : b[j] = E
    BY <1>13, <1>14
  <2>3. i # j
    BY <1>12, <1>14, <2>1, <2>2
  <2>4. 1 \in 1..Len(b) /\ Len(b) \in 1..Len(b)
    BY <1>17, <2>1
  <2>5. /\ At(first) <= b[1] /\ b[1] \in Nat /\ At(first) \in Nat
        /\ b[Len(b)] <= E /\ b[Len(b)] \in Nat /\ E \in Nat
    BY <1>12, <1>14, <1>17, <2>4
  <2>6. i = 1
    <3>1. 1 < i => b[1] < b[i]
      BY <1>13, <2>4
    <3> QED  BY <3>1, <2>1, <2>5, <1>17
  <2>7. j = Len(b)
    <3>1. j < Len(b) => b[j] < b[Len(b)]
      BY <1>13, <2>4
    <3> QED  BY <3>1, <2>2, <2>5, <1>17
  <2> QED  BY <2>1, <2>2, <2>3, <2>6, <2>7, <1>17
<1>19. ASSUME NEW i \in 1..(Len(b) - 1)
       PROVE  \E f \in Frames : active[f] /\ b[i] <= At(f) /\ At(f) < b[i + 1]
  <2>1. i \in 1..Len(b) /\ i + 1 \in 1..Len(b) /\ i < i + 1 /\ i < Len(b) /\ Len(b) \in 1..Len(b)
    BY <1>17
  <2>2. b[i] < b[i + 1] /\ b[i] < E
    BY <1>13, <1>18, <2>1
  <2> QED  BY <1>15, <1>17, <2>1, <2>2
<1>20. \A i \in 1..Len(b) : b[i] <= C /\ OnFrame(b[i])
  BY <1>12, <1>17
<1>21. Divides(b, active)
  BY <1>13, <1>16, <1>17, <1>18, <1>19, <1>20 DEF Divides, C
<1> QED  BY <1>5, <1>21
(* A segment holds the speech between its boundaries, and stays between them. *)
LEMMA PaddedHolds ==
  ASSUME NEW active \in [Frames -> BOOLEAN],
         NEW left \in Nat, NEW right \in Nat, right <= FrameCount, OnFrame(right),
         \E f \in Frames : active[f] /\ left <= At(f) /\ At(f) < right
  PROVE  LET s == Padded(active, left, right)
         IN  /\ s.start \in Nat /\ s.end \in Nat
             /\ left <= s.start /\ s.start < s.end /\ s.end <= right
             /\ \A f \in Frames : active[f] /\ left <= At(f) /\ At(f) < right =>
                  s.start <= At(f) /\ s.end >= Min({FrameCount, At(f + 1)})
<1> DEFINE N == FrameTotal
           C == FrameCount
           within == {f \in Frames : active[f] /\ left <= At(f) /\ At(f) < right}
           lo == Min(within)
           hi == Max(within)
           s == Padded(active, left, right)
<1>1. /\ N \in Nat /\ C \in Nat /\ Padding \in Nat
      /\ \A f \in Nat : At(f) \in Nat
      /\ \A f, g \in Nat : f < g => At(f) < At(g)
      /\ \A f \in Nat : f < N => At(f) < C
      /\ \A f : f \in Frames <=> f \in Nat /\ f < N
  BY FramesAndSamples, FrameNumbers, RowsAssumption
<1> HIDE DEF N
<1>2. within \in SUBSET Nat /\ within # {} /\ \A f \in within : f <= N
  BY <1>1
<1>3. lo \in within /\ \A f \in within : lo <= f
  <2> HIDE DEF within
  <2> QED  BY <1>2, LeastIn
<1>4. hi \in within /\ \A f \in within : f <= hi
  <2> HIDE DEF within
  <2> QED  BY <1>1, <1>2, GreatestIn
<1>5. s = [start |-> Max({left, At(lo) - Padding}),
           end |-> Min({right, C, At(hi + 1) + Padding})]
  BY DEF Padded, At
<1> HIDE DEF s, lo, hi
<1>6. /\ lo \in Nat /\ At(lo) \in Nat /\ left <= At(lo)
      /\ hi \in Nat /\ At(hi) \in Nat /\ At(hi) < right /\ At(hi) < C
      /\ At(hi + 1) \in Nat /\ At(hi) < At(hi + 1)
  <2>1. lo \in Nat /\ hi \in Nat /\ hi < N /\ left <= At(lo) /\ At(hi) < right
    BY <1>1, <1>3, <1>4
  <2>2. hi + 1 \in Nat /\ hi < hi + 1
    BY <2>1
  <2> QED  BY <2>1, <2>2, <1>1
<1>7. At(lo) <= At(hi)
  <2>1. lo = hi \/ lo < hi
    BY <1>3, <1>4, <1>6
  <2> QED  BY <2>1, <1>1, <1>6
<1> HIDE DEF C
<1>8. s.start = IF left <= At(lo) - Padding THEN At(lo) - Padding ELSE left
  <2>1. At(lo) - Padding \in Int /\ left \in Int
    BY <1>1, <1>6
  <2> QED  BY <2>1, <1>5, MaxOfTwo
<1>9. /\ s.end \in {right, C, At(hi + 1) + Padding}
      /\ s.end <= right /\ s.end <= C
  <2>1. right \in Int /\ C \in Int /\ At(hi + 1) + Padding \in Int
    BY <1>1, <1>6
  <2>2. s.end = Min({right, C, At(hi + 1) + Padding})
    BY <1>5
  <2>3. ASSUME NEW x \in Int
        PROVE  /\ Min({right, C, x}) \in {right, C, x}
               /\ Min({right, C, x}) <= right /\ Min({right, C, x}) <= C
    BY <2>1, MinOfThree
  <2> QED  BY <2>1, <2>2, <2>3
<1>10. s.start \in Nat /\ left <= s.start /\ s.start <= At(lo)
  BY <1>1, <1>6, <1>8
<1>11. s.end \in Nat /\ At(hi) < s.end
  BY <1>1, <1>6, <1>9
<1>12. ASSUME NEW f \in within
       PROVE  s.start <= At(f) /\ s.end >= Min({C, At(f + 1)})
  <2>1. f \in Nat /\ f + 1 \in Nat /\ lo <= f /\ f <= hi /\ At(f) < right
    BY <1>2, <1>3, <1>4
  <2>2. At(f) \in Nat /\ At(f + 1) \in Nat
    BY <1>1, <2>1
  <2>3. At(lo) <= At(f)
    <3>1. lo = f \/ lo < f
      BY <1>6, <2>1
    <3> QED  BY <3>1, <1>1, <1>6, <2>1, <2>2
  <2>4. At(f + 1) <= At(hi + 1)
    <3>1. (f = hi \/ f + 1 < hi + 1) /\ hi + 1 \in Nat
      BY <1>6, <2>1
    <3> QED  BY <3>1, <1>1, <1>6, <2>1, <2>2
  <2>5. Min({C, At(f + 1)}) = IF C <= At(f + 1) THEN C ELSE At(f + 1)
    BY <1>1, <2>2, MinOfTwo
  <2>6. right = C \/ At(f + 1) <= right
    <3> SUFFICES ASSUME NEW k \in Nat, right = At(k) PROVE At(f + 1) <= right
      BY DEF OnFrame, C
    <3>1. ~(k < f) /\ k # f
      <4>1. k < f => At(k) < At(f) /\ At(k) \in Nat
        BY <1>1, <2>1
      <4> QED  BY <4>1, <2>1, <2>2
    <3>2. k = f + 1 \/ f + 1 < k
      BY <3>1, <2>1
    <3> QED  BY <3>2, <1>1, <2>1, <2>2
  <2> QED  BY <1>1, <1>6, <1>9, <1>10, <2>2, <2>3, <2>4, <2>5, <2>6
<1>13. s.start < s.end
  BY <1>6, <1>7, <1>10, <1>11
<1> QED  BY <1>9, <1>10, <1>11, <1>12, <1>13 DEF s, C

NatSpan == [start : Nat, end : Nat]

(* What is said of the segments of a lane: they are in the track, in order,  *)
(* and without overlap.                                                    *)
Apart(segs) ==
  /\ segs \in Seq(NatSpan)
  /\ \A i \in 1..Len(segs) : segs[i].start < segs[i].end /\ segs[i].end <= FrameCount
  /\ \A i, j \in 1..Len(segs) : i < j => segs[i].end <= segs[j].start

LEMMA ApartShape ==
  ASSUME NEW segs, Apart(segs)
  PROVE  /\ Len(segs) \in Nat /\ DOMAIN segs = 1..Len(segs)
         /\ \A i \in 1..Len(segs) : segs[i].start \in Nat /\ segs[i].end \in Nat
         /\ \A i \in 1..Len(segs) : segs[i].start < segs[i].end
         /\ \A i, j \in 1..Len(segs) : i < j => segs[i].end <= segs[j].start
<1>1. segs \in Seq(NatSpan)
  BY DEF Apart
<1>2. Len(segs) \in Nat /\ DOMAIN segs = 1..Len(segs)
  BY <1>1, LenProperties
<1>3. ASSUME NEW i \in 1..Len(segs) PROVE segs[i].start \in Nat /\ segs[i].end \in Nat
  <2>1. segs[i] \in NatSpan
    BY <1>1, ElementOfSeq
  <2> QED  BY <2>1 DEF NatSpan
<1> QED  BY <1>2, <1>3 DEF Apart

LEMMA SegmentsApart ==
  ASSUME NEW values \in [Frames -> BOOLEAN]
  PROVE  /\ Apart(Segments(values))
         /\ \A f \in Frames : Smooth(values)[f] =>
              \E i \in 1..Len(Segments(values)) :
                /\ Segments(values)[i].start <= At(f)
                /\ Segments(values)[i].end >= Min({FrameCount, At(f + 1)})
<1> DEFINE active == Smooth(values)
           b == Boundaries(active)
           n == Len(b) - 1
           segs == Segments(values)
<1>1. active \in [Frames -> BOOLEAN]
  BY SmoothType
<1>2. CASE Runs(active, TRUE) = {}
  <2>1. segs = <<>>
    BY <1>2 DEF Segments
  <2>2. ASSUME NEW f \in Frames, active[f] PROVE FALSE
    <3>1. active[f] = TRUE
      BY <1>1, <2>2
    <3> HIDE DEF active
    <3> QED  BY <3>1, <1>1, <1>2, RunAround
  <2>3. Apart(<<>>)
    BY DEF Apart
  <2> QED  BY <2>1, <2>2, <2>3
<1>3. CASE Runs(active, TRUE) # {}
  <2>1. Divides(b, active)
    <3> HIDE DEF active
    <3> QED  BY <1>1, <1>3, BoundariesDivide
  <2>2. segs = [i \in 1..n |-> Padded(active, b[i], b[i + 1])]
    BY <1>3 DEF Segments
  <2> HIDE DEF active, b, segs
  <2>3. /\ Len(b) \in Nat /\ Len(b) >= 2
        /\ \A i \in 1..Len(b) : b[i] \in Nat /\ b[i] <= FrameCount /\ OnFrame(b[i])
        /\ \A i, j \in 1..Len(b) : i < j => b[i] < b[j]
    BY <2>1, LenProperties, ElementOfSeq DEF Divides
  <2>4. n \in Nat /\ \A i \in 1..n : i \in 1..Len(b) /\ i + 1 \in 1..Len(b)
    BY <2>3
  <2>5. ASSUME NEW i \in 1..n
        PROVE  /\ segs[i].start \in Nat /\ segs[i].end \in Nat
               /\ b[i] <= segs[i].start /\ segs[i].start < segs[i].end
               /\ segs[i].end <= b[i + 1]
               /\ \A f \in Frames : active[f] /\ b[i] <= At(f) /\ At(f) < b[i + 1] =>
                    /\ segs[i].start <= At(f)
                    /\ segs[i].end >= Min({FrameCount, At(f + 1)})
    <3>1. /\ b[i] \in Nat /\ b[i + 1] \in Nat /\ b[i + 1] <= FrameCount /\ OnFrame(b[i + 1])
          /\ \E f \in Frames : active[f] /\ b[i] <= At(f) /\ At(f) < b[i + 1]
      BY <2>1, <2>3, <2>4 DEF Divides
    <3>2. segs[i] = Padded(active, b[i], b[i + 1])
      BY <2>2
    <3> HIDE DEF n
    <3> QED  BY <3>1, <3>2, <1>1, PaddedHolds
  <2>6. ASSUME NEW i \in 1..n PROVE segs[i] \in NatSpan
    <3>1. segs[i] = [start |-> segs[i].start, end |-> segs[i].end]
      BY <2>2 DEF Padded
    <3> QED  BY <3>1, <2>5 DEF NatSpan
  <2>7. segs \in Seq(NatSpan) /\ Len(segs) = n
    <3>1. segs \in [1..n -> NatSpan]
      BY <2>2, <2>6
    <3>2. n \in Nat
      BY <2>4
    <3> HIDE DEF n
    <3> QED  BY <3>1, <3>2, FunctionIsSeq
  <2>8. ASSUME NEW i \in 1..n, NEW j \in 1..n, i < j PROVE segs[i].end <= segs[j].start
    <3>1. /\ segs[i].end <= b[i + 1] /\ b[j] <= segs[j].start
          /\ segs[i].end \in Nat /\ segs[j].start \in Nat
      BY <2>5
    <3>2. b[i + 1] \in Nat /\ b[j] \in Nat /\ b[i + 1] <= b[j]
      <4>1. i + 1 = j \/ i + 1 < j
        BY <2>8
      <4> QED  BY <4>1, <2>3, <2>4
    <3> QED  BY <3>1, <3>2
  <2>9. ASSUME NEW i \in 1..n PROVE segs[i].end <= FrameCount
    <3>1. /\ segs[i].end <= b[i + 1] /\ segs[i].end \in Nat
          /\ b[i + 1] \in Nat /\ b[i + 1] <= FrameCount
      BY <2>3, <2>4, <2>5
    <3>2. FrameCount \in Nat
      BY FramesAndSamples
    <3> QED  BY <3>1, <3>2
  <2>10. ASSUME NEW f \in Frames, active[f]
         PROVE  \E i \in 1..n : /\ segs[i].start <= At(f)
                                /\ segs[i].end >= Min({FrameCount, At(f + 1)})
    <3> DEFINE Above == {j \in 1..Len(b) : At(f) < b[j]}
    <3>1. b[1] <= At(f) /\ At(f) < b[Len(b)] /\ At(f) \in Nat
      BY <2>1, <2>10, FramesAndSamples, FrameNumbers DEF Divides
    <3>2. Above \in SUBSET Nat /\ Len(b) \in Above
      BY <2>3, <3>1
    <3>3. PICK j \in Above : \A k \in Above : j <= k
      <4> HIDE DEF Above
      <4> QED  BY <3>2, LeastNatural
    <3>4. j # 1
      BY <2>3, <3>1
    <3>5. j - 1 \in 1..n /\ (j - 1) + 1 = j
      BY <3>4, <2>3
    <3>6. j - 1 \notin Above /\ j - 1 \in 1..Len(b)
      BY <3>3, <3>5, <2>4
    <3>7. b[j - 1] <= At(f)
      BY <3>1, <3>6, <2>3
    <3>8. At(f) < b[(j - 1) + 1]
      BY <3>5
    <3> HIDE DEF n, Above
    <3> QED  BY <3>5, <3>7, <3>8, <2>5, <2>10
  <2> HIDE DEF n
  <2>11. Apart(segs)
    BY <2>5, <2>7, <2>8, <2>9 DEF Apart
  <2> QED  BY <2>7, <2>10, <2>11 DEF segs, active
<1> QED  BY <1>2, <1>3
----------------------------------------------------------------------------
(* bisect_left.                                                            *)

(* The recursion behind BisectLeft.                                        *)
Halves(values, x, search) ==
  search = [bounds \in (0..Len(values)) \X (0..Len(values)) |->
              LET middle == (bounds[1] + bounds[2]) \div 2
              IN  IF bounds[1] >= bounds[2] THEN bounds[1]
                  ELSE IF values[middle + 1] < x THEN search[<<middle + 1, bounds[2]>>]
                  ELSE search[<<bounds[1], middle>>]]

LEMMA BisectUnfolds ==
  ASSUME NEW values, NEW x
  PROVE  BisectLeft(values, x) = (CHOOSE g : Halves(values, x, g))[<<0, Len(values)>>]
BY DEF BisectLeft, Halves

(* It finds the place that has the smaller values before it, if there is one. *)
LEMMA BisectFinds ==
  ASSUME NEW n \in Nat, NEW values \in [1..n -> Int], Len(values) = n, NEW x \in Int,
         NEW p \in 0..n,
         \A k \in 1..p : values[k] < x, \A k \in (p + 1)..n : ~(values[k] < x)
  PROVE  BisectLeft(values, x) = p
<1> DEFINE Middle(lo, hi) == (lo + hi) \div 2
           Clamp(lo, hi) == IF lo >= hi \/ p <= lo THEN lo ELSE IF hi <= p THEN hi ELSE p
           clamped == [bounds \in (0..n) \X (0..n) |-> Clamp(bounds[1], bounds[2])]
           g == CHOOSE search : Halves(values, x, search)
<1>1. ASSUME NEW lo \in 0..n, NEW hi \in 0..n, lo < hi
      PROVE  Middle(lo, hi) \in lo..(hi - 1)
  BY <1>1
<1> HIDE DEF Middle
<1>2. ASSUME NEW lo \in 0..n, NEW hi \in 0..n
      PROVE  Clamp(lo, hi) = IF lo >= hi THEN lo
                             ELSE IF values[Middle(lo, hi) + 1] < x
                             THEN Clamp(Middle(lo, hi) + 1, hi) ELSE Clamp(lo, Middle(lo, hi))
  <2>1. CASE lo >= hi
    BY <2>1
  <2>2. CASE lo < hi
    <3> DEFINE m == Middle(lo, hi)
    <3>1. m \in lo..(hi - 1)
      BY <1>1, <2>2
    <3> HIDE DEF m
    <3>2. CASE m + 1 <= p
      <4>1. values[m + 1] < x
        BY <3>1, <3>2
      <4>2. Clamp(lo, hi) = Clamp(m + 1, hi)
        BY <3>1, <3>2, <2>2
      <4> QED  BY <4>1, <4>2, <2>2 DEF m
    <3>3. CASE p < m + 1
      <4>1. ~(values[m + 1] < x)
        BY <3>1, <3>3
      <4>2. Clamp(lo, hi) = Clamp(lo, m)
        BY <3>1, <3>3, <2>2
      <4> HIDE DEF Clamp
      <4>3. ~(lo >= hi)
        BY <2>2
      <4> QED  BY <4>1, <4>2, <4>3 DEF m
    <3> QED  BY <3>1, <3>2, <3>3
  <2> QED  BY <2>1, <2>2
<1>3. Halves(values, x, clamped)
  <2> DEFINE P == (0..n) \X (0..n)
             Body(bounds) ==
               LET middle == (bounds[1] + bounds[2]) \div 2
               IN  IF bounds[1] >= bounds[2] THEN bounds[1]
                   ELSE IF values[middle + 1] < x THEN clamped[<<middle + 1, bounds[2]>>]
                   ELSE clamped[<<bounds[1], middle>>]
  <2>1. ASSUME NEW bounds \in P PROVE clamped[bounds] = Body(bounds)
    <3>1. PICK lo \in 0..n, hi \in 0..n : bounds = <<lo, hi>>
      OBVIOUS
    <3>2. clamped[<<lo, hi>>] = Clamp(lo, hi)
      OBVIOUS
    <3>3. CASE lo >= hi
      BY <3>1, <3>3
    <3>4. CASE lo < hi
      <4> DEFINE m == (lo + hi) \div 2
      <4>1. m \in 0..n /\ m + 1 \in 0..n /\ m = Middle(lo, hi)
        <5>1. Middle(lo, hi) \in lo..(hi - 1)
          BY <1>1, <3>4
        <5> QED  BY <5>1 DEF Middle
      <4>2. Clamp(lo, hi) = IF values[m + 1] < x THEN Clamp(m + 1, hi) ELSE Clamp(lo, m)
        <5> HIDE DEF Clamp, m
        <5>1. ~(lo >= hi)
          BY <3>4
        <5> QED  BY <1>2, <4>1, <5>1
      <4>3. Body(<<lo, hi>>) = IF values[m + 1] < x THEN clamped[<<m + 1, hi>>]
                               ELSE clamped[<<lo, m>>]
        <5>1. ~(lo >= hi)
          BY <3>4
        <5> HIDE DEF clamped
        <5> QED  BY <5>1
      <4>4. clamped[<<m + 1, hi>>] = Clamp(m + 1, hi) /\ clamped[<<lo, m>>] = Clamp(lo, m)
        <5> HIDE DEF m, Clamp
        <5> QED  BY <4>1
      <4> HIDE DEF m, Clamp, clamped, Body
      <4> QED  BY <3>1, <3>2, <4>2, <4>3, <4>4
    <3> QED  BY <3>3, <3>4
  <2>2. clamped = [bounds \in P |-> clamped[bounds]]
    OBVIOUS
  <2>3. clamped = [bounds \in P |-> Body(bounds)]
    <3> HIDE DEF clamped, P, Body
    <3> QED  BY <2>1, <2>2
  <2> HIDE DEF clamped
  <2> QED  BY <2>3 DEF Halves
<1>4. Halves(values, x, g)
  <2> HIDE DEF clamped
  <2> QED  BY <1>3
<1> HIDE DEF g, clamped, Clamp
<1>5. ASSUME NEW lo \in 0..n, NEW hi \in 0..n, lo < hi
      PROVE  g[<<lo, hi>>] = IF values[Middle(lo, hi) + 1] < x
                             THEN g[<<Middle(lo, hi) + 1, hi>>] ELSE g[<<lo, Middle(lo, hi)>>]
  <2>1. <<lo, hi>> \in (0..n) \X (0..n) /\ ~(lo >= hi)
    BY <1>5
  <2> QED  BY <1>4, <2>1 DEF Halves, Middle
<1>6. ASSUME NEW lo \in 0..n PROVE g[<<lo, lo>>] = lo
  <2>1. <<lo, lo>> \in (0..n) \X (0..n) /\ lo >= lo
    OBVIOUS
  <2> QED  BY <1>4, <2>1 DEF Halves
<1> DEFINE Wrong(lo, hi) == lo <= p /\ p <= hi /\ g[<<lo, hi>>] # p
           Bad == {d \in 0..n : \E lo, hi \in 0..n : hi - lo = d /\ Wrong(lo, hi)}
<1>7. SUFFICES ASSUME Bad # {} PROVE FALSE
  <2>1. ASSUME Wrong(0, n) PROVE Bad # {}
    <3>1. n - 0 = n /\ n \in 0..n /\ 0 \in 0..n
      OBVIOUS
    <3> HIDE DEF Wrong
    <3> QED  BY <2>1, <3>1
  <2>2. ~Wrong(0, n)
    BY <2>1, <1>7
  <2>3. BisectLeft(values, x) = g[<<0, n>>]
    BY BisectUnfolds DEF g
  <2> QED  BY <2>2, <2>3
<1>8. PICK d \in Bad : \A e \in Bad : d <= e
  <2>1. Bad \in SUBSET Nat
    OBVIOUS
  <2> HIDE DEF Bad
  <2> QED  BY <1>7, <2>1, LeastNatural
<1>9. PICK lo \in 0..n, hi \in 0..n : hi - lo = d /\ Wrong(lo, hi)
  BY <1>8
<1>10. lo < hi
  <2>1. lo # hi
    BY <1>6, <1>9
  <2> QED  BY <2>1, <1>9
<1> DEFINE m == Middle(lo, hi)
<1>11. m \in lo..(hi - 1)
  BY <1>1, <1>10
<1>12. ASSUME NEW a \in 0..n, NEW c \in 0..n, a <= c, c - a < d PROVE ~Wrong(a, c)
  <2>1. c - a \notin Bad /\ c - a \in 0..n
    <3>1. c - a \in 0..n /\ d \in 0..n /\ ~(d <= c - a)
      BY <1>12
    <3> HIDE DEF Bad
    <3> QED  BY <3>1, <1>8
  <2> HIDE DEF Wrong
  <2> QED  BY <2>1
<1>13. g[<<lo, hi>>] = IF values[m + 1] < x THEN g[<<m + 1, hi>>] ELSE g[<<lo, m>>]
  <2> HIDE DEF Middle, Bad
  <2> QED  BY <1>5, <1>10
<1> HIDE DEF m
<1>14. CASE m + 1 <= p
  <2>1. values[m + 1] < x
    BY <1>11, <1>14
  <2>2. g[<<lo, hi>>] = g[<<m + 1, hi>>]
    BY <1>13, <2>1
  <2>3. Wrong(m + 1, hi)
    BY <1>9, <1>14, <2>2
  <2>4. m + 1 \in 0..n /\ m + 1 <= hi /\ hi - (m + 1) < d
    BY <1>9, <1>11
  <2> HIDE DEF Wrong
  <2> QED  BY <2>3, <2>4, <1>12
<1>15. CASE p < m + 1
  <2>1. ~(values[m + 1] < x)
    BY <1>11, <1>15
  <2>2. g[<<lo, hi>>] = g[<<lo, m>>]
    BY <1>13, <2>1
  <2>3. p <= m
    BY <1>11, <1>15
  <2>4. Wrong(lo, m)
    BY <1>9, <2>2, <2>3
  <2>5. m \in 0..n /\ lo <= m /\ m - lo < d
    BY <1>9, <1>11
  <2> HIDE DEF Wrong
  <2> QED  BY <2>4, <2>5, <1>12
<1> QED  BY <1>11, <1>14, <1>15
----------------------------------------------------------------------------
(* The words of a row.                                                     *)

Earlier(v, w) == v.start < w.start \/ (v.start = w.start /\ v.end < w.end)

LEMMA TokensSorted ==
  ASSUME NEW lane, words[lane] \in SUBSET Span, IsFiniteSet(words[lane])
  PROVE  LET t == Tokens(lane)
         IN  /\ t \in Seq(words[lane])
             /\ \A w \in words[lane] : \E i \in 1..Len(t) : t[i] = w
             /\ \A i, j \in 1..Len(t) : i < j => Earlier(t[i], t[j])
<1> DEFINE S == words[lane]
           R == {p \in S \X S : p[1].start < p[2].start
                                  \/ (p[1].start = p[2].start /\ p[1].end < p[2].end)}
<1>1. \A v, w \in S : <<v, w>> \in R <=> Earlier(v, w)
  BY DEF Earlier
<1>2. \A v, w : <<v, w>> \in R => v \in S /\ w \in S
  OBVIOUS
<1>3. Tokens(lane) = Ranked(S, R)
  BY DEF Tokens, Sorted
<1> HIDE DEF R
<1>4. \A v \in S : v.start \in Int /\ v.end \in Int /\ v = [start |-> v.start, end |-> v.end]
  BY DEF Span
<1>5. Orders(R, S)
  <2>1. ASSUME NEW v \in S, NEW w \in S, v # w PROVE Earlier(v, w) \/ Earlier(w, v)
    <3>1. v.start # w.start \/ v.end # w.end
      BY <1>4, <2>1
    <3> QED  BY <1>4, <3>1 DEF Earlier
  <2>2. ASSUME NEW v \in S PROVE ~Earlier(v, v)
    BY <1>4 DEF Earlier
  <2>3. ASSUME NEW u \in S, NEW v \in S, NEW w \in S, Earlier(u, v), Earlier(v, w)
        PROVE  Earlier(u, w)
    BY <1>4, <2>3 DEF Earlier
  <2> QED  BY <1>1, <2>1, <2>2, <2>3 DEF Orders
<1>6. Enumerates(Ranked(S, R), S, R)
  BY <1>5, RankedEnumerates
<1> HIDE DEF S
<1>7. \A i, j \in 1..Len(Ranked(S, R)) : i < j =>
        Earlier(Ranked(S, R)[i], Ranked(S, R)[j])
  BY <1>1, <1>2, <1>6 DEF Enumerates
<1> QED  BY <1>3, <1>6, <1>7 DEF Enumerates, S

(* The words from one place up to another.                                  *)
LEMMA SubSeqElements ==
  ASSUME NEW S, NEW s \in Seq(S), NEW a \in 0..Len(s), NEW b \in 0..Len(s)
  PROVE  /\ ToSet(SubSeq(s, a + 1, b)) = {s[k] : k \in (a + 1)..b}
         /\ SubSeq(s, a + 1, b) = <<>> <=> ToSet(SubSeq(s, a + 1, b)) = {}
<1> DEFINE t == SubSeq(s, a + 1, b)
<1>0. Len(s) \in Nat /\ \A k \in 1..Len(s) : s[k] \in S
  BY LenProperties, ElementOfSeq
<1>1. /\ t \in Seq(S)
      /\ Len(t) = IF a + 1 <= b THEN b - a ELSE 0
      /\ \A i \in 1..(b - a) : t[i] = s[a + i]
  <2>1. \A k \in (a + 1)..b : s[k] \in S
    BY <1>0
  <2>2. /\ t \in Seq(S)
        /\ Len(t) = IF a + 1 <= b THEN b - (a + 1) + 1 ELSE 0
        /\ \A i \in 1..(b - (a + 1) + 1) : t[i] = s[(a + 1) + i - 1]
    BY <2>1, SubSeqProperties, a + 1 \in Int, b \in Int
  <2> HIDE DEF t
  <2>3. b - (a + 1) + 1 = b - a
    BY <1>0
  <2>4. \A i \in 1..(b - a) : (a + 1) + i - 1 = a + i
    BY <1>0
  <2> QED  BY <2>2, <2>3, <2>4
<1> HIDE DEF t
<1>2. DOMAIN t = 1..Len(t) /\ Len(t) \in Nat
  BY <1>1, LenProperties
<1>3. ToSet(t) = {t[i] : i \in 1..Len(t)}
  BY <1>2 DEF ToSet
<1>4. t = <<>> <=> ToSet(t) = {}
  <2>1. Len(t) = 0 <=> t = <<>>
    BY <1>1, EmptySeq
  <2>2. Len(t) # 0 => 1 \in 1..Len(t)
    BY <1>2
  <2>3. Len(t) = 0 => 1..Len(t) = {}
    BY <1>2
  <2> QED  BY <1>3, <2>1, <2>2, <2>3
<1>5. ASSUME NEW k \in (a + 1)..b PROVE s[k] \in ToSet(t)
  <2>1. k - a \in 1..Len(t) /\ k - a \in 1..(b - a) /\ a + (k - a) = k
    BY <1>0, <1>1
  <2>2. t[k - a] = s[a + (k - a)]
    BY <2>1, <1>1
  <2>3. t[k - a] = s[k]
    BY <2>1, <2>2
  <2> QED  BY <2>1, <2>3, <1>3
<1>6. ASSUME NEW i \in 1..Len(t) PROVE \E k \in (a + 1)..b : t[i] = s[k]
  <2>1. a + i \in (a + 1)..b /\ i \in 1..(b - a)
    BY <1>0, <1>1
  <2> QED  BY <2>1, <1>1
<1>7. ASSUME NEW x \in ToSet(t) PROVE x \in {s[k] : k \in (a + 1)..b}
  <2>1. PICK i \in 1..Len(t) : x = t[i]
    BY <1>3
  <2> QED  BY <2>1, <1>6
<1>8. ASSUME NEW x \in {s[k] : k \in (a + 1)..b} PROVE x \in ToSet(t)
  <2>1. PICK k \in (a + 1)..b : x = s[k]
    OBVIOUS
  <2> QED  BY <2>1, <1>5
<1>9. ToSet(t) = {s[k] : k \in (a + 1)..b}
  BY <1>7, <1>8
<1> QED  BY <1>4, <1>9 DEF t

(* A time with the middles of the first words, in their order, before it.    *)
Separates(x, lane) ==
  \A v, w \in words[lane] :
    Earlier(v, w) /\ w.start + w.end < x => v.start + v.end < x

LEMMA BisectMiddles ==
  ASSUME NEW lane, NEW t \in Seq(Span), NEW x \in Int,
         \A i \in 1..Len(t) : t[i] \in words[lane],
         \A i, j \in 1..Len(t) : i < j => Earlier(t[i], t[j]),
         Separates(x, lane)
  PROVE  LET p == BisectLeft([i \in DOMAIN t |-> t[i].start + t[i].end], x)
         IN  /\ p \in 0..Len(t)
             /\ \A k \in 1..Len(t) : k <= p <=> t[k].start + t[k].end < x
<1> DEFINE n == Len(t)
           middles == [i \in DOMAIN t |-> t[i].start + t[i].end]
           Bound == {p \in 0..n : \A k \in (p + 1)..n : ~(middles[k] < x)}
<1>1. n \in Nat /\ DOMAIN t = 1..n /\ \A i \in 1..n : t[i] \in Span
  BY LenProperties, ElementOfSeq
<1>2. middles \in [1..n -> Int] /\ \A i \in 1..n : middles[i] = t[i].start + t[i].end
  BY <1>1 DEF Span
<1>3. Len(middles) = n
  <2> HIDE DEF middles, n
  <2> QED  BY <1>1, <1>2, FunctionIsSeq
<1>4. \A i, k \in 1..n : i < k /\ middles[k] < x => middles[i] < x
  <2> HIDE DEF middles
  <2> QED  BY <1>2 DEF Separates
<1> HIDE DEF middles, n
<1>5. n \in Bound /\ Bound \in SUBSET Nat
  BY <1>1
<1>6. PICK p \in Bound : \A q \in Bound : p <= q
  <2> HIDE DEF Bound
  <2> QED  BY <1>5, LeastNatural
<1>7. p \in 0..n /\ \A k \in (p + 1)..n : ~(middles[k] < x)
  BY <1>6
<1>8. p > 0 => middles[p] < x
  <2> SUFFICES ASSUME p > 0, ~(middles[p] < x) PROVE FALSE
    OBVIOUS
  <2>1. p - 1 \in 0..n
    BY <1>1, <1>7
  <2>2. ASSUME NEW k \in ((p - 1) + 1)..n PROVE ~(middles[k] < x)
    <3>1. k = p \/ k \in (p + 1)..n
      BY <1>1, <1>7
    <3> QED  BY <3>1, <1>7
  <2>3. p - 1 \in Bound
    BY <2>1, <2>2
  <2> QED  BY <1>6, <1>7, <2>3
<1>9. \A k \in 1..p : middles[k] < x
  <2> TAKE k \in 1..p
  <2>1. p \in 1..n /\ k \in 1..n /\ p > 0 /\ (k = p \/ k < p)
    BY <1>1, <1>7
  <2> QED  BY <1>4, <1>8, <2>1
<1>10. BisectLeft(middles, x) = p
  <2> HIDE DEF Bound
  <2> QED  BY <1>1, <1>2, <1>3, <1>7, <1>9, BisectFinds
<1>11. \A k \in 1..n : k <= p <=> middles[k] < x
  <2> TAKE k \in 1..n
  <2>1. k \in 1..p \/ k \in (p + 1)..n
    BY <1>1, <1>7
  <2> QED  BY <2>1, <1>1, <1>7, <1>9
<1> QED  BY <1>2, <1>7, <1>10, <1>11 DEF middles, n

MiddleIn(w, span) ==
  2 * span.start =< w.start + w.end /\ w.start + w.end < 2 * span.end

LEMMA WordsOfSpan ==
  ASSUME NEW lane, words[lane] \in SUBSET Span, IsFiniteSet(words[lane]),
         NEW span, span.start \in Int, span.end \in Int,
         Separates(2 * span.start, lane), Separates(2 * span.end, lane)
  PROVE  /\ ToSet(WordsOf(lane, span)) = {w \in words[lane] : MiddleIn(w, span)}
         /\ WordsOf(lane, span) = <<>> <=> {w \in words[lane] : MiddleIn(w, span)} = {}
<1> DEFINE t == Tokens(lane)
           middles == [i \in DOMAIN t |-> t[i].start + t[i].end]
           a == BisectLeft(middles, 2 * span.start)
           b == BisectLeft(middles, 2 * span.end)
<1>1. /\ t \in Seq(words[lane])
      /\ \A w \in words[lane] : \E i \in 1..Len(t) : t[i] = w
      /\ \A i, j \in 1..Len(t) : i < j => Earlier(t[i], t[j])
  BY TokensSorted
<1>2. WordsOf(lane, span) = SubSeq(t, a + 1, b)
  BY DEF WordsOf
<1> HIDE DEF t
<1>3. /\ t \in Seq(Span) /\ Len(t) \in Nat
      /\ \A i \in 1..Len(t) : t[i] \in words[lane]
  BY <1>1, LenProperties, ElementOfSeq, SeqMonotonic
<1>4. /\ a \in 0..Len(t) /\ \A k \in 1..Len(t) : k <= a <=> t[k].start + t[k].end < 2 * span.start
      /\ b \in 0..Len(t) /\ \A k \in 1..Len(t) : k <= b <=> t[k].start + t[k].end < 2 * span.end
  <2>1. 2 * span.start \in Int /\ 2 * span.end \in Int
    OBVIOUS
  <2> QED  BY <1>1, <1>3, <2>1, BisectMiddles
<1> HIDE DEF a, b
<1>5. ASSUME NEW k \in 1..Len(t) PROVE k \in (a + 1)..b <=> MiddleIn(t[k], span)
  <2>1. PICK m \in Int : m = t[k].start + t[k].end
    <3>1. t[k] \in Span
      BY <1>3
    <3>2. t[k].start \in Int /\ t[k].end \in Int
      BY <3>1 DEF Span
    <3> QED  BY <3>2
  <2>2. PICK x \in Int : x = 2 * span.start
    OBVIOUS
  <2>3. k \in (a + 1)..b <=> ~(k <= a) /\ k <= b
    BY <1>3, <1>4
  <2>4. (k <= a <=> m < x) /\ (k <= b <=> m < 2 * span.end)
    BY <1>4, <2>1, <2>2
  <2>5. MiddleIn(t[k], span) <=> x <= m /\ m < 2 * span.end
    BY <2>1, <2>2 DEF MiddleIn
  <2>6. x <= m <=> ~(m < x)
    BY <2>1, <2>2
  <2> QED  BY <2>3, <2>4, <2>5, <2>6
<1>6. {t[k] : k \in (a + 1)..b} = {w \in words[lane] : MiddleIn(w, span)}
  <2>1. \A k \in (a + 1)..b : k \in 1..Len(t)
    BY <1>3, <1>4
  <2>2. ASSUME NEW k \in (a + 1)..b PROVE t[k] \in words[lane] /\ MiddleIn(t[k], span)
    BY <1>3, <1>5, <2>1
  <2>3. ASSUME NEW w \in words[lane], MiddleIn(w, span)
        PROVE  \E k \in (a + 1)..b : w = t[k]
    <3>1. PICK k \in 1..Len(t) : t[k] = w
      BY <1>1
    <3> QED  BY <1>5, <2>3, <3>1
  <2> QED  BY <2>2, <2>3
<1>7. /\ ToSet(SubSeq(t, a + 1, b)) = {t[k] : k \in (a + 1)..b}
      /\ SubSeq(t, a + 1, b) = <<>> <=> ToSet(SubSeq(t, a + 1, b)) = {}
  BY <1>3, <1>4, SubSeqElements
<1> QED  BY <1>2, <1>6, <1>7
----------------------------------------------------------------------------
(* The inductive invariant.                                                *)

(* The segments are those of the loud frames; words were heard in them.      *)
Typed ==
  /\ \A lane \in Lanes : loud[lane] \in [Frames -> BOOLEAN]
  /\ heard \in [Lanes -> Nat]
  /\ DOMAIN words = Lanes
  /\ stage \in {"prepared", "segmented", "transcribed", "drafted", "preserved", "refused"}

Segmented ==
  IF stage = "prepared" THEN segments = [lane \in Lanes |-> <<>>]
  ELSE segments = [lane \in Lanes |-> Segments(loud[lane])]

WordsHeard(lane) ==
  /\ words[lane] \in SUBSET Span /\ IsFiniteSet(words[lane])
  /\ \A w \in words[lane] :
       \E i \in 1..Len(segments[lane]) : Within(w, segments[lane][i])

Answered ==
  /\ stage = "drafted" => rows = Sorted(SegmentRows, Before)
  /\ stage = "preserved" =>
       \E asked \in Preserved : rows = [i \in DOMAIN asked |-> RowOf(asked[i])]

IInv ==
  /\ Typed
  /\ Segmented
  /\ stage = "prepared" => \A lane \in Lanes : words[lane] = {}
  /\ \A lane \in Lanes : WordsHeard(lane)
  /\ Answered

LEMMA LanesApart ==
  ASSUME IInv, NEW lane \in Lanes
  PROVE  Apart(segments[lane])
<1>1. CASE stage = "prepared"
  <2>1. segments[lane] = <<>>
    BY <1>1 DEF IInv, Segmented
  <2> QED  BY <2>1 DEF Apart
<1>2. CASE stage # "prepared"
  <2>1. segments[lane] = Segments(loud[lane]) /\ loud[lane] \in [Frames -> BOOLEAN]
    BY <1>2 DEF IInv, Typed, Segmented
  <2> QED  BY <2>1, SegmentsApart
<1> QED  BY <1>1, <1>2

LEMMA InitIInv == Init => IInv
<1> SUFFICES ASSUME Init PROVE IInv
  OBVIOUS
<1> USE DEF Init
<1>1. Typed
  <2>1. ASSUME NEW lane \in Lanes PROVE loud[lane] \in [Frames -> BOOLEAN]
    <3>1. loud[lane] \in Loudness[lane]
      OBVIOUS
    <3>2. Loudness[lane] \in SUBSET [Frames -> BOOLEAN]
      BY RowsAssumption
    <3> QED  BY <3>1, <3>2
  <2>2. heard \in [Lanes -> Nat] /\ DOMAIN words = Lanes /\ stage = "prepared"
    OBVIOUS
  <2> QED  BY <2>1, <2>2 DEF Typed
<1>2. \A lane \in Lanes : words[lane] = {}
  OBVIOUS
<1>3. \A lane \in Lanes : WordsHeard(lane)
  BY <1>2, FS_EmptySet DEF WordsHeard
<1>4. Segmented /\ Answered
  BY DEF Segmented, Answered
<1> QED  BY <1>1, <1>2, <1>3, <1>4 DEF IInv

(* What the recognizer may be heard to say in a segment.                    *)
Spans(segment, spans) ==
  {word \in {[start |-> segment.start + span.start,
              end |-> segment.start + span.end] : span \in spans} :
     Within(word, segment)}

LEMMA SpansFinite ==
  ASSUME NEW segment \in NatSpan, NEW spans \in SUBSET Speech
  PROVE  Spans(segment, spans) \in SUBSET Span /\ IsFiniteSet(Spans(segment, spans))
<1> DEFINE f == [span \in spans |-> [start |-> segment.start + span.start,
                                     end |-> segment.start + span.end]]
           T == {f[span] : span \in spans}
<1>1. IsFiniteSet(spans) /\ spans \in SUBSET Span
  BY FS_Subset, RowsAssumption
<1>2. f \in Surjection(spans, T)
  <2>1. f \in [spans -> T] /\ \A t \in T : \E span \in spans : f[span] = t
    OBVIOUS
  <2> HIDE DEF f, T
  <2> QED  BY <2>1 DEF Surjection
<1>3. IsFiniteSet(T)
  <2> HIDE DEF f, T
  <2> QED  BY <1>1, <1>2, FS_Surjection
<1>4. Spans(segment, spans) \in SUBSET T
  BY DEF Spans
<1>5. T \in SUBSET Span
  <2>1. ASSUME NEW span \in spans PROVE f[span] \in Span
    BY <1>1 DEF Span, NatSpan
  <2> QED  BY <2>1
<1> HIDE DEF T
<1> QED  BY <1>3, <1>4, <1>5, FS_Subset

(* The rows depend on the segments and the words alone.                     *)
LEMMA RowsKept ==
  ASSUME UNCHANGED <<segments, words>>
  PROVE  SegmentRows' = SegmentRows /\ \A row : RowOf(row)' = RowOf(row)
<1>1. ASSUME NEW lane PROVE Tokens(lane)' = Tokens(lane)
  BY DEF Tokens, Sorted
<1>2. ASSUME NEW lane, NEW span PROVE WordsOf(lane, span)' = WordsOf(lane, span)
  BY <1>1 DEF WordsOf
<1>3. SegmentRows' = SegmentRows
  BY <1>2 DEF SegmentRows
<1>4. ASSUME NEW row PROVE RowOf(row)' = RowOf(row)
  BY <1>2 DEF RowOf, Kept
<1> QED  BY <1>3, <1>4

LEMMA NextIInv == IInv /\ [Next]_vars => IInv'
<1> SUFFICES ASSUME IInv, [Next]_vars PROVE IInv'
  OBVIOUS
<1> USE DEF IInv
<1>1. CASE SegmentTracks
  <2> USE <1>1 DEF SegmentTracks
  <2>1. Typed'
    BY DEF Typed
  <2>2. Segmented'
    BY DEF Segmented
  <2>3. \A lane \in Lanes : WordsHeard(lane)'
    <3>1. \A lane \in Lanes : words[lane] = {} /\ words'[lane] = {}
      OBVIOUS
    <3> QED  BY <3>1, FS_EmptySet DEF WordsHeard
  <2>4. Answered'
    BY DEF Answered
  <2> QED  BY <2>1, <2>2, <2>3, <2>4
<1>2. ASSUME NEW lane \in Lanes, TranscribeSegment(lane) PROVE IInv'
  <2> USE <1>2
  <2>1. /\ stage = "segmented" /\ stage' = stage /\ segments' = segments /\ loud' = loud
        /\ rows' = rows
        /\ heard[lane] < Len(segments[lane])
        /\ heard' = [heard EXCEPT ![lane] = @ + 1]
    BY DEF TranscribeSegment
  <2> DEFINE n == heard[lane] + 1
             segment == segments[lane][n]
  <2>2. PICK spans \in SUBSET Speech :
          words' = [words EXCEPT ![lane] = @ \cup Spans(segment, spans)]
    BY DEF TranscribeSegment, Spans
  <2>3. n \in 1..Len(segments[lane]) /\ segment \in NatSpan
    <3>1. heard[lane] \in Nat
      BY DEF Typed
    <3>2. segments[lane] \in Seq(NatSpan)
      BY LanesApart DEF Apart
    <3>3. Len(segments[lane]) \in Nat
      BY <3>2, LenProperties
    <3>4. n \in 1..Len(segments[lane])
      BY <2>1, <3>1, <3>3
    <3> HIDE DEF n
    <3> QED  BY <3>2, <3>4, ElementOfSeq
  <2>4. Typed'
    BY <2>1, <2>2 DEF Typed
  <2>5. Segmented' /\ Answered'
    BY <2>1 DEF Segmented, Answered
  <2>6. WordsHeard(lane)'
    <3>1. words'[lane] = words[lane] \cup Spans(segment, spans)
      BY <2>2 DEF Typed
    <3>2. /\ words[lane] \in SUBSET Span /\ IsFiniteSet(words[lane])
          /\ \A w \in words[lane] :
               \E i \in 1..Len(segments[lane]) : Within(w, segments[lane][i])
      BY DEF WordsHeard
    <3>3. Spans(segment, spans) \in SUBSET Span /\ IsFiniteSet(Spans(segment, spans))
      BY <2>3, SpansFinite
    <3>4. IsFiniteSet(words'[lane])
      BY <3>1, <3>2, <3>3, FS_Union
    <3>5. \A w \in Spans(segment, spans) : Within(w, segments[lane][n])
      BY DEF Spans
    <3> HIDE DEF n, segment
    <3> QED  BY <2>1, <2>3, <3>1, <3>2, <3>3, <3>4, <3>5 DEF WordsHeard
  <2>7. ASSUME NEW l \in Lanes, l # lane PROVE WordsHeard(l)'
    <3>1. words'[l] = words[l]
      BY <2>2, <2>7 DEF Typed
    <3>2. WordsHeard(l)
      OBVIOUS
    <3> QED  BY <2>1, <3>1, <3>2 DEF WordsHeard
  <2>8. stage' # "prepared"
    BY <2>1
  <2> HIDE DEF n
  <2> QED  BY <2>4, <2>5, <2>6, <2>7, <2>8
<1>3. ASSUME UNCHANGED <<loud, segments, words, heard>>, stage # "prepared", stage' # "prepared",
             stage' \in {"transcribed", "drafted", "preserved", "refused"}, Answered'
      PROVE  IInv'
  BY <1>3 DEF Typed, Segmented, WordsHeard
<1>4. CASE Transcribed
  <2>1. Answered'
    BY <1>4 DEF Transcribed, Answered
  <2> QED  BY <1>3, <1>4, <2>1 DEF Transcribed
<1>5. CASE Draft
  <2>1. SegmentRows' = SegmentRows
    BY <1>5, RowsKept DEF Draft
  <2>2. Answered'
    BY <1>5, <2>1 DEF Draft, Answered
  <2> QED  BY <1>3, <1>5, <2>2 DEF Draft
<1>6. ASSUME NEW asked \in Preserved, DraftPreserved(asked) PROVE IInv'
  <2>1. \A row : RowOf(row)' = RowOf(row)
    BY <1>6, RowsKept DEF DraftPreserved
  <2>2. Answered'
    BY <1>6, <2>1 DEF DraftPreserved, Answered
  <2> QED  BY <1>3, <1>6, <2>2 DEF DraftPreserved
<1>7. CASE ModelFails
  <2>1. Answered'
    BY <1>7 DEF ModelFails, Answered
  <2> QED  BY <1>3, <1>7, <2>1 DEF ModelFails
<1>8. CASE UNCHANGED vars
  <2>1. SegmentRows' = SegmentRows
    BY <1>8, RowsKept DEF vars
  <2>2. \A row : RowOf(row)' = RowOf(row)
    BY <1>8, RowsKept DEF vars
  <2>3. Answered'
    BY <1>8, <2>1, <2>2 DEF vars, Answered
  <2> QED  BY <1>8, <2>3 DEF vars, Typed, Segmented, WordsHeard
<1> QED  BY <1>1, <1>2, <1>4, <1>5, <1>6, <1>7, <1>8 DEF Next

LEMMA SpecIInv == Spec => []IInv
<1> QED  BY InitIInv, NextIInv, PTL DEF Spec
----------------------------------------------------------------------------
(* The invariant is enough.                                                *)

LEMMA SpeechHeld == IInv => SpeechInOneSegment
<1> SUFFICES ASSUME IInv, stage # "prepared", NEW lane \in Lanes
             PROVE  /\ \A f \in Frames : Spoken(loud[lane], f) =>
                         \E i \in DOMAIN segments[lane] :
                           /\ segments[lane][i].start =< f * FrameSamples
                           /\ segments[lane][i].end >= Min({FrameCount, (f + 1) * FrameSamples})
                    /\ \A i \in DOMAIN segments[lane] :
                         /\ 0 =< segments[lane][i].start
                         /\ segments[lane][i].start < segments[lane][i].end
                         /\ segments[lane][i].end =< FrameCount
                         /\ i > 1 => segments[lane][i - 1].end =< segments[lane][i].start
  BY DEF SpeechInOneSegment
<1> DEFINE segs == segments[lane]
<1>1. segs = Segments(loud[lane]) /\ loud[lane] \in [Frames -> BOOLEAN]
  BY DEF IInv, Typed, Segmented
<1>2. /\ Apart(segs)
      /\ \A f \in Frames : Smooth(loud[lane])[f] =>
           \E i \in 1..Len(segs) :
             segs[i].start <= At(f) /\ segs[i].end >= Min({FrameCount, At(f + 1)})
  BY <1>1, SegmentsApart
<1> HIDE DEF segs
<1>3. /\ DOMAIN segs = 1..Len(segs) /\ Len(segs) \in Nat
      /\ \A i \in 1..Len(segs) : segs[i].start \in Nat
  BY <1>2, ApartShape
<1>4. ASSUME NEW f \in Frames, Spoken(loud[lane], f)
      PROVE  \E i \in DOMAIN segs :
               /\ segs[i].start =< f * FrameSamples
               /\ segs[i].end >= Min({FrameCount, (f + 1) * FrameSamples})
  <2>1. Smooth(loud[lane])[f]
    BY <1>1, <1>4, SpokenIsActive
  <2> QED  BY <2>1, <1>2, <1>3 DEF At
<1>5. ASSUME NEW i \in DOMAIN segs
      PROVE  /\ 0 =< segs[i].start /\ segs[i].start < segs[i].end /\ segs[i].end =< FrameCount
             /\ i > 1 => segs[i - 1].end =< segs[i].start
  <2>1. i > 1 => i - 1 \in 1..Len(segs) /\ i - 1 < i
    BY <1>3
  <2> QED  BY <2>1, <1>2, <1>3 DEF Apart
<1> QED  BY <1>4, <1>5 DEF segs

(* A word lies within one segment, and its middle in that segment alone.     *)
LEMMA OwnWords ==
  ASSUME IInv, NEW lane \in Lanes, NEW i \in 1..Len(segments[lane])
  PROVE  /\ ToSet(WordsOf(lane, segments[lane][i]))
              = {w \in words[lane] : Within(w, segments[lane][i])}
         /\ WordsOf(lane, segments[lane][i]) = <<>>
              <=> {w \in words[lane] : Within(w, segments[lane][i])} = {}
<1> DEFINE segs == segments[lane]
           s == segs[i]
<1>1. /\ Len(segs) \in Nat
      /\ \A k \in 1..Len(segs) : segs[k].start \in Nat /\ segs[k].end \in Nat
      /\ \A k \in 1..Len(segs) : segs[k].start < segs[k].end
      /\ \A k, l \in 1..Len(segs) : k < l => segs[k].end <= segs[l].start
  BY LanesApart, ApartShape
<1>2. /\ words[lane] \in SUBSET Span /\ IsFiniteSet(words[lane])
      /\ \A w \in words[lane] : \E k \in 1..Len(segs) : Within(w, segs[k])
  BY DEF IInv, WordsHeard
<1> HIDE DEF segs
(* Where a word is, told by its middle.                                     *)
<1>3. ASSUME NEW w \in words[lane], NEW k \in 1..Len(segs), Within(w, segs[k])
      PROVE  /\ w.start \in Int /\ w.end \in Int
             /\ segs[k].start <= w.start /\ w.start < w.end /\ w.end <= segs[k].end
             /\ 2 * segs[k].start < w.start + w.end /\ w.start + w.end < 2 * segs[k].end
  <2>1. w.start \in Int /\ w.end \in Int
    BY <1>2 DEF Span
  <2>2. segs[k].start \in Nat /\ segs[k].end \in Nat
    BY <1>1
  <2>3. segs[k].start <= w.start /\ w.start < w.end /\ w.end <= segs[k].end
    BY <1>3, <2>1, <2>2 DEF Within
  <2>4. ASSUME NEW a \in Nat, NEW b \in Int, NEW c \in Int, NEW d \in Nat, a <= b, b < c, c <= d
        PROVE  2 * a < b + c /\ b + c < 2 * d
    BY <2>4
  <2> QED  BY <2>1, <2>2, <2>3, <2>4
<1>4. ASSUME NEW k \in 1..Len(segs), NEW l \in 1..Len(segs), k <= l
      PROVE  segs[k].start <= segs[l].start /\ segs[k].end <= segs[l].end
  <2>1. CASE k = l
    BY <2>1, <1>1
  <2>2. CASE k < l
    <3>1. /\ segs[k].end <= segs[l].start /\ segs[k].start < segs[k].end
          /\ segs[l].start < segs[l].end
          /\ segs[k].start \in Nat /\ segs[k].end \in Nat
          /\ segs[l].start \in Nat /\ segs[l].end \in Nat
      BY <1>1, <2>2
    <3> QED  BY <3>1
  <2> QED  BY <1>1, <1>4, <2>1, <2>2
<1>5. ASSUME NEW v \in words[lane], NEW w \in words[lane], Earlier(v, w),
             NEW j \in 1..Len(segs), Within(w, segs[j]),
             NEW k \in 1..Len(segs), Within(v, segs[k])
      PROVE  k <= j
  <2> SUFFICES ASSUME j < k PROVE FALSE
    BY <1>1
  <2>1. /\ segs[j].end <= segs[k].start /\ segs[j].end \in Nat /\ segs[k].start \in Nat
    BY <1>1
  <2>2. /\ v.start \in Int /\ w.start \in Int /\ w.end \in Int
        /\ segs[k].start <= v.start /\ w.start < w.end /\ w.end <= segs[j].end
    BY <1>3, <1>5
  <2>3. v.start <= w.start
    BY <1>5, <2>2 DEF Earlier
  <2> QED  BY <2>1, <2>2, <2>3
<1>6. Separates(2 * s.start, lane)
  <2> SUFFICES ASSUME NEW v \in words[lane], NEW w \in words[lane],
                      Earlier(v, w), w.start + w.end < 2 * s.start
               PROVE  v.start + v.end < 2 * s.start
    BY DEF Separates
  <2>1. PICK j \in 1..Len(segs) : Within(w, segs[j])
    BY <1>2
  <2>2. PICK k \in 1..Len(segs) : Within(v, segs[k])
    BY <1>2
  <2>3. k <= j
    BY <1>5, <2>1, <2>2
  <2>4. i \in 1..Len(segs)
    BY DEF segs
  <2>5. j < i
    <3>1. 2 * segs[j].start < w.start + w.end /\ w.start \in Int /\ w.end \in Int
      BY <1>3, <2>1
    <3>2. i <= j => segs[i].start <= segs[j].start
      BY <1>4, <2>4
    <3>3. segs[i].start \in Nat /\ segs[j].start \in Nat
      BY <1>1, <2>4
    <3>4. PICK m \in Int : m = w.start + w.end
      BY <3>1
    <3>5. m < 2 * segs[i].start /\ 2 * segs[j].start < m
      BY <3>1, <3>4
    <3>6. ~(segs[i].start <= segs[j].start)
      BY <3>3, <3>5
    <3> QED  BY <3>2, <3>6, <2>4, <1>1
  <2>6. k < i
    BY <1>1, <2>3, <2>4, <2>5
  <2>7. /\ segs[k].end <= segs[i].start /\ segs[k].end \in Nat /\ segs[i].start \in Nat
    BY <1>1, <2>4, <2>6
  <2>8. v.start + v.end < 2 * segs[k].end /\ v.start \in Int /\ v.end \in Int
    BY <1>3, <2>2
  <2>9. PICK m \in Int : m = v.start + v.end
    BY <2>8
  <2>10. m < 2 * segs[k].end
    BY <2>8, <2>9
  <2>11. m < 2 * segs[i].start
    BY <2>7, <2>10
  <2> QED  BY <2>9, <2>11
<1>7. Separates(2 * s.end, lane)
  <2> SUFFICES ASSUME NEW v \in words[lane], NEW w \in words[lane],
                      Earlier(v, w), w.start + w.end < 2 * s.end
               PROVE  v.start + v.end < 2 * s.end
    BY DEF Separates
  <2>1. PICK j \in 1..Len(segs) : Within(w, segs[j])
    BY <1>2
  <2>2. PICK k \in 1..Len(segs) : Within(v, segs[k])
    BY <1>2
  <2>3. k <= j
    BY <1>5, <2>1, <2>2
  <2>4. i \in 1..Len(segs)
    BY DEF segs
  <2>5. j <= i
    <3>1. 2 * segs[j].start < w.start + w.end /\ w.start \in Int /\ w.end \in Int
      BY <1>3, <2>1
    <3>2. i < j => segs[i].end <= segs[j].start
      BY <1>1, <2>4
    <3>3. segs[i].end \in Nat /\ segs[j].start \in Nat
      BY <1>1, <2>4
    <3>4. PICK m \in Int : m = w.start + w.end
      BY <3>1
    <3>5. m < 2 * segs[i].end /\ 2 * segs[j].start < m
      BY <3>1, <3>4
    <3>6. ~(segs[i].end <= segs[j].start)
      BY <3>3, <3>5
    <3> QED  BY <3>2, <3>6, <2>4, <1>1
  <2>6. k <= i
    BY <1>1, <2>3, <2>4, <2>5
  <2>7. /\ segs[k].end <= segs[i].end /\ segs[k].end \in Nat /\ segs[i].end \in Nat
    BY <1>1, <1>4, <2>4, <2>6
  <2>8. v.start + v.end < 2 * segs[k].end /\ v.start \in Int /\ v.end \in Int
    BY <1>3, <2>2
  <2>9. PICK m \in Int : m = v.start + v.end
    BY <2>8
  <2>10. m < 2 * segs[k].end
    BY <2>8, <2>9
  <2>11. m < 2 * segs[i].end
    BY <2>7, <2>10
  <2> QED  BY <2>9, <2>11
<1>8. ASSUME NEW w \in words[lane]
      PROVE  MiddleIn(w, s) <=> Within(w, s)
  <2>1. i \in 1..Len(segs)
    BY DEF segs
  <2>2. PICK j \in 1..Len(segs) : Within(w, segs[j])
    BY <1>2
  <2>3. /\ w.start \in Int /\ w.end \in Int
        /\ 2 * segs[j].start < w.start + w.end /\ w.start + w.end < 2 * segs[j].end
    BY <1>3, <2>2
  <2>4. Within(w, s) => MiddleIn(w, s)
    <3>1. Within(w, s) => 2 * s.start < w.start + w.end /\ w.start + w.end < 2 * s.end
      BY <1>3, <2>1
    <3>2. s.start \in Nat
      BY <1>1, <2>1
    <3> QED  BY <3>1, <3>2, <2>3 DEF MiddleIn
  <2>5. ASSUME MiddleIn(w, s) PROVE Within(w, s)
    <3>1. /\ segs[j].start \in Nat /\ segs[j].end \in Nat
          /\ segs[i].start \in Nat /\ segs[i].end \in Nat
          /\ i < j => segs[i].end <= segs[j].start
          /\ j < i => segs[j].end <= segs[i].start
      BY <1>1, <2>1
    <3>2. ~(i < j) /\ ~(j < i)
      <4>1. 2 * segs[i].start <= w.start + w.end /\ w.start + w.end < 2 * segs[i].end
        BY <2>5 DEF MiddleIn
      <4>2. PICK m \in Int : m = w.start + w.end
        BY <2>3
      <4>3. /\ 2 * segs[j].start < m /\ m < 2 * segs[j].end
            /\ 2 * segs[i].start <= m /\ m < 2 * segs[i].end
        BY <2>3, <4>1, <4>2
      <4>4. ASSUME i < j PROVE FALSE
        <5>1. segs[i].end <= segs[j].start
          BY <3>1, <4>4
        <5> QED  BY <3>1, <4>3, <5>1
      <4>5. ASSUME j < i PROVE FALSE
        <5>1. segs[j].end <= segs[i].start
          BY <3>1, <4>5
        <5> QED  BY <3>1, <4>3, <5>1
      <4> QED  BY <4>4, <4>5
    <3>3. i = j
      BY <3>2, <2>1, <1>1
    <3> QED  BY <2>2, <3>3
  <2> QED  BY <2>4, <2>5
<1>9. s.start \in Int /\ s.end \in Int
  BY <1>1 DEF segs
<1> HIDE DEF s
<1>10. /\ ToSet(WordsOf(lane, s)) = {w \in words[lane] : MiddleIn(w, s)}
       /\ WordsOf(lane, s) = <<>> <=> {w \in words[lane] : MiddleIn(w, s)} = {}
  BY <1>2, <1>6, <1>7, <1>9, WordsOfSpan
<1>11. {w \in words[lane] : MiddleIn(w, s)} = {w \in words[lane] : Within(w, s)}
  BY <1>8
<1> QED  BY <1>10, <1>11 DEF s, segs
(* The row of a segment.                                                   *)
SegmentRow(lane, i) ==
  Row(lane, segments[lane][i], WordsOf(lane, segments[lane][i]), "spoken")

LEMMA SegmentRowsAre ==
  ASSUME IInv
  PROVE  /\ \A row \in SegmentRows :
              \E lane \in Lanes : \E i \in 1..Len(segments[lane]) : row = SegmentRow(lane, i)
         /\ \A lane \in Lanes : \A i \in 1..Len(segments[lane]) :
              SegmentRow(lane, i).words # <<>> => SegmentRow(lane, i) \in SegmentRows
<1>1. ASSUME NEW lane \in Lanes
      PROVE  ToSet(segments[lane]) = {segments[lane][i] : i \in 1..Len(segments[lane])}
  BY LanesApart, ApartShape DEF ToSet
<1>2. ASSUME NEW row \in SegmentRows
      PROVE  \E lane \in Lanes : \E i \in 1..Len(segments[lane]) : row = SegmentRow(lane, i)
  <2>1. PICK lane \in Lanes : \E s \in ToSet(segments[lane]) :
          row = Row(lane, s, WordsOf(lane, s), "spoken")
    BY DEF SegmentRows
  <2> QED  BY <2>1, <1>1 DEF SegmentRow
<1>3. ASSUME NEW lane \in Lanes, NEW i \in 1..Len(segments[lane]),
             SegmentRow(lane, i).words # <<>>
      PROVE  SegmentRow(lane, i) \in SegmentRows
  <2>1. segments[lane][i] \in ToSet(segments[lane])
    BY <1>1
  <2> QED  BY <1>3, <2>1 DEF SegmentRow, SegmentRows
<1> QED  BY <1>2, <1>3

LEMMA FiniteLanes ==
  /\ IsFiniteSet(Lanes)
  /\ \A lane \in Lanes : Place(lane) \in Nat /\ Tracks[Place(lane)] = lane
<1>1. Tracks \in Seq(Lanes)
  BY RowsAssumption
<1>2. Len(Tracks) \in Nat /\ Tracks \in [1..Len(Tracks) -> Lanes]
  BY <1>1, LenProperties
<1>3. \A lane \in Lanes : \E i \in 1..Len(Tracks) : Tracks[i] = lane
  BY DEF Lanes
<1>4. IsFiniteSet(1..Len(Tracks))
  BY <1>2, FS_Interval, 1 \in Int
<1>5. Tracks \in Surjection(1..Len(Tracks), Lanes)
  BY <1>2, <1>3 DEF Surjection
<1>6. IsFiniteSet(Lanes)
  BY <1>4, <1>5, FS_Surjection
<1>7. ASSUME NEW lane \in Lanes PROVE Place(lane) \in Nat /\ Tracks[Place(lane)] = lane
  <2>1. Place(lane) \in 1..Len(Tracks) /\ Tracks[Place(lane)] = lane
    BY <1>3 DEF Place
  <2> QED  BY <2>1, <1>2
<1> QED  BY <1>6, <1>7

LEMMA SegmentRowsFinite == IInv => IsFiniteSet(SegmentRows)
<1> SUFFICES ASSUME IInv PROVE IsFiniteSet(SegmentRows)
  OBVIOUS
<1> DEFINE Of(lane) == {SegmentRow(lane, i) : i \in 1..Len(segments[lane])}
           all == [lane \in Lanes |-> Of(lane)]
           T == {all[lane] : lane \in Lanes}
<1>1. ASSUME NEW lane \in Lanes PROVE IsFiniteSet(Of(lane))
  <2> DEFINE n == Len(segments[lane])
             f == [i \in 1..n |-> SegmentRow(lane, i)]
  <2>1. n \in Nat
    BY LanesApart, ApartShape
  <2>2. f \in [1..n -> Of(lane)] /\ \A row \in Of(lane) : \E i \in 1..n : f[i] = row
    OBVIOUS
  <2> HIDE DEF f, Of, n
  <2>3. f \in Surjection(1..n, Of(lane))
    BY <2>2 DEF Surjection
  <2>4. IsFiniteSet(1..n)
    BY <2>1, FS_Interval, 1 \in Int
  <2> QED  BY <2>3, <2>4, FS_Surjection
<1>2. all \in Surjection(Lanes, T)
  <2>1. all \in [Lanes -> T] /\ \A t \in T : \E lane \in Lanes : all[lane] = t
    OBVIOUS
  <2> HIDE DEF all, T
  <2> QED  BY <2>1 DEF Surjection
<1>3. IsFiniteSet(T)
  <2> HIDE DEF all, T
  <2> QED  BY <1>2, FiniteLanes, FS_Surjection
<1>4. \A t \in T : IsFiniteSet(t)
  <2> HIDE DEF Of
  <2> QED  BY <1>1
<1>5. IsFiniteSet(UNION T)
  <2> HIDE DEF T
  <2> QED  BY <1>3, <1>4, FS_UNION
<1>6. SegmentRows \in SUBSET UNION T
  <2>1. ASSUME NEW row \in SegmentRows PROVE row \in UNION T
    <3>1. PICK lane \in Lanes : \E i \in 1..Len(segments[lane]) : row = SegmentRow(lane, i)
      BY SegmentRowsAre
    <3>2. row \in all[lane] /\ all[lane] \in T
      BY <3>1
    <3> HIDE DEF T, all
    <3> QED  BY <3>2
  <2> HIDE DEF T
  <2> QED  BY <2>1
<1> HIDE DEF T
<1> QED  BY <1>5, <1>6, FS_Subset

(* The rows of two segments of a lane start at different times.             *)
LEMMA RowsSorted ==
  ASSUME IInv
  PROVE  /\ Sorted(SegmentRows, Before) \in Seq(SegmentRows)
         /\ \A row \in SegmentRows : \E r \in 1..Len(Sorted(SegmentRows, Before)) :
              Sorted(SegmentRows, Before)[r] = row
         /\ \A q, r \in 1..Len(Sorted(SegmentRows, Before)) : q # r =>
              Sorted(SegmentRows, Before)[q] # Sorted(SegmentRows, Before)[r]
<1> DEFINE S == SegmentRows
           R == {p \in S \X S : Before(p[1], p[2])}
           t == Ranked(S, R)
<1>1. Sorted(SegmentRows, Before) = t
  BY DEF Sorted
<1>2. \A r, s \in S : <<r, s>> \in R <=> Before(r, s)
  OBVIOUS
<1> HIDE DEF R
<1>3. ASSUME NEW r \in S
      PROVE  r.start \in Nat /\ r.lane \in Lanes /\ Place(r.lane) \in Nat
  <2>1. PICK lane \in Lanes : \E i \in 1..Len(segments[lane]) : r = SegmentRow(lane, i)
    BY SegmentRowsAre
  <2>2. PICK i \in 1..Len(segments[lane]) : r = SegmentRow(lane, i)
    BY <2>1
  <2>3. r.lane = lane /\ r.start = segments[lane][i].start
    BY <2>2 DEF SegmentRow, Row
  <2>4. segments[lane][i].start \in Nat
    BY LanesApart, ApartShape
  <2> QED  BY <2>3, <2>4, FiniteLanes
<1>4. ASSUME NEW r \in S, NEW s \in S, r.lane = s.lane, r.start = s.start
      PROVE  r = s
  <2>1. PICK lane \in Lanes : \E i \in 1..Len(segments[lane]) : r = SegmentRow(lane, i)
    BY SegmentRowsAre
  <2>2. PICK i \in 1..Len(segments[lane]) : r = SegmentRow(lane, i)
    BY <2>1
  <2>3. PICK lane2 \in Lanes : \E j \in 1..Len(segments[lane2]) : s = SegmentRow(lane2, j)
    BY SegmentRowsAre
  <2>4. PICK j \in 1..Len(segments[lane2]) : s = SegmentRow(lane2, j)
    BY <2>3
  <2>5. lane = lane2 /\ segments[lane][i].start = segments[lane][j].start
    BY <1>4, <2>2, <2>4 DEF SegmentRow, Row
  <2> DEFINE segs == segments[lane]
  <2>6. /\ Len(segs) \in Nat
        /\ \A k \in 1..Len(segs) : segs[k].start \in Nat /\ segs[k].end \in Nat
        /\ \A k \in 1..Len(segs) : segs[k].start < segs[k].end
        /\ \A k, l \in 1..Len(segs) : k < l => segs[k].end <= segs[l].start
    BY LanesApart, ApartShape
  <2>7. i \in 1..Len(segs) /\ j \in 1..Len(segs) /\ segs[i].start = segs[j].start
    BY <2>5
  <2> HIDE DEF segs
  <2>8. ~(i < j) /\ ~(j < i)
    <3>1. ASSUME NEW k \in 1..Len(segs), NEW l \in 1..Len(segs), k < l
          PROVE  segs[k].start # segs[l].start
      <4>1. /\ segs[k].start \in Nat /\ segs[k].end \in Nat /\ segs[l].start \in Nat
            /\ segs[k].start < segs[k].end /\ segs[k].end <= segs[l].start
        BY <2>6, <3>1
      <4> QED  BY <4>1
    <3> QED  BY <3>1, <2>7
  <2>9. i = j
    BY <2>6, <2>7, <2>8
  <2> QED  BY <2>2, <2>4, <2>5, <2>9
<1>5. ASSUME NEW r \in S, NEW s \in S, Place(r.lane) = Place(s.lane)
      PROVE  r.lane = s.lane
  BY <1>3, <1>5, FiniteLanes
<1> HIDE DEF S
<1>6. Orders(R, S)
  <2>1. ASSUME NEW r \in S PROVE ~Before(r, r)
    BY <1>3 DEF Before
  <2>2. ASSUME NEW r \in S, NEW s \in S, r # s PROVE Before(r, s) \/ Before(s, r)
    <3>1. r.start # s.start \/ Place(r.lane) # Place(s.lane)
      BY <1>4, <1>5, <2>2
    <3>2. /\ r.start \in Nat /\ s.start \in Nat
          /\ Place(r.lane) \in Nat /\ Place(s.lane) \in Nat
      BY <1>3
    <3> QED  BY <3>1, <3>2 DEF Before
  <2>3. ASSUME NEW q \in S, NEW r \in S, NEW s \in S, Before(q, r), Before(r, s)
        PROVE  Before(q, s)
    <3>1. /\ q.start \in Nat /\ r.start \in Nat /\ s.start \in Nat
          /\ Place(q.lane) \in Nat /\ Place(r.lane) \in Nat /\ Place(s.lane) \in Nat
      BY <1>3
    <3> QED  BY <3>1, <2>3 DEF Before
  <2> QED  BY <1>2, <2>1, <2>2, <2>3 DEF Orders
<1>7. Enumerates(t, S, R)
  <2>1. IsFiniteSet(S)
    BY SegmentRowsFinite DEF S
  <2> QED  BY <1>6, <2>1, RankedEnumerates
<1> HIDE DEF t
<1>8. ASSUME NEW q \in 1..Len(t), NEW r \in 1..Len(t), q # r PROVE t[q] # t[r]
  <2>1. Len(t) \in Nat /\ t[q] \in S /\ t[r] \in S
    BY <1>7, LenProperties, ElementOfSeq DEF Enumerates
  <2>2. <<t[q], t[r]>> \in R \/ <<t[r], t[q]>> \in R
    <3>1. q < r \/ r < q
      BY <1>8, <2>1
    <3> QED  BY <3>1, <1>7 DEF Enumerates
  <2> QED  BY <2>1, <2>2, <1>6 DEF Orders
<1> QED  BY <1>1, <1>7, <1>8 DEF Enumerates, S
(* A word is in the row of the segment it was heard in.                     *)
LEMMA WordHasRow ==
  ASSUME IInv, NEW lane \in Lanes, NEW w \in words[lane]
  PROVE  \E row \in SegmentRows :
           /\ row.lane = lane /\ w \in ToSet(row.words) /\ Within(w, row)
           /\ \A other \in SegmentRows :
                other.lane = lane /\ w \in ToSet(other.words) => other = row
<1>1. PICK i \in 1..Len(segments[lane]) : Within(w, segments[lane][i])
  BY DEF IInv, WordsHeard
<1> DEFINE row == SegmentRow(lane, i)
<1>2. /\ row.lane = lane /\ row.words = WordsOf(lane, segments[lane][i])
      /\ row.start = segments[lane][i].start /\ row.end = segments[lane][i].end
  BY DEF SegmentRow, Row
<1>3. w \in ToSet(row.words) /\ row.words # <<>>
  BY <1>1, <1>2, OwnWords
<1>4. row \in SegmentRows
  <2> HIDE DEF row
  <2> QED  BY <1>3, SegmentRowsAre DEF row
<1>5. Within(w, row)
  BY <1>1, <1>2 DEF Within
<1>6. ASSUME NEW other \in SegmentRows, other.lane = lane, w \in ToSet(other.words)
      PROVE  other = row
  <2>1. PICK lane2 \in Lanes : \E j \in 1..Len(segments[lane2]) : other = SegmentRow(lane2, j)
    BY SegmentRowsAre
  <2>2. PICK j \in 1..Len(segments[lane2]) : other = SegmentRow(lane2, j)
    BY <2>1
  <2>3. lane2 = lane /\ other.words = WordsOf(lane, segments[lane][j])
    BY <1>6, <2>2 DEF SegmentRow, Row
  <2>4. j \in 1..Len(segments[lane])
    BY <2>3
  <2>5. Within(w, segments[lane][j])
    BY <1>6, <2>3, <2>4, OwnWords
  <2> DEFINE segs == segments[lane]
  <2>6. /\ Len(segs) \in Nat
        /\ \A k \in 1..Len(segs) : segs[k].start \in Nat /\ segs[k].end \in Nat
        /\ \A k, l \in 1..Len(segs) : k < l => segs[k].end <= segs[l].start
    BY LanesApart, ApartShape
  <2>7. w.start \in Int /\ w.end \in Int
    BY DEF IInv, WordsHeard, Span
  <2>8. ASSUME NEW k \in 1..Len(segs), NEW l \in 1..Len(segs), k < l,
               Within(w, segs[k]), Within(w, segs[l])
        PROVE  FALSE
    <3> HIDE DEF segs
    <3>1. /\ segs[k].end \in Nat /\ segs[l].start \in Nat /\ segs[k].end <= segs[l].start
      BY <2>6, <2>8
    <3>2. w.end <= segs[k].end /\ segs[l].start <= w.start /\ w.start < w.end
      BY <2>8, <2>7, <3>1 DEF Within
    <3> QED  BY <3>1, <3>2, <2>7
  <2>9. i = j
    <3>1. ~(i < j) /\ ~(j < i)
      BY <1>1, <2>4, <2>5, <2>8
    <3> QED  BY <3>1, <2>4, <2>6
  <2> QED  BY <2>2, <2>3, <2>9
<1> HIDE DEF row
<1> QED  BY <1>2, <1>3, <1>4, <1>5, <1>6

LEMMA WordsDrafted == IInv => WordsInOneRow
<1> SUFFICES ASSUME IInv PROVE WordsInOneRow
  OBVIOUS
<1>1. ASSUME stage = "drafted", NEW lane \in Lanes, NEW w \in words[lane]
      PROVE  /\ Cardinality(RowsWith(lane, w)) = 1
             /\ \A r \in RowsWith(lane, w) : Within(w, rows[r])
  <2>1. rows = Sorted(SegmentRows, Before)
    BY <1>1 DEF IInv, Answered
  <2> DEFINE S == SegmentRows
  <2>2. /\ rows \in Seq(S)
        /\ \A row \in S : \E r \in 1..Len(rows) : rows[r] = row
        /\ \A q, r \in 1..Len(rows) : q # r => rows[q] # rows[r]
    BY <2>1, RowsSorted
  <2>3. PICK row \in S :
          /\ row.lane = lane /\ w \in ToSet(row.words) /\ Within(w, row)
          /\ \A other \in S : other.lane = lane /\ w \in ToSet(other.words) => other = row
    BY WordHasRow
  <2> HIDE DEF S
  <2>4. DOMAIN rows = 1..Len(rows) /\ \A r \in 1..Len(rows) : rows[r] \in S
    BY <2>2, LenProperties, ElementOfSeq
  <2>5. PICK r \in 1..Len(rows) : rows[r] = row
    BY <2>2
  <2>6. RowsWith(lane, w) = {r}
    <3>1. r \in RowsWith(lane, w)
      BY <2>3, <2>4, <2>5 DEF RowsWith
    <3>2. ASSUME NEW q \in RowsWith(lane, w) PROVE q = r
      <4>1. q \in 1..Len(rows) /\ rows[q].lane = lane /\ w \in ToSet(rows[q].words)
        BY <2>4, <3>2 DEF RowsWith
      <4>2. rows[q] = rows[r]
        BY <4>1, <2>3, <2>4, <2>5
      <4> QED  BY <4>1, <4>2, <2>2
    <3> QED  BY <3>1, <3>2
  <2> QED  BY <2>3, <2>5, <2>6, FS_Singleton
<1>2. ASSUME NEW lane \in Lanes, words[lane] # {}
      PROVE  \E r \in SegmentRows : r.lane = lane
  <2>1. PICK w \in words[lane] : TRUE
    BY <1>2
  <2> QED  BY <2>1, WordHasRow
<1> QED  BY <1>1, <1>2 DEF WordsInOneRow

LEMMA PreservedServed == IInv => PreservedHaveTheirs
<1> SUFFICES ASSUME IInv, stage = "preserved", NEW r \in DOMAIN rows,
                    rows[r].text # "markup", Unnested(rows[r].lane)
             PROVE  ToSet(rows[r].words) =
                      {w \in words[rows[r].lane] :
                         2 * rows[r].start =< w.start + w.end
                           /\ w.start + w.end < 2 * rows[r].end}
  BY DEF PreservedHaveTheirs
<1>1. PICK asked \in Preserved : rows = [i \in DOMAIN asked |-> RowOf(asked[i])]
  BY DEF IInv, Answered
<1>2. r \in DOMAIN asked /\ rows[r] = RowOf(asked[r])
  BY <1>1
<1> DEFINE row == asked[r]
           lane == row.lane
<1>3. row \in PreserveRow
  <2>1. asked \in Seq(PreserveRow)
    BY RowsAssumption
  <2> QED  BY <1>2, <2>1, LenProperties, ElementOfSeq
<1>4. lane \in Lanes /\ row.start \in Int /\ row.end \in Int
  BY <1>3 DEF PreserveRow
<1> HIDE DEF row
<1>5. rows[r] = RowOf(row)
  BY <1>2 DEF row
<1>6. rows[r].lane = lane /\ rows[r].start = row.start /\ rows[r].end = row.end
  BY <1>5 DEF RowOf, Row
<1>7. words[lane] \in SUBSET Span /\ IsFiniteSet(words[lane])
  BY <1>4 DEF IInv, WordsHeard
(* Where no word is within another, the order is that of the middles.        *)
<1>8. ASSUME NEW x \in Int PROVE Separates(x, lane)
  <2> SUFFICES ASSUME NEW v \in words[lane], NEW w \in words[lane],
                      Earlier(v, w), w.start + w.end < x
               PROVE  v.start + v.end < x
    BY DEF Separates
  <2>1. v.start \in Int /\ v.end \in Int /\ w.start \in Int /\ w.end \in Int
    BY <1>7 DEF Span
  <2>2. v.start < w.start => v.start + v.end <= w.start + w.end
    BY <1>6 DEF Unnested
  <2> QED  BY <2>1, <2>2 DEF Earlier
<1>9. /\ ToSet(WordsOf(lane, row)) = {w \in words[lane] : MiddleIn(w, row)}
      /\ WordsOf(lane, row) = <<>> <=> {w \in words[lane] : MiddleIn(w, row)} = {}
  <2>1. 2 * row.start \in Int /\ 2 * row.end \in Int
    BY <1>4
  <2>2. Separates(2 * row.start, lane) /\ Separates(2 * row.end, lane)
    BY <1>8, <2>1
  <2> HIDE DEF lane
  <2> QED  BY <1>4, <1>7, <2>2, WordsOfSpan
<1>10. ToSet(rows[r].words) = {w \in words[lane] : MiddleIn(w, row)}
  <2>1. CASE Kept(row)
    <3>1. rows[r].words = <<>> /\ rows[r].text = row.text
      BY <1>5, <2>1 DEF RowOf, Row
    <3>2. WordsOf(lane, row) = <<>>
      BY <2>1, <3>1 DEF Kept
    <3>3. ToSet(<<>>) = {}
      BY DEF ToSet
    <3> QED  BY <1>9, <3>1, <3>2, <3>3
  <2>2. CASE ~Kept(row)
    <3>1. rows[r].words = WordsOf(lane, row)
      BY <1>5, <2>2 DEF RowOf, Row
    <3> QED  BY <1>9, <3>1
  <2> QED  BY <2>1, <2>2
<1> QED  BY <1>6, <1>10 DEF MiddleIn

(* Nothing that was said is lost on its way to the rows: every frame of       *)
(* speech is in one segment, every word recognised in it is in the one row of *)
(* that segment, and a preserved row has the words it spans.                 *)
THEOREM NothingIsLost == Spec => []NothingLost
<1>1. IInv => NothingLost
  BY SpeechHeld, WordsDrafted, PreservedServed DEF NothingLost
<1> QED  BY <1>1, SpecIInv, PTL
=============================================================================
