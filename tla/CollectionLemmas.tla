-------------------------- MODULE CollectionLemmas --------------------------
(***************************************************************************)
(* Facts about the collections the models are made of: least elements, sums  *)
(* over finite sets, and queues without repetitions, kept as sequences (what *)
(* the deque and OrderedDict operations of the code, append, remove, popping *)
(* from the front, do to their elements and to their distinctness).         *)
(*                                                                         *)
(* What holds of every finite set is proved by a least counterexample, from  *)
(* the well-foundedness of the order of natural numbers and of inclusion.   *)
(***************************************************************************)
EXTENDS SequencesExt, SequenceTheorems, FiniteSetTheorems, TLAPS

----------------------------------------------------------------------------
(* Least elements.                                                         *)

(* Every set of naturals that is not empty has a least element.            *)
LEMMA LeastNatural ==
  ASSUME NEW S \in SUBSET Nat, S # {}
  PROVE  \E n \in S : \A m \in S : n <= m
<1>1. IsWellFoundedOn(OpToRel(<, Nat), Nat)
  BY NatLessThanWellFounded
<1>2. PICK n \in S : \A m \in S : <<m, n>> \notin OpToRel(<, Nat)
  BY <1>1, WFMin
<1>3. \A m \in S : ~(m < n)
  BY <1>2 DEF OpToRel
<1> QED  BY <1>3

(* A collection of finite sets has a set that includes no other of them.     *)
LEMMA MinimalSubset ==
  ASSUME NEW S, IsFiniteSet(S), NEW T \in SUBSET SUBSET S, T # {}
  PROVE  \E s \in T : \A t \in T : t \subseteq s => t = s
<1>1. IsWellFoundedOn(StrictSubsetOrdering(S), SUBSET S)
  BY FS_StrictSubsetOrderingWellFounded, FS_FiniteSubsetsOfFinite
<1>2. PICK s \in T : \A t \in T : <<t, s>> \notin StrictSubsetOrdering(S)
  BY <1>1, WFMin
<1> QED  BY <1>2 DEF StrictSubsetOrdering

----------------------------------------------------------------------------
(* Sums.                                                                   *)

(* The recursion behind SumFunctionOnSet: g gives the sums of f over the    *)
(* subsets of S.                                                           *)
Chosen(s) == CHOOSE x \in s : TRUE

SumsUpTo(f, S, g) ==
  g = [s \in SUBSET S |-> IF s = {} THEN 0 ELSE f[Chosen(s)] + g[s \ {Chosen(s)}]]

SumsOf(f, S) == CHOOSE g : SumsUpTo(f, S, g)

LEMMA ChosenIn == ASSUME NEW s, s # {} PROVE Chosen(s) \in s
BY DEF Chosen

LEMMA SumUnfolds ==
  ASSUME NEW f, NEW S
  PROVE  SumFunctionOnSet(f, S) = SumsOf(f, S)[S]
BY DEF SumFunctionOnSet, FoldFunctionOnSet, MapThenFoldSet, SumsOf, SumsUpTo, Chosen

(* The recursion has one solution, whatever set it starts from, ...         *)
LEMMA SumsAgree ==
  ASSUME NEW f, NEW S, NEW T, T \subseteq S, IsFiniteSet(S), NEW g, NEW h,
         SumsUpTo(f, S, g), SumsUpTo(f, T, h)
  PROVE  \A s \in SUBSET T : g[s] = h[s]
<1> DEFINE Bad == {s \in SUBSET T : g[s] # h[s]}
<1> SUFFICES ASSUME Bad # {} PROVE FALSE
  OBVIOUS
<1>1. Bad \in SUBSET SUBSET T /\ Bad # {} /\ IsFiniteSet(T)
  BY FS_Subset
<1>2. PICK s \in Bad : \A t \in Bad : t \subseteq s => t = s
  <2> HIDE DEF Bad
  <2> QED  BY <1>1, MinimalSubset
<1>3. /\ g[s] = IF s = {} THEN 0 ELSE f[Chosen(s)] + g[s \ {Chosen(s)}]
      /\ h[s] = IF s = {} THEN 0 ELSE f[Chosen(s)] + h[s \ {Chosen(s)}]
  <2>1. s \in SUBSET S /\ s \in SUBSET T
    OBVIOUS
  <2> QED  BY <2>1 DEF SumsUpTo
<1>4. s # {}
  BY <1>3
<1>5. /\ s \ {Chosen(s)} \in SUBSET T
      /\ s \ {Chosen(s)} \subseteq s /\ s \ {Chosen(s)} # s
  BY <1>4, ChosenIn
<1>6. g[s \ {Chosen(s)}] = h[s \ {Chosen(s)}]
  BY <1>2, <1>5
<1> QED  BY <1>3, <1>4, <1>6

(* ... and has one.                                                        *)
LEMMA SumsExist ==
  ASSUME NEW f, NEW S, IsFiniteSet(S)
  PROVE  SumsUpTo(f, S, SumsOf(f, S))
<1> DEFINE Good(s) == \E g : SumsUpTo(f, s, g)
           Bad == {s \in SUBSET S : ~Good(s)}
<1>1. SUFFICES Bad = {}
  <2>1. Good(S)
    BY <1>1
  <2> QED  BY <2>1 DEF SumsOf
<1>2. SUFFICES ASSUME Bad # {} PROVE FALSE
  OBVIOUS
<1>3. PICK s \in Bad : \A t \in Bad : t \subseteq s => t = s
  <2>1. Bad \in SUBSET SUBSET S /\ Bad # {}
    BY <1>2
  <2> HIDE DEF Bad
  <2> QED  BY <2>1, MinimalSubset
<1>4. ASSUME NEW t \in SUBSET s, t # s PROVE SumsUpTo(f, t, SumsOf(f, t))
  <2>1. Good(t)
    BY <1>3, <1>4
  <2> QED  BY <2>1 DEF SumsOf
<1>5. ASSUME NEW t \in SUBSET s, t # s, t # {}
      PROVE  SumsOf(f, t)[t] = f[Chosen(t)] + SumsOf(f, t \ {Chosen(t)})[t \ {Chosen(t)}]
  <2> DEFINE u == t \ {Chosen(t)}
  <2>1. SumsUpTo(f, t, SumsOf(f, t))
    BY <1>4, <1>5
  <2>2. SumsUpTo(f, u, SumsOf(f, u))
    BY <1>4, <1>5, ChosenIn
  <2>3. IsFiniteSet(t)
    BY FS_Subset
  <2>4. SumsOf(f, t)[u] = SumsOf(f, u)[u]
    <3> HIDE DEF u
    <3>1. u \subseteq t
      BY DEF u
    <3> QED  BY <3>1, <2>1, <2>2, <2>3, SumsAgree
  <2>5. SumsOf(f, t)[t] = f[Chosen(t)] + SumsOf(f, t)[u]
    BY <2>1, <1>5 DEF SumsUpTo
  <2> QED  BY <2>4, <2>5
<1>6. ASSUME NEW t \in SUBSET s, t = {}, t # s PROVE SumsOf(f, t)[t] = 0
  BY <1>4, <1>6 DEF SumsUpTo
<1> DEFINE h == [t \in SUBSET s |->
                   IF t = {} THEN 0
                   ELSE f[Chosen(t)] + SumsOf(f, t \ {Chosen(t)})[t \ {Chosen(t)}]]
<1>7. ASSUME NEW t \in SUBSET s, t # s PROVE h[t] = SumsOf(f, t)[t]
  BY <1>5, <1>6, <1>7
<1>8. ASSUME NEW t \in SUBSET s, t # {}
      PROVE  h[t] = f[Chosen(t)] + h[t \ {Chosen(t)}]
  <2>1. t \ {Chosen(t)} \in SUBSET s /\ t \ {Chosen(t)} # s
    BY <1>8, ChosenIn
  <2>2. h[t \ {Chosen(t)}] = SumsOf(f, t \ {Chosen(t)})[t \ {Chosen(t)}]
    BY <2>1, <1>7
  <2> QED  BY <2>2, <1>8
<1>9. SumsUpTo(f, s, h)
  <2>1. \A t \in SUBSET s : h[t] = IF t = {} THEN 0 ELSE f[Chosen(t)] + h[t \ {Chosen(t)}]
    BY <1>8
  <2> HIDE DEF h
  <2>2. h = [t \in SUBSET s |-> h[t]]
    BY DEF h
  <2> QED  BY <2>1, <2>2 DEF SumsUpTo
<1> QED  BY <1>9, <1>3

(* The sum over a finite set is what its definition says.                  *)
LEMMA SumEquation ==
  ASSUME NEW f, NEW S, IsFiniteSet(S)
  PROVE  SumFunctionOnSet(f, S) =
           IF S = {} THEN 0
           ELSE f[Chosen(S)] + SumFunctionOnSet(f, S \ {Chosen(S)})
<1> DEFINE u == S \ {Chosen(S)}
<1>1. SumsUpTo(f, S, SumsOf(f, S))
  BY SumsExist
<1>2. IsFiniteSet(u) /\ u \subseteq S
  BY FS_Subset
<1>3. SumsUpTo(f, u, SumsOf(f, u))
  BY <1>2, SumsExist
<1>4. SumsOf(f, S)[u] = SumsOf(f, u)[u]
  <2> HIDE DEF u
  <2> QED  BY <1>1, <1>2, <1>3, SumsAgree
<1>5. SumsOf(f, S)[S] = IF S = {} THEN 0 ELSE f[Chosen(S)] + SumsOf(f, S)[u]
  BY <1>1 DEF SumsUpTo
<1> QED  BY <1>4, <1>5, SumUnfolds

(* Naturals have a natural sum.                                            *)
LEMMA SumType ==
  ASSUME NEW f, NEW S, IsFiniteSet(S), \A x \in S : f[x] \in Nat
  PROVE  SumFunctionOnSet(f, S) \in Nat
<1> DEFINE Bad == {s \in SUBSET S : SumFunctionOnSet(f, s) \notin Nat}
<1> SUFFICES ASSUME Bad # {} PROVE FALSE
  OBVIOUS
<1>1. PICK s \in Bad : \A t \in Bad : t \subseteq s => t = s
  <2>1. Bad \in SUBSET SUBSET S /\ Bad # {}
    OBVIOUS
  <2> HIDE DEF Bad
  <2> QED  BY <2>1, MinimalSubset
<1>2. IsFiniteSet(s)
  BY FS_Subset
<1>3. s # {}
  <2>1. s = {} => SumFunctionOnSet(f, s) = 0
    BY <1>2, SumEquation
  <2> QED  BY <2>1, <1>1
<1>4. Chosen(s) \in s
  BY <1>3, ChosenIn
<1>5. SumFunctionOnSet(f, s) = f[Chosen(s)] + SumFunctionOnSet(f, s \ {Chosen(s)})
  BY <1>2, <1>3, SumEquation
<1>6. SumFunctionOnSet(f, s \ {Chosen(s)}) \in Nat
  BY <1>1, <1>4
<1> QED  BY <1>1, <1>4, <1>5, <1>6

(* The order of the summands does not matter.                              *)
LEMMA SumRemove ==
  ASSUME NEW f, NEW S, IsFiniteSet(S), \A x \in S : f[x] \in Nat, NEW e \in S
  PROVE  SumFunctionOnSet(f, S) = f[e] + SumFunctionOnSet(f, S \ {e})
<1> DEFINE Sum(s) == SumFunctionOnSet(f, s)
           Bad == {s \in SUBSET S : \E x \in s : Sum(s) # f[x] + Sum(s \ {x})}
<1>1. SUFFICES Bad = {}
  OBVIOUS
<1>2. SUFFICES ASSUME Bad # {} PROVE FALSE
  OBVIOUS
<1>3. PICK s \in Bad : \A t \in Bad : t \subseteq s => t = s
  <2>1. Bad \in SUBSET SUBSET S /\ Bad # {}
    BY <1>2
  <2> HIDE DEF Bad
  <2> QED  BY <2>1, MinimalSubset
<1>4. PICK x \in s : Sum(s) # f[x] + Sum(s \ {x})
  BY <1>3
<1> DEFINE y == Chosen(s)
<1>5. y \in s
  BY <1>4, ChosenIn
<1>6. Sum(s) = f[y] + Sum(s \ {y})
  <2>1. IsFiniteSet(s)
    BY FS_Subset
  <2> QED  BY <2>1, <1>4, SumEquation
<1> HIDE DEF y
<1>7. x # y
  BY <1>4, <1>6
<1>8. Sum(s \ {y}) = f[x] + Sum((s \ {y}) \ {x})
  <2>1. s \ {y} \notin Bad
    BY <1>3, <1>5
  <2> QED  BY <2>1, <1>7
<1>9. Sum(s \ {x}) = f[y] + Sum((s \ {x}) \ {y})
  <2>1. s \ {x} \notin Bad
    BY <1>3, <1>4
  <2> QED  BY <2>1, <1>7, <1>5
<1>10. (s \ {x}) \ {y} = (s \ {y}) \ {x}
  OBVIOUS
<1>11. Sum((s \ {y}) \ {x}) \in Nat
  <2>1. IsFiniteSet((s \ {y}) \ {x})
    BY FS_Subset
  <2> QED  BY <2>1, SumType
<1>12. f[x] \in Nat /\ f[y] \in Nat
  BY <1>5
<1>13. ASSUME NEW a \in Nat, NEW b \in Nat, NEW n \in Nat
       PROVE  a + (b + n) = b + (a + n)
  OBVIOUS
<1>14. f[y] + (f[x] + Sum((s \ {y}) \ {x})) = f[x] + (f[y] + Sum((s \ {y}) \ {x}))
  <2> HIDE DEF Sum
  <2> QED  BY <1>11, <1>12, <1>13
<1> HIDE DEF Sum
<1> QED  BY <1>4, <1>6, <1>8, <1>9, <1>10, <1>14

(* A part is no more than the whole.                                       *)
LEMMA SumOfPart ==
  ASSUME NEW f, NEW S, IsFiniteSet(S), \A x \in S : f[x] \in Nat, NEW T \in SUBSET S
  PROVE  SumFunctionOnSet(f, T) <= SumFunctionOnSet(f, S)
<1> DEFINE Sum(s) == SumFunctionOnSet(f, s)
           Bad == {s \in SUBSET S : T \subseteq s /\ ~(Sum(T) <= Sum(s))}
<1>1. SUFFICES Bad = {}
  OBVIOUS
<1>2. SUFFICES ASSUME Bad # {} PROVE FALSE
  OBVIOUS
<1>3. PICK s \in Bad : \A t \in Bad : t \subseteq s => t = s
  <2>1. Bad \in SUBSET SUBSET S /\ Bad # {}
    BY <1>2
  <2> HIDE DEF Bad
  <2> QED  BY <2>1, MinimalSubset
<1>4. \A t \in SUBSET S : Sum(t) \in Nat
  BY FS_Subset, SumType
<1>5. s # T
  BY <1>3, <1>4
<1>6. PICK x \in s : x \notin T
  BY <1>3, <1>5
<1>7. s \ {x} \notin Bad
  BY <1>3, <1>6
<1>8. Sum(T) <= Sum(s \ {x})
  BY <1>7, <1>3, <1>6
<1>9. Sum(s) = f[x] + Sum(s \ {x})
  <2>1. IsFiniteSet(s)
    BY FS_Subset
  <2> QED  BY <2>1, SumRemove
<1>10. f[x] \in Nat /\ Sum(T) \in Nat /\ Sum(s \ {x}) \in Nat
  BY <1>4
<1> HIDE DEF Sum
<1> QED  BY <1>3, <1>8, <1>9, <1>10

(* Only the summands matter.                                               *)
LEMMA SumCongruent ==
  ASSUME NEW f, NEW g, NEW S, IsFiniteSet(S), \A x \in S : f[x] = g[x]
  PROVE  SumFunctionOnSet(f, S) = SumFunctionOnSet(g, S)
<1> DEFINE Bad == {s \in SUBSET S : SumFunctionOnSet(f, s) # SumFunctionOnSet(g, s)}
<1> SUFFICES ASSUME Bad # {} PROVE FALSE
  OBVIOUS
<1>1. PICK s \in Bad : \A t \in Bad : t \subseteq s => t = s
  <2>1. Bad \in SUBSET SUBSET S /\ Bad # {}
    OBVIOUS
  <2> HIDE DEF Bad
  <2> QED  BY <2>1, MinimalSubset
<1>2. IsFiniteSet(s)
  BY FS_Subset
<1>3. s # {}
  BY <1>1, <1>2, SumEquation
<1>4. Chosen(s) \in s
  BY <1>3, ChosenIn
<1>5. /\ SumFunctionOnSet(f, s) = f[Chosen(s)] + SumFunctionOnSet(f, s \ {Chosen(s)})
      /\ SumFunctionOnSet(g, s) = g[Chosen(s)] + SumFunctionOnSet(g, s \ {Chosen(s)})
  BY <1>2, <1>3, SumEquation
<1>6. SumFunctionOnSet(f, s \ {Chosen(s)}) = SumFunctionOnSet(g, s \ {Chosen(s)})
  BY <1>1, <1>4
<1> QED  BY <1>1, <1>4, <1>5, <1>6

----------------------------------------------------------------------------
(* Queues.                                                                 *)

(* deque.append of a new element.                                          *)
LEMMA AppendNew ==
  ASSUME NEW S, NEW s \in Seq(S), NEW e \in S
  PROVE  /\ Append(s, e) \in Seq(S)
         /\ ToSet(Append(s, e)) = ToSet(s) \cup {e}
         /\ IsInjective(s) /\ e \notin ToSet(s) => IsInjective(Append(s, e))
<1> DEFINE t == Append(s, e)
<1>1. /\ t \in Seq(S) /\ Len(t) = Len(s) + 1
      /\ \A i \in 1..Len(s) : t[i] = s[i]
      /\ t[Len(s) + 1] = e
  BY AppendProperties
<1>2. /\ DOMAIN s = 1..Len(s) /\ Len(s) \in Nat
      /\ DOMAIN t = 1..(Len(s) + 1)
  BY <1>1, LenProperties
<1> HIDE DEF t
<1>3. ToSet(t) = ToSet(s) \cup {e}
  BY <1>1, <1>2 DEF ToSet
<1>4. ASSUME IsInjective(s), e \notin ToSet(s) PROVE IsInjective(t)
  BY <1>1, <1>2, <1>4 DEF IsInjective, ToSet
<1> QED  BY <1>1, <1>3, <1>4 DEF t

(* Removing the entry at a position, entry by entry.                       *)
LEMMA RemoveAtElements ==
  ASSUME NEW S, NEW s \in Seq(S), NEW n \in 1..Len(s)
  PROVE  /\ RemoveAt(s, n) \in Seq(S)
         /\ Len(RemoveAt(s, n)) = Len(s) - 1
         /\ \A i \in 1..(Len(s) - 1) :
              RemoveAt(s, n)[i] = IF i < n THEN s[i] ELSE s[i + 1]
<1> DEFINE a == SubSeq(s, 1, n - 1)
           b == SubSeq(s, n + 1, Len(s))
           t == a \o b
<1>0. /\ Len(s) \in Nat /\ DOMAIN s = 1..Len(s)
      /\ \A i \in 1..Len(s) : s[i] \in S
  BY LenProperties, ElementOfSeq
<1>1. /\ a \in Seq(S) /\ Len(a) = n - 1
      /\ \A i \in 1..(n - 1) : a[i] = s[i]
  <2>1. \A i \in 1..(n - 1) : s[i] \in S
    BY <1>0
  <2> QED  BY <2>1, <1>0, SubSeqProperties, n - 1 \in Int, 1 \in Int
<1>2. /\ b \in Seq(S) /\ Len(b) = Len(s) - n
      /\ \A i \in 1..(Len(s) - n) : b[i] = s[n + i]
  <2>1. \A i \in (n + 1)..Len(s) : s[i] \in S
    BY <1>0
  <2>2. /\ b \in Seq(S)
        /\ Len(b) = IF n + 1 <= Len(s) THEN Len(s) - (n + 1) + 1 ELSE 0
        /\ \A i \in 1..(Len(s) - (n + 1) + 1) : b[i] = s[(n + 1) + i - 1]
    BY <2>1, <1>0, SubSeqProperties, n + 1 \in Int, Len(s) \in Int
  <2> HIDE DEF b
  <2>3. Len(b) = Len(s) - n
    <3>1. CASE n + 1 <= Len(s)
      BY <3>1, <2>2, <1>0
    <3>2. CASE n = Len(s)
      <4>1. ~(n + 1 <= Len(s))
        BY <3>2, <1>0
      <4> QED  BY <4>1, <3>2, <2>2, <1>0
    <3>3. Len(s) \in Nat
      BY <1>0
    <3>4. n = Len(s) \/ n + 1 <= Len(s)
      BY <3>3
    <3> QED  BY <3>1, <3>2, <3>4
  <2>4. ASSUME NEW i \in 1..(Len(s) - n) PROVE b[i] = s[n + i]
    <3>1. i \in 1..(Len(s) - (n + 1) + 1) /\ (n + 1) + i - 1 = n + i
      BY <1>0
    <3>2. b[i] = s[(n + 1) + i - 1]
      BY <3>1, <2>2
    <3> QED  BY <3>1, <3>2
  <2> QED  BY <2>2, <2>3, <2>4
<1> HIDE DEF a, b
<1>3. /\ t \in Seq(S) /\ Len(t) = Len(s) - 1
      /\ \A i \in 1..(Len(s) - 1) : t[i] = IF i < n THEN s[i] ELSE s[i + 1]
  <2>1. /\ t \in Seq(S) /\ Len(t) = Len(a) + Len(b)
        /\ \A i \in 1..(Len(a) + Len(b)) :
             t[i] = IF i <= Len(a) THEN a[i] ELSE b[i - Len(a)]
    BY <1>1, <1>2, ConcatProperties
  <2>2. ASSUME NEW i \in 1..(Len(s) - 1)
        PROVE  t[i] = IF i < n THEN s[i] ELSE s[i + 1]
    <3>1. CASE i < n
      BY <3>1, <2>1, <1>0, <1>1, <1>2
    <3>2. CASE i >= n
      <4>1. i - (n - 1) \in 1..(Len(s) - n)
        BY <3>2, <1>0
      <4>2. t[i] = b[i - (n - 1)]
        BY <3>2, <2>1, <1>0, <1>1, <1>2
      <4>3. b[i - (n - 1)] = s[n + (i - (n - 1))]
        BY <4>1, <1>2
      <4>4. n + (i - (n - 1)) = i + 1
        BY <1>0
      <4> QED  BY <4>2, <4>3, <4>4, <3>2, <1>0
    <3> HIDE DEF t
    <3> QED  BY <3>1, <3>2, <1>0
  <2> QED  BY <2>1, <2>2, <1>0, <1>1, <1>2
<1> QED  BY <1>3 DEF RemoveAt, t, a, b

(* Removing the entry at a position of a queue without repetitions.        *)
LEMMA RemoveAtPosition ==
  ASSUME NEW S, NEW s \in Seq(S), NEW n \in 1..Len(s), IsInjective(s)
  PROVE  /\ RemoveAt(s, n) \in Seq(S)
         /\ ToSet(RemoveAt(s, n)) = ToSet(s) \ {s[n]}
         /\ IsInjective(RemoveAt(s, n))
<1> DEFINE t == RemoveAt(s, n)
<1>0. /\ Len(s) \in Nat /\ DOMAIN s = 1..Len(s)
      /\ \A i \in 1..Len(s) : s[i] \in S
  BY LenProperties, ElementOfSeq
<1>3. /\ t \in Seq(S) /\ Len(t) = Len(s) - 1
      /\ \A i \in 1..(Len(s) - 1) : t[i] = IF i < n THEN s[i] ELSE s[i + 1]
  BY RemoveAtElements
<1> HIDE DEF t
<1>4. DOMAIN t = 1..(Len(s) - 1)
  BY <1>3, LenProperties
<1>5. ToSet(t) = ToSet(s) \ {s[n]}
  <2>1. ASSUME NEW x \in ToSet(t) PROVE x \in ToSet(s) \ {s[n]}
    <3>1. PICK i \in 1..(Len(s) - 1) : x = t[i]
      BY <2>1, <1>4 DEF ToSet
    <3>2. PICK k \in 1..Len(s) : k # n /\ x = s[k]
      BY <3>1, <1>3, <1>0
    <3>3. s[k] # s[n]
      BY <3>2, <1>0 DEF IsInjective
    <3> QED  BY <3>2, <3>3, <1>0 DEF ToSet
  <2>2. ASSUME NEW x \in ToSet(s), x # s[n] PROVE x \in ToSet(t)
    <3>1. PICK k \in 1..Len(s) : k # n /\ x = s[k]
      BY <2>2, <1>0 DEF ToSet
    <3>2. PICK i \in 1..(Len(s) - 1) : t[i] = s[k]
      <4>1. CASE k < n
        BY <4>1, <1>3, <1>0
      <4>2. CASE k > n
        <5>1. k - 1 \in 1..(Len(s) - 1) /\ ~(k - 1 < n) /\ (k - 1) + 1 = k
          BY <4>2, <1>0
        <5> QED  BY <5>1, <1>3
      <4> QED  BY <4>1, <4>2, <3>1, <1>0
    <3> QED  BY <3>1, <3>2, <1>4 DEF ToSet
  <2> QED  BY <2>1, <2>2
<1>6. IsInjective(t)
  <2> SUFFICES ASSUME NEW i \in 1..(Len(s) - 1), NEW k \in 1..(Len(s) - 1), t[i] = t[k]
               PROVE  i = k
    BY <1>4 DEF IsInjective
  <2> DEFINE at(m) == IF m < n THEN m ELSE m + 1
  <2>1. at(i) \in DOMAIN s /\ at(k) \in DOMAIN s
    BY <1>0
  <2>2. t[i] = s[at(i)] /\ t[k] = s[at(k)]
    BY <1>3
  <2>3. at(i) = at(k)
    <3> HIDE DEF at
    <3> QED  BY <2>1, <2>2 DEF IsInjective
  <2> QED  BY <2>3, <1>0
<1> QED  BY <1>3, <1>5, <1>6 DEF t

(* deque.remove of an element that is there, at position n.                *)
LEMMA RemoveFirstAt ==
  ASSUME NEW S, NEW s \in Seq(S), IsInjective(s), NEW n \in 1..Len(s)
  PROVE  RemoveFirst(s, s[n]) = RemoveAt(s, n)
<1> DEFINE I == {i \in 1..Len(s) : s[i] = s[n]}
<1>0. Len(s) \in Nat /\ DOMAIN s = 1..Len(s)
  BY LenProperties
<1>1. I = {n}
  BY <1>0 DEF IsInjective
<1>2. Min(I) = n
  <2>1. \A x \in I : \A y \in I : x =< y
    BY <1>1, <1>0
  <2>2. Min(I) \in I
    BY <1>1, <2>1 DEF Min
  <2> QED  BY <1>1, <2>2
<1>3. SelectInSeq(s, LAMBDA v : v = s[n]) = n
  BY <1>1, <1>2 DEF SelectInSeq
<1> QED  BY <1>3 DEF RemoveFirst

(* deque.remove, which does nothing (the ValueError is swallowed) when the  *)
(* element is not there.                                                   *)
LEMMA RemoveFirstElement ==
  ASSUME NEW S, NEW s \in Seq(S), NEW e, IsInjective(s)
  PROVE  /\ RemoveFirst(s, e) \in Seq(S)
         /\ ToSet(RemoveFirst(s, e)) = ToSet(s) \ {e}
         /\ IsInjective(RemoveFirst(s, e))
         /\ e \notin ToSet(s) => RemoveFirst(s, e) = s
<1>0. Len(s) \in Nat /\ DOMAIN s = 1..Len(s)
  BY LenProperties
<1>1. CASE \E i \in 1..Len(s) : s[i] = e
  <2>1. PICK n \in 1..Len(s) : s[n] = e
    BY <1>1
  <2>2. RemoveFirst(s, e) = RemoveAt(s, n)
    BY <2>1, RemoveFirstAt
  <2>3. e \in ToSet(s)
    BY <2>1, <1>0 DEF ToSet
  <2> QED  BY <2>1, <2>2, <2>3, RemoveAtPosition
<1>2. CASE ~ \E i \in 1..Len(s) : s[i] = e
  <2>1. RemoveFirst(s, e) = s
    BY <1>2 DEF RemoveFirst
  <2>2. e \notin ToSet(s)
    BY <1>2, <1>0 DEF ToSet
  <2> QED  BY <2>1, <2>2
<1> QED  BY <1>1, <1>2

(* Popping from the front of an OrderedDict.                               *)
LEMMA DropFront ==
  ASSUME NEW S, NEW s \in Seq(S), NEW n \in 0..Len(s)
  PROVE  /\ SubSeq(s, n + 1, Len(s)) \in Seq(S)
         /\ Len(SubSeq(s, n + 1, Len(s))) = Len(s) - n
         /\ \A i \in 1..(Len(s) - n) : SubSeq(s, n + 1, Len(s))[i] = s[n + i]
         /\ ToSet(SubSeq(s, n + 1, Len(s))) \subseteq ToSet(s)
         /\ IsInjective(s) => IsInjective(SubSeq(s, n + 1, Len(s)))
<1> DEFINE t == SubSeq(s, n + 1, Len(s))
<1>0. /\ Len(s) \in Nat /\ DOMAIN s = 1..Len(s)
      /\ \A i \in 1..Len(s) : s[i] \in S
  BY LenProperties, ElementOfSeq
<1>1. /\ t \in Seq(S) /\ Len(t) = Len(s) - n
      /\ \A i \in 1..(Len(s) - n) : t[i] = s[n + i]
  <2>1. \A i \in (n + 1)..Len(s) : s[i] \in S
    BY <1>0
  <2>2. /\ t \in Seq(S)
        /\ Len(t) = IF n + 1 <= Len(s) THEN Len(s) - (n + 1) + 1 ELSE 0
        /\ \A i \in 1..(Len(s) - (n + 1) + 1) : t[i] = s[(n + 1) + i - 1]
    BY <2>1, <1>0, SubSeqProperties, n + 1 \in Int, Len(s) \in Int
  <2> HIDE DEF t
  <2>3. Len(t) = Len(s) - n
    <3>1. CASE n + 1 <= Len(s)
      BY <3>1, <2>2, <1>0
    <3>2. CASE n = Len(s)
      <4>1. ~(n + 1 <= Len(s))
        BY <3>2, <1>0
      <4> QED  BY <4>1, <3>2, <2>2, <1>0
    <3>3. Len(s) \in Nat
      BY <1>0
    <3>4. n = Len(s) \/ n + 1 <= Len(s)
      BY <3>3
    <3> QED  BY <3>1, <3>2, <3>4
  <2>4. ASSUME NEW i \in 1..(Len(s) - n) PROVE t[i] = s[n + i]
    <3>1. i \in 1..(Len(s) - (n + 1) + 1) /\ (n + 1) + i - 1 = n + i
      BY <1>0
    <3>2. t[i] = s[(n + 1) + i - 1]
      BY <3>1, <2>2
    <3> QED  BY <3>1, <3>2
  <2> QED  BY <2>2, <2>3, <2>4
<1> HIDE DEF t
<1>2. DOMAIN t = 1..(Len(s) - n)
  BY <1>1, LenProperties
<1>3. \A i \in DOMAIN t : n + i \in DOMAIN s /\ t[i] = s[n + i]
  BY <1>0, <1>1, <1>2
<1>4. ToSet(t) \subseteq ToSet(s)
  BY <1>3 DEF ToSet
<1>5. ASSUME IsInjective(s) PROVE IsInjective(t)
  <2> SUFFICES ASSUME NEW i \in DOMAIN t, NEW k \in DOMAIN t, t[i] = t[k]
               PROVE  i = k
    BY DEF IsInjective
  <2>1. n + i = n + k
    BY <1>3, <1>5 DEF IsInjective
  <2> QED  BY <2>1, <1>2, <1>0
<1> QED  BY <1>1, <1>4, <1>5 DEF t

(* deque.popleft.                                                          *)
LEMMA PopFront ==
  ASSUME NEW S, NEW s \in Seq(S), s # <<>>
  PROVE  /\ Head(s) \in S /\ Tail(s) \in Seq(S)
         /\ Head(s) = s[1] /\ 1 \in DOMAIN s /\ Tail(s) = SubSeq(s, 2, Len(s))
         /\ ToSet(s) = {Head(s)} \cup ToSet(Tail(s))
         /\ IsInjective(s) => Head(s) \notin ToSet(Tail(s)) /\ IsInjective(Tail(s))
<1>0. /\ Len(s) \in Nat \ {0} /\ DOMAIN s = 1..Len(s)
      /\ Head(s) = s[1] /\ 1 \in DOMAIN s
  BY LenProperties, EmptySeq
<1>1. /\ Head(s) \in S /\ Tail(s) \in Seq(S) /\ Len(Tail(s)) = Len(s) - 1
      /\ \A i \in 1..Len(Tail(s)) : Tail(s)[i] = s[i + 1]
  BY HeadTailProperties
<1>2. Tail(s) = SubSeq(s, 2, Len(s))
  BY TailIsSubSeq
<1> DEFINE t == Tail(s)
<1>3. DOMAIN t = 1..(Len(s) - 1) /\ \A i \in DOMAIN t : i + 1 \in DOMAIN s /\ t[i] = s[i + 1]
  BY <1>0, <1>1, LenProperties
<1> HIDE DEF t
<1>4. ToSet(s) = {s[1]} \cup ToSet(t)
  <2>1. ASSUME NEW x \in ToSet(s), x # s[1] PROVE x \in ToSet(t)
    <3>1. PICK k \in 2..Len(s) : x = s[k]
      BY <2>1, <1>0 DEF ToSet
    <3>2. k - 1 \in DOMAIN t /\ t[k - 1] = s[k]
      BY <1>0, <1>3
    <3> QED  BY <3>1, <3>2 DEF ToSet
  <2>2. ToSet(t) \subseteq ToSet(s) /\ s[1] \in ToSet(s)
    BY <1>0, <1>3 DEF ToSet
  <2> QED  BY <2>1, <2>2
<1>5. ASSUME IsInjective(s) PROVE s[1] \notin ToSet(t) /\ IsInjective(t)
  <2>1. ASSUME NEW i \in DOMAIN t PROVE t[i] # s[1]
    BY <1>0, <1>3, <1>5 DEF IsInjective
  <2>2. ASSUME NEW i \in DOMAIN t, NEW k \in DOMAIN t, t[i] = t[k] PROVE i = k
    <3>1. i + 1 = k + 1
      BY <1>3, <1>5, <2>2 DEF IsInjective
    <3> QED  BY <3>1, <1>3, <1>0
  <2> QED  BY <2>1, <2>2 DEF IsInjective, ToSet
<1> QED  BY <1>0, <1>1, <1>2, <1>4, <1>5 DEF t

(* A queue behind its first element.                                       *)
LEMMA FirstInLine ==
  ASSUME NEW S, NEW x \in S, NEW s \in Seq(S)
  PROVE  /\ <<x>> \o s \in Seq(S) /\ <<x>> \o s # <<>>
         /\ Head(<<x>> \o s) = x
         /\ Len(<<x>> \o s) = Len(s) + 1
         /\ \A i \in 1..Len(s) : (<<x>> \o s)[i + 1] = s[i]
         /\ ToSet(<<x>> \o s) = {x} \cup ToSet(s)
         /\ IsInjective(s) /\ x \notin ToSet(s) => IsInjective(<<x>> \o s)
<1> DEFINE t == <<x>> \o s
<1>0. Len(s) \in Nat /\ DOMAIN s = 1..Len(s) /\ <<x>> \in Seq(S) /\ Len(<<x>>) = 1 /\ <<x>>[1] = x
  BY LenProperties
<1>1. /\ t \in Seq(S) /\ Len(t) = 1 + Len(s)
      /\ \A i \in 1..(1 + Len(s)) : t[i] = IF i <= 1 THEN <<x>>[i] ELSE s[i - 1]
  BY <1>0, ConcatProperties
<1> HIDE DEF t
<1>2. DOMAIN t = 1..(Len(s) + 1) /\ t # <<>>
  BY <1>0, <1>1, LenProperties, EmptySeq
<1>3. t[1] = x /\ \A i \in 1..Len(s) : t[i + 1] = s[i]
  <2>1. t[1] = x
    BY <1>0, <1>1
  <2>2. ASSUME NEW i \in 1..Len(s) PROVE t[i + 1] = s[i]
    <3>1. i + 1 \in 1..(1 + Len(s)) /\ ~(i + 1 <= 1) /\ (i + 1) - 1 = i
      BY <1>0
    <3> QED  BY <3>1, <1>1
  <2> QED  BY <2>1, <2>2
<1>4. Head(t) = x
  BY <1>2, <1>3
<1>5. \A k \in DOMAIN t : k = 1 \/ \E i \in DOMAIN s : k = i + 1 /\ t[k] = s[i]
  <2>1. ASSUME NEW k \in DOMAIN t, k # 1 PROVE k - 1 \in DOMAIN s /\ k = (k - 1) + 1
    BY <2>1, <1>0, <1>2
  <2> QED  BY <2>1, <1>3, <1>0
<1>6. \A i \in DOMAIN s : i + 1 \in DOMAIN t /\ t[i + 1] = s[i]
  BY <1>0, <1>2, <1>3
<1>7. ToSet(t) = {x} \cup ToSet(s)
  <2>1. ToSet(t) \subseteq {x} \cup ToSet(s)
    BY <1>3, <1>5 DEF ToSet
  <2>2. 1 \in DOMAIN t
    BY <1>0, <1>2
  <2> QED  BY <2>1, <2>2, <1>3, <1>6 DEF ToSet
<1>8. ASSUME IsInjective(s), x \notin ToSet(s) PROVE IsInjective(t)
  <2> SUFFICES ASSUME NEW k \in DOMAIN t, NEW m \in DOMAIN t, t[k] = t[m] PROVE k = m
    BY DEF IsInjective
  <2>1. \A i \in DOMAIN s : s[i] # x
    BY <1>8 DEF ToSet
  <2> QED  BY <2>1, <1>3, <1>5, <1>8 DEF IsInjective
<1> QED  BY <1>0, <1>1, <1>2, <1>3, <1>4, <1>7, <1>8 DEF t

(* A line and the one before it.                                           *)
LEMMA LineFacts ==
  ASSUME NEW S, NEW x \in S, NEW s \in Seq(S), IsInjective(s), x \notin ToSet(s)
  PROVE  /\ Len(s) \in Nat /\ DOMAIN s = 1..Len(s) /\ Len(<<x>> \o s) = Len(s) + 1
         /\ <<x>> \o s \in Seq(S) /\ DOMAIN (<<x>> \o s) = 1..(Len(s) + 1)
         /\ IsInjective(<<x>> \o s)
         /\ (<<x>> \o s)[1] = x /\ \A i \in 1..Len(s) : (<<x>> \o s)[i + 1] = s[i]
         /\ ToSet(<<x>> \o s) = {x} \cup ToSet(s)
<1> DEFINE t == <<x>> \o s
<1>1. /\ t \in Seq(S) /\ t # <<>> /\ Head(t) = x /\ Len(t) = Len(s) + 1
      /\ \A i \in 1..Len(s) : t[i + 1] = s[i]
      /\ ToSet(t) = {x} \cup ToSet(s) /\ IsInjective(t)
  BY FirstInLine
<1> HIDE DEF t
<1>2. /\ Len(s) \in Nat /\ DOMAIN s = 1..Len(s) /\ DOMAIN t = 1..(Len(s) + 1) /\ t[1] = x
  BY <1>1, LenProperties
<1> QED  BY <1>1, <1>2 DEF t

(* The first leaves.                                                       *)
LEMMA LeaveFirst ==
  ASSUME NEW S, NEW x \in S, NEW s \in Seq(S), IsInjective(s), x \notin ToSet(s)
  PROVE  RemoveFirst(<<x>> \o s, x) = s
<1> DEFINE t == <<x>> \o s
<1>0. /\ Len(s) \in Nat /\ DOMAIN s = 1..Len(s) /\ Len(t) = Len(s) + 1
      /\ t \in Seq(S) /\ DOMAIN t = 1..(Len(s) + 1) /\ IsInjective(t)
      /\ t[1] = x /\ \A i \in 1..Len(s) : t[i + 1] = s[i]
      /\ ToSet(t) = {x} \cup ToSet(s)
  BY LineFacts
<1> SUFFICES RemoveFirst(t, x) = s
  OBVIOUS
<1> HIDE DEF t
<1>1. RemoveFirst(t, x) = RemoveAt(t, 1)
  BY <1>0, RemoveFirstAt
<1>2. /\ RemoveAt(t, 1) \in Seq(S) /\ Len(RemoveAt(t, 1)) = Len(t) - 1
      /\ \A i \in 1..(Len(t) - 1) : RemoveAt(t, 1)[i] = IF i < 1 THEN t[i] ELSE t[i + 1]
  <2>1. 1 \in 1..Len(t) /\ t \in Seq(S)
    BY <1>0
  <2> QED  BY <2>1, RemoveAtElements
<1>3. \A i \in 1..Len(RemoveAt(t, 1)) : RemoveAt(t, 1)[i] = s[i]
  BY <1>0, <1>2
<1> QED  BY <1>0, <1>1, <1>2, <1>3, SeqEqual

(* Somebody behind it leaves.                                              *)
LEMMA LeaveBehind ==
  ASSUME NEW S, NEW x \in S, NEW s \in Seq(S), IsInjective(s), x \notin ToSet(s),
         NEW e, e # x
  PROVE  RemoveFirst(<<x>> \o s, e) = <<x>> \o RemoveFirst(s, e)
<1> DEFINE t == <<x>> \o s
<1>0. /\ Len(s) \in Nat /\ DOMAIN s = 1..Len(s) /\ Len(t) = Len(s) + 1
      /\ t \in Seq(S) /\ DOMAIN t = 1..(Len(s) + 1) /\ IsInjective(t)
      /\ t[1] = x /\ \A i \in 1..Len(s) : t[i + 1] = s[i]
      /\ ToSet(t) = {x} \cup ToSet(s)
  BY LineFacts
<1> SUFFICES RemoveFirst(t, e) = <<x>> \o RemoveFirst(s, e)
  OBVIOUS
<1> HIDE DEF t
<1>1. CASE e \notin ToSet(s)
  <2>1. e \notin ToSet(t)
    BY <1>1, <1>0
  <2>2. RemoveFirst(s, e) = s
    BY <1>1, RemoveFirstElement
  <2>3. RemoveFirst(t, e) = t
    BY <2>1, <1>0, RemoveFirstElement
  <2> QED  BY <2>2, <2>3 DEF t
<1>2. CASE e \in ToSet(s)
  <2>1. PICK n \in 1..Len(s) : s[n] = e
    BY <1>2, <1>0 DEF ToSet
  <2> DEFINE u == RemoveAt(s, n)
             v == RemoveAt(t, n + 1)
             y == <<x>> \o u
  <2>2. n + 1 \in 1..Len(t) /\ t[n + 1] = e
    BY <1>0, <2>1
  <2>3. RemoveFirst(s, e) = u /\ RemoveFirst(t, e) = v
    BY <1>0, <2>1, <2>2, RemoveFirstAt
  <2>4. /\ u \in Seq(S) /\ Len(u) = Len(s) - 1
        /\ \A i \in 1..(Len(s) - 1) : u[i] = IF i < n THEN s[i] ELSE s[i + 1]
    BY RemoveAtElements
  <2>5. /\ v \in Seq(S) /\ Len(v) = Len(t) - 1
        /\ \A i \in 1..(Len(t) - 1) : v[i] = IF i < n + 1 THEN t[i] ELSE t[i + 1]
    BY <1>0, <2>2, RemoveAtElements
  <2> HIDE DEF u, v
  <2>6. /\ y \in Seq(S) /\ y # <<>> /\ Head(y) = x /\ Len(y) = Len(u) + 1
        /\ \A i \in 1..Len(u) : y[i + 1] = u[i]
    BY <2>4, FirstInLine
  <2> HIDE DEF y
  <2>7. y[1] = x
    BY <2>6
  <2>8. ASSUME NEW i \in 1..Len(s) PROVE v[i] = y[i]
    <3>1. CASE i = 1
      <4>1. 1 \in 1..(Len(t) - 1) /\ 1 < n + 1
        BY <1>0
      <4> QED  BY <3>1, <4>1, <2>5, <2>7, <1>0
    <3>2. CASE i # 1
      <4> DEFINE k == i - 1
      <4>1. k \in 1..(Len(s) - 1) /\ i = k + 1
        BY <3>2, <1>0
      <4> HIDE DEF k
      <4>2. y[i] = u[k]
        BY <4>1, <2>4, <2>6
      <4>3. v[i] = IF k < n THEN t[k + 1] ELSE t[(k + 1) + 1]
        BY <4>1, <2>5, <1>0
      <4>4. k \in 1..Len(s) /\ k + 1 \in 1..Len(s)
        BY <4>1, <1>0
      <4>5. t[k + 1] = s[k] /\ t[(k + 1) + 1] = s[k + 1]
        BY <4>4, <1>0
      <4> QED  BY <4>1, <4>2, <4>3, <4>5, <2>4
    <3> QED  BY <3>1, <3>2
  <2>9. Len(v) = Len(s) /\ Len(y) = Len(s)
    BY <1>0, <2>4, <2>5, <2>6
  <2>10. v = y
    BY <2>5, <2>6, <2>8, <2>9, SeqEqual
  <2> QED  BY <2>3, <2>10 DEF y
<1> QED  BY <1>1, <1>2

(* Somebody joins.                                                         *)
LEMMA JoinLine ==
  ASSUME NEW S, NEW x \in S, NEW s \in Seq(S), NEW e \in S
  PROVE  Append(<<x>> \o s, e) = <<x>> \o Append(s, e)
<1>1. <<x>> \in Seq(S) /\ <<e>> \in Seq(S) /\ <<x>> \o s \in Seq(S)
  BY FirstInLine
<1>2. Append(<<x>> \o s, e) = (<<x>> \o s) \o <<e>> /\ Append(s, e) = s \o <<e>>
  BY <1>1, AppendIsConcat
<1> QED  BY <1>1, <1>2, ConcatAssociative

(* A sequence is its head and what follows.                                *)
LEMMA HeadThenTail ==
  ASSUME NEW S, NEW s \in Seq(S), s # <<>>
  PROVE  <<Head(s)>> \o Tail(s) = s
<1> DEFINE t == <<Head(s)>> \o Tail(s)
<1>1. Len(s) \in Nat \ {0} /\ DOMAIN s = 1..Len(s)
  BY LenProperties, EmptySeq
<1>2. /\ Head(s) \in S /\ Head(s) = s[1] /\ Tail(s) \in Seq(S) /\ Len(Tail(s)) = Len(s) - 1
      /\ \A i \in 1..Len(Tail(s)) : Tail(s)[i] = s[i + 1]
  BY <1>1, HeadTailProperties
<1>3. /\ t \in Seq(S) /\ Head(t) = s[1] /\ Len(t) = Len(s) /\ t # <<>>
      /\ \A i \in 1..(Len(s) - 1) : t[i + 1] = s[i + 1]
  BY <1>1, <1>2, FirstInLine
<1>4. t[1] = s[1]
  BY <1>3
<1> HIDE DEF t
<1>5. \A i \in 1..Len(s) : t[i] = s[i]
  <2>1. ASSUME NEW i \in 1..Len(s), i # 1 PROVE i - 1 \in 1..(Len(s) - 1) /\ (i - 1) + 1 = i
    BY <1>1, <2>1
  <2> QED  BY <1>3, <1>4, <2>1
<1>6. t = s
  BY <1>1, <1>3, <1>5, SeqEqual
<1> QED  BY <1>6 DEF t

=============================================================================
