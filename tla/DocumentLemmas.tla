---------------------------- MODULE DocumentLemmas ----------------------------
(***************************************************************************)
(* Lemmas about the operators of DocxLayout and PdfImages, for every       *)
(* document: order statistics, sums, flattened sequences, heights and the  *)
(* advance from page to page.                                              *)
(*                                                                         *)
(* What is proved by induction takes a least counterexample.               *)
(***************************************************************************)
EXTENDS DocxLayout, PdfImages, SequenceTheorems, FiniteSetTheorems, FunctionTheorems,
        WellFoundedInduction, TLAPS

-----------------------------------------------------------------------------
(* Least and greatest elements. *)

LEMMA LeastNat ==
    ASSUME NEW T \in SUBSET Nat, T # {}
    PROVE  \E i \in T : \A k \in T : i <= k
<1> DEFINE R == {ss \in Nat \X Nat : ss[1] < ss[2]}
<1>1. IsWellFoundedOn(R, Nat)
  BY NatLessThanWellFounded DEF OpToRel
<1>2. PICK i \in T : \A k \in T : <<k, i>> \notin R
  BY <1>1, WFMin
<1>3. \A k \in T : ~(k < i)
  BY <1>2
<1>4. QED
  BY <1>3

LEMMA MaxOfFinite ==
    ASSUME NEW S \in SUBSET Int, IsFiniteSet(S), S # {}
    PROVE  Max(S) \in S /\ \A x \in S : x <= Max(S)
<1> DEFINE Above(x) == {y \in S : y > x}
           Counts   == {Cardinality(Above(x)) : x \in S}
<1>1. ASSUME NEW x \in S
      PROVE  IsFiniteSet(Above(x)) /\ Cardinality(Above(x)) \in Nat
  <2>1. IsFiniteSet(Above(x))
    BY FS_Subset
  <2>2. QED
    BY <2>1, FS_CardinalityType
<1>2. Counts \in SUBSET Nat /\ Counts # {}
  BY <1>1
<1>3. PICK n \in Counts : \A k \in Counts : n <= k
  <2> HIDE DEF Counts
  <2> QED
    BY <1>2, LeastNat
<1>4. PICK x \in S : n = Cardinality(Above(x))
  BY <1>3
<1>5. ASSUME NEW y \in S, y > x
      PROVE  FALSE
  <2>0. x \in Int /\ y \in Int /\ \A z \in S : z \in Int
    OBVIOUS
  <2>1. Above(y) \subseteq Above(x) /\ y \in Above(x) /\ y \notin Above(y)
    <3>1. ASSUME NEW z \in Above(y)
          PROVE  z \in Above(x)
      BY <1>5, <2>0
    <3>2. y \in Above(x) /\ y \notin Above(y)
      BY <1>5, <2>0
    <3>3. QED
      BY <3>1, <3>2
  <2>2. Cardinality(Above(y)) <= Cardinality(Above(x)) /\ Cardinality(Above(y)) # Cardinality(Above(x))
    <3> HIDE DEF Above
    <3> QED
      BY <1>1, <2>1, FS_Subset
  <2>3. Cardinality(Above(x)) <= Cardinality(Above(y))
    BY <1>3, <1>4
  <2>4. QED
    BY <1>1, <2>2, <2>3
<1>6. \A y \in S : x >= y
  BY <1>5
<1>7. QED
  BY <1>6 DEF Max

LEMMA MinOfFinite ==
    ASSUME NEW S \in SUBSET Int, IsFiniteSet(S), S # {}
    PROVE  Min(S) \in S /\ \A x \in S : Min(S) <= x
<1> DEFINE Negated == {-x : x \in S}
           f == [x \in S |-> -x]
<1>1. IsFiniteSet(Negated)
  <2>1. f \in Surjection(S, Negated)
    <3>1. f \in [S -> Negated]
      OBVIOUS
    <3>2. \A y \in Negated : \E x \in S : f[x] = y
      OBVIOUS
    <3>3. QED
      BY <3>1, <3>2, Fun_IsSurj
  <2>2. QED
    BY <2>1, FS_Surjection
<1>i. \A x \in S : x \in Int /\ -x \in Int
  OBVIOUS
<1>2. Negated \in SUBSET Int /\ Negated # {}
  BY <1>i
<1>3. Max(Negated) \in Negated /\ \A y \in Negated : y <= Max(Negated)
  <2> HIDE DEF Negated
  <2> QED
    BY <1>1, <1>2, MaxOfFinite
<1>4. PICK x \in S : Max(Negated) = -x
  BY <1>3
<1>5. ASSUME NEW y \in S
      PROVE  x <= y
  <2>1. -y <= -x
    BY <1>3, <1>4
  <2>2. QED
    BY <1>i, <2>1
<1>6. QED
  BY <1>5 DEF Min

\* Of two values.
LEMMA MaxOfTwo ==
    ASSUME NEW a \in Int, NEW b \in Int
    PROVE  Max({a, b}) = IF a >= b THEN a ELSE b
BY DEF Max

LEMMA AtLeastType ==
    ASSUME NEW a \in Int, NEW b \in Int
    PROVE  AtLeast(a, b) \in Int /\ AtLeast(a, b) >= a /\ AtLeast(a, b) >= b
BY DEF AtLeast

-----------------------------------------------------------------------------
(* Sums over finite sets. *)

\* A nonempty family of finite sets has one that none of the others is part of.
LEMMA MinimalSet ==
    ASSUME NEW S, IsFiniteSet(S), NEW F \in SUBSET SUBSET S, F # {}
    PROVE  \E T \in F : \A U \in F : U \subseteq T => U = T
<1> DEFINE Sizes_ == {Cardinality(T) : T \in F}
<1>1. \A T \in SUBSET S : IsFiniteSet(T) /\ Cardinality(T) \in Nat
  BY FS_Subset, FS_CardinalityType
<1>2. Sizes_ \in SUBSET Nat /\ Sizes_ # {}
  BY <1>1
<1>3. PICK n \in Sizes_ : \A k \in Sizes_ : n <= k
  <2> HIDE DEF Sizes_
  <2> QED
    BY <1>2, LeastNat
<1>4. PICK T \in F : n = Cardinality(T)
  BY <1>3
<1>5. ASSUME NEW U \in F, U \subseteq T
      PROVE  U = T
  <2>1. IsFiniteSet(T) /\ U \in SUBSET T
    BY <1>1, <1>5
  <2>2. Cardinality(U) <= Cardinality(T)
    BY <2>1, FS_Subset
  <2>3. Cardinality(T) <= Cardinality(U)
    BY <1>3, <1>4
  <2>4. Cardinality(T) = Cardinality(U)
    BY <1>1, <2>2, <2>3
  <2>5. QED
    BY <2>1, <2>4, FS_Subset
<1>6. QED
  BY <1>5

\* The element that the fold takes first.
Pick(s) == CHOOSE x \in s : TRUE
SumOfPart(f, S) ==
    CHOOSE iter : iter = [s \in SUBSET S |-> IF s = {} THEN 0 ELSE f[Pick(s)] + iter[s \ {Pick(s)}]]

LEMMA SumIsFold ==
    ASSUME NEW f, NEW S
    PROVE  SumFunctionOnSet(f, S) = SumOfPart(f, S)[S]
BY DEF SumFunctionOnSet, FoldFunctionOnSet, MapThenFoldSet, SumOfPart, Pick

LEMMA PickInSet ==
    ASSUME NEW s, s # {}
    PROVE  Pick(s) \in s
BY DEF Pick

\* The sums of the parts of a finite set exist.
LEMMA SumsExist ==
    ASSUME NEW S, IsFiniteSet(S), NEW f, \A x \in S : f[x] \in Int
    PROVE  /\ SumOfPart(f, S) \in [SUBSET S -> Int]
           /\ \A s \in SUBSET S :
                 SumOfPart(f, S)[s] = IF s = {} THEN 0 ELSE f[Pick(s)] + SumOfPart(f, S)[s \ {Pick(s)}]
<1> DEFINE Level(n)    == {s \in SUBSET S : Cardinality(s) <= n}
           Step(g, s)  == IF s = {} THEN 0 ELSE f[Pick(s)] + g[s \ {Pick(s)}]
           Sums(g, n)  == g \in [Level(n) -> Int] /\ \A s \in Level(n) : g[s] = Step(g, s)
           Bad         == {n \in Nat : ~\E g : Sums(g, n)}
<1>1. \A s \in SUBSET S : IsFiniteSet(s) /\ Cardinality(s) \in Nat
  BY FS_Subset, FS_CardinalityType
<1>2. \A s \in SUBSET S : s = {} <=> Cardinality(s) = 0
  BY <1>1, FS_EmptySet
<1>3. ASSUME NEW n \in Nat, NEW s \in Level(n), s # {}
      PROVE  /\ Pick(s) \in s /\ f[Pick(s)] \in Int
             /\ n > 0 /\ s \ {Pick(s)} \in Level(n - 1)
  <2>1. Pick(s) \in s
    BY <1>3, PickInSet
  <2>2. Cardinality(s \ {Pick(s)}) = Cardinality(s) - 1
    BY <1>1, <2>1, FS_RemoveElement
  <2>3. QED
    BY <1>1, <1>2, <1>3, <2>1, <2>2
<1>4. Bad = {}
  <2> SUFFICES ASSUME Bad # {}
               PROVE  FALSE
    OBVIOUS
  <2>1. PICK n \in Bad : \A k \in Bad : n <= k
    <3>1. Bad \in SUBSET Nat
      OBVIOUS
    <3> HIDE DEF Bad
    <3> QED
      BY <3>1, LeastNat
  <2>2. n # 0
    <3> DEFINE g == [s \in Level(0) |-> 0]
    <3>1. \A s \in Level(0) : s = {}
      BY <1>1, <1>2
    <3>2. Sums(g, 0)
      BY <3>1
    <3>3. \E any : Sums(any, 0)
      <4> HIDE DEF g, Sums
      <4> QED
        BY <3>2
    <3>4. n \in Nat /\ ~\E any : Sums(any, n)
      OBVIOUS
    <3> HIDE DEF Sums, Bad
    <3> QED
      BY <3>3, <3>4
  <2>3. n - 1 \in Nat /\ n - 1 \notin Bad
    <3>1. n \in Nat
      OBVIOUS
    <3> HIDE DEF Bad
    <3> QED
      BY <2>1, <2>2, <3>1
  <2>4. PICK g : Sums(g, n - 1)
    BY <2>3
  <2> DEFINE h == [s \in Level(n) |-> Step(g, s)]
  <2>5. ASSUME NEW s \in Level(n)
        PROVE  h[s] \in Int /\ h[s] = Step(g, s)
    BY <1>3, <2>4
  <2>6. ASSUME NEW s \in Level(n - 1)
        PROVE  s \in Level(n) /\ h[s] = g[s]
    BY <1>1, <2>4
  <2>7. ASSUME NEW s \in Level(n)
        PROVE  h[s] = Step(h, s)
    <3>1. CASE s = {}
      BY <2>5, <3>1
    <3>2. CASE s # {}
      <4>1. s \ {Pick(s)} \in Level(n - 1)
        BY <1>3, <3>2
      <4>2. h[s \ {Pick(s)}] = g[s \ {Pick(s)}]
        BY <2>6, <4>1
      <4> HIDE DEF h
      <4> QED
        BY <2>5, <4>2
    <3> QED
      BY <3>1, <3>2
  <2>8. h \in [Level(n) -> Int]
    BY <2>5
  <2>9. Sums(h, n)
    <3> HIDE DEF h
    <3> QED
      BY <2>7, <2>8
  <2> QED
    BY <2>9
<1>5. PICK g : Sums(g, Cardinality(S))
  BY <1>1, <1>4
<1>6. Level(Cardinality(S)) = SUBSET S
  <2>1. ASSUME NEW s \in SUBSET S
        PROVE  Cardinality(s) <= Cardinality(S)
    BY FS_Subset
  <2> QED
    BY <2>1
<1>7. g = [s \in SUBSET S |-> IF s = {} THEN 0 ELSE f[Pick(s)] + g[s \ {Pick(s)}]]
  <2>1. g = [s \in SUBSET S |-> g[s]]
    BY <1>5, <1>6
  <2>2. \A s \in SUBSET S : g[s] = IF s = {} THEN 0 ELSE f[Pick(s)] + g[s \ {Pick(s)}]
    BY <1>5, <1>6
  <2> HIDE DEF Sums
  <2> QED
    BY <2>1, <2>2
<1>8. SumOfPart(f, S)
        = [s \in SUBSET S |-> IF s = {} THEN 0 ELSE f[Pick(s)] + SumOfPart(f, S)[s \ {Pick(s)}]]
  BY <1>7 DEF SumOfPart
<1>9. \A s \in SUBSET S :
         SumOfPart(f, S)[s] = IF s = {} THEN 0 ELSE f[Pick(s)] + SumOfPart(f, S)[s \ {Pick(s)}]
  BY <1>8
<1>10. ASSUME NEW s \in SUBSET S
       PROVE  SumOfPart(f, S)[s] \in Int
  <2> DEFINE Wrong == {t \in SUBSET S : SumOfPart(f, S)[t] \notin Int}
  <2> SUFFICES ASSUME Wrong # {}
               PROVE  FALSE
    OBVIOUS
  <2>1. PICK t \in Wrong : \A u \in Wrong : u \subseteq t => u = t
    <3>1. Wrong \in SUBSET SUBSET S
      OBVIOUS
    <3> HIDE DEF Wrong
    <3> QED
      BY <3>1, MinimalSet
  <2>2. CASE t = {}
    <3>1. t \in SUBSET S /\ SumOfPart(f, S)[t] \notin Int
      OBVIOUS
    <3>2. SumOfPart(f, S)[t] = 0
      BY <1>9, <2>2, <3>1
    <3> QED
      BY <3>1, <3>2
  <2>3. CASE t # {}
    <3>1. Pick(t) \in t
      BY <2>3, PickInSet
    <3>2. t \ {Pick(t)} \notin Wrong
      BY <2>1, <3>1
    <3>3. SumOfPart(f, S)[t \ {Pick(t)}] \in Int /\ f[Pick(t)] \in Int
      BY <3>1, <3>2
    <3> QED
      BY <1>9, <2>3, <3>3
  <2> QED
    BY <2>2, <2>3
<1>11. SumOfPart(f, S) \in [SUBSET S -> Int]
  <2>1. SumOfPart(f, S) = [s \in SUBSET S |-> SumOfPart(f, S)[s]]
    BY <1>8
  <2> HIDE DEF Sums
  <2> QED
    BY <1>10, <2>1
<1> QED
  BY <1>9, <1>11

\* A sum depends on the values in its set only.
LEMMA SumOfPartAgrees ==
    ASSUME NEW S, IsFiniteSet(S), NEW f, NEW T \in SUBSET S, NEW g,
           \A x \in S : f[x] \in Int, \A x \in T : g[x] = f[x]
    PROVE  SumOfPart(f, S)[T] = SumFunctionOnSet(g, T)
<1> DEFINE Wrong == {t \in SUBSET T : SumOfPart(f, S)[t] # SumOfPart(g, T)[t]}
<1>1. IsFiniteSet(T)
  BY FS_Subset
<1>2. \A x \in T : g[x] \in Int
  OBVIOUS
<1>3. /\ \A s \in SUBSET S : SumOfPart(f, S)[s] = IF s = {} THEN 0 ELSE f[Pick(s)] + SumOfPart(f, S)[s \ {Pick(s)}]
      /\ \A s \in SUBSET T : SumOfPart(g, T)[s] = IF s = {} THEN 0 ELSE g[Pick(s)] + SumOfPart(g, T)[s \ {Pick(s)}]
  BY <1>1, <1>2, SumsExist
<1>4. Wrong = {}
  <2> SUFFICES ASSUME Wrong # {}
               PROVE  FALSE
    OBVIOUS
  <2>1. PICK t \in Wrong : \A u \in Wrong : u \subseteq t => u = t
    <3>1. Wrong \in SUBSET SUBSET T
      OBVIOUS
    <3> HIDE DEF Wrong
    <3> QED
      BY <1>1, <3>1, MinimalSet
  <2>2. CASE t = {}
    BY <1>3, <2>2
  <2>3. CASE t # {}
    <3>1. Pick(t) \in t
      BY <2>3, PickInSet
    <3>2. t \ {Pick(t)} \notin Wrong
      BY <2>1, <3>1
    <3>3. SumOfPart(f, S)[t \ {Pick(t)}] = SumOfPart(g, T)[t \ {Pick(t)}] /\ f[Pick(t)] = g[Pick(t)]
      BY <3>1, <3>2
    <3>4. t \in SUBSET S /\ t \in SUBSET T
      OBVIOUS
    <3>5. SumOfPart(f, S)[t] = SumOfPart(g, T)[t]
      BY <1>3, <2>3, <3>3, <3>4
    <3> QED
      BY <3>5
  <2> QED
    BY <2>2, <2>3
<1>5. T \in SUBSET T /\ T \notin Wrong
  BY <1>4
<1> QED
  BY <1>5, SumIsFold

\* Any element may be taken first.
LEMMA SumRemove ==
    ASSUME NEW S, IsFiniteSet(S), NEW f, \A x \in S : f[x] \in Int, NEW x \in S
    PROVE  /\ SumFunctionOnSet(f, S) \in Int /\ SumFunctionOnSet(f, S \ {x}) \in Int
           /\ SumFunctionOnSet(f, S) = f[x] + SumFunctionOnSet(f, S \ {x})
<1> DEFINE Total(t) == SumOfPart(f, S)[t]
           Wrong    == {t \in SUBSET S : \E y \in t : Total(t) # f[y] + Total(t \ {y})}
<1>1. /\ SumOfPart(f, S) \in [SUBSET S -> Int]
      /\ \A s \in SUBSET S : Total(s) = IF s = {} THEN 0 ELSE f[Pick(s)] + Total(s \ {Pick(s)})
  BY SumsExist
<1>2. \A s \in SUBSET S : Total(s) \in Int
  BY <1>1
<1> HIDE DEF Total
<1>3. Wrong = {}
  <2> SUFFICES ASSUME Wrong # {}
               PROVE  FALSE
    OBVIOUS
  <2>1. PICK t \in Wrong : \A u \in Wrong : u \subseteq t => u = t
    <3>1. Wrong \in SUBSET SUBSET S
      OBVIOUS
    <3> HIDE DEF Wrong
    <3> QED
      BY <3>1, MinimalSet
  <2>2. PICK y \in t : Total(t) # f[y] + Total(t \ {y})
    OBVIOUS
  <2> DEFINE p == Pick(t)
  <2>3. p \in t
    BY <2>2, PickInSet
  <2>4. Total(t) = f[p] + Total(t \ {p}) /\ p # y
    BY <1>1, <2>2
  <2>5. t \ {p} \notin Wrong /\ t \ {y} \notin Wrong
    BY <2>1, <2>2, <2>3
  <2>6. Total(t \ {p}) = f[y] + Total((t \ {p}) \ {y})
    BY <2>2, <2>4, <2>5
  <2>7. Total(t \ {y}) = f[p] + Total((t \ {y}) \ {p})
    BY <2>3, <2>4, <2>5
  <2>8. (t \ {p}) \ {y} = (t \ {y}) \ {p}
    OBVIOUS
  <2>9. f[p] \in Int /\ f[y] \in Int /\ Total((t \ {y}) \ {p}) \in Int
    BY <1>2, <2>3
  <2> HIDE DEF p, Wrong
  <2>10. f[p] + (f[y] + Total((t \ {y}) \ {p})) = f[y] + (f[p] + Total((t \ {y}) \ {p}))
    BY <2>9
  <2> QED
    BY <2>2, <2>4, <2>6, <2>7, <2>8, <2>10
<1>4. Total(S) = f[x] + Total(S \ {x})
  BY <1>3
<1>5. Total(S) = SumFunctionOnSet(f, S) /\ Total(S \ {x}) = SumFunctionOnSet(f, S \ {x})
  BY SumOfPartAgrees DEF Total
<1> QED
  BY <1>2, <1>4, <1>5

\* The empty sum.
LEMMA SumEmpty ==
    ASSUME NEW f
    PROVE  SumFunctionOnSet(f, {}) = 0
<1>1. SumOfPart(f, {})[{}] = 0
  BY FS_EmptySet, SumsExist
<1> QED
  BY <1>1, SumIsFold

\* Sums of equal values are equal.
LEMMA SumAgrees ==
    ASSUME NEW S, IsFiniteSet(S), NEW f, NEW g, \A x \in S : f[x] \in Int /\ g[x] = f[x]
    PROVE  SumFunctionOnSet(g, S) = SumFunctionOnSet(f, S)
BY SumOfPartAgrees, SumIsFold

\* A sum of naturals.
LEMMA SumOfNats ==
    ASSUME NEW S, IsFiniteSet(S), NEW f, \A x \in S : f[x] \in Nat
    PROVE  SumFunctionOnSet(f, S) \in Nat
<1> DEFINE Wrong == {t \in SUBSET S : SumFunctionOnSet(f, t) \notin Nat}
<1> SUFFICES ASSUME Wrong # {}
             PROVE  FALSE
  OBVIOUS
<1>1. PICK t \in Wrong : \A u \in Wrong : u \subseteq t => u = t
  <2>1. Wrong \in SUBSET SUBSET S
    OBVIOUS
  <2> HIDE DEF Wrong
  <2> QED
    BY <2>1, MinimalSet
<1>2. t # {}
  BY SumEmpty
<1>3. PICK x \in t : TRUE
  BY <1>2
<1>4. t \ {x} \notin Wrong
  BY <1>1
<1>5. SumFunctionOnSet(f, t \ {x}) \in Nat
  BY <1>4
<1>6. IsFiniteSet(t)
  BY FS_Subset
<1>7. \A y \in t : f[y] \in Int
  OBVIOUS
<1>8. SumFunctionOnSet(f, t) = f[x] + SumFunctionOnSet(f, t \ {x})
  BY <1>6, <1>7, SumRemove
<1> QED
  BY <1>5, <1>8

-----------------------------------------------------------------------------
(* Flattened sequences. *)

\* The prefixes of a sequence of sequences, flattened.
FlatPrefixes(ss) ==
    CHOOSE flat : flat = [i \in 1..Len(ss) |-> IF i = 1 THEN ss[i] ELSE flat[i - 1] \o ss[i]]

LEMMA FlattenIsPrefix ==
    ASSUME NEW ss
    PROVE  FlattenSeq(ss) = IF Len(ss) = 0 THEN ss ELSE FlatPrefixes(ss)[Len(ss)]
BY DEF FlattenSeq, FlatPrefixes

LEMMA FlatPrefixesExist ==
    ASSUME NEW S, NEW ss \in Seq(Seq(S))
    PROVE  /\ FlatPrefixes(ss) \in [1..Len(ss) -> Seq(S)]
           /\ \A i \in 1..Len(ss) :
                 FlatPrefixes(ss)[i] = IF i = 1 THEN ss[i] ELSE FlatPrefixes(ss)[i - 1] \o ss[i]
<1> DEFINE Step(g, i) == IF i = 1 THEN ss[i] ELSE g[i - 1] \o ss[i]
           Flat(g, n) == g \in [1..n -> Seq(S)] /\ \A i \in 1..n : g[i] = Step(g, i)
           Bad        == {n \in 0..Len(ss) : ~\E g : Flat(g, n)}
<1>1. Len(ss) \in Nat /\ \A i \in 1..Len(ss) : ss[i] \in Seq(S)
  OBVIOUS
<1>2. Bad = {}
  <2> SUFFICES ASSUME Bad # {}
               PROVE  FALSE
    OBVIOUS
  <2>1. PICK n \in Bad : \A k \in Bad : n <= k
    <3>1. Bad \in SUBSET Nat
      BY <1>1
    <3> HIDE DEF Bad
    <3> QED
      BY <3>1, LeastNat
  <2>2. n \in 0..Len(ss) /\ ~\E g : Flat(g, n)
    OBVIOUS
  <2>3. n # 0
    <3>1. Flat(<<>>, 0)
      OBVIOUS
    <3> HIDE DEF Flat
    <3> QED
      BY <2>2, <3>1
  <2>4. n - 1 \in 0..Len(ss) /\ n - 1 \notin Bad
    <3> HIDE DEF Bad
    <3> QED
      BY <1>1, <2>1, <2>2, <2>3
  <2>5. PICK g : Flat(g, n - 1)
    BY <2>4
  <2> DEFINE h == [i \in 1..n |-> Step(g, i)]
  <2>6. ASSUME NEW i \in 1..n
        PROVE  h[i] \in Seq(S)
    <3>1. i = 1 \/ i - 1 \in 1..(n - 1)
      BY <2>2
    <3>2. ss[i] \in Seq(S)
      BY <1>1, <2>2
    <3>3. i # 1 => g[i - 1] \in Seq(S)
      BY <2>5, <3>1
    <3> QED
      BY <3>2, <3>3, ConcatProperties
  <2>7. ASSUME NEW i \in 1..(n - 1)
        PROVE  i \in 1..n /\ h[i] = g[i]
    <3>1. i \in 1..n
      BY <1>1, <2>2
    <3>2. g[i] = Step(g, i)
      BY <2>5
    <3> HIDE DEF Step, Flat, Bad
    <3> QED
      BY <3>1, <3>2
  <2>8. ASSUME NEW i \in 1..n
        PROVE  h[i] = Step(h, i)
    <3>1. i = 1 \/ i - 1 \in 1..(n - 1)
      BY <2>2
    <3>2. h[i] = Step(g, i)
      OBVIOUS
    <3>3. i # 1 => h[i - 1] = g[i - 1]
      BY <2>7, <3>1
    <3> HIDE DEF h
    <3> QED
      BY <3>2, <3>3
  <2>9. Flat(h, n)
    <3>1. h \in [1..n -> Seq(S)]
      BY <2>6
    <3> HIDE DEF h
    <3> QED
      BY <2>8, <3>1
  <2> HIDE DEF h, Flat
  <2> QED
    BY <2>2, <2>9
<1>3. PICK g : Flat(g, Len(ss))
  <2>1. Len(ss) \in 0..Len(ss)
    BY <1>1
  <2>2. Len(ss) \notin Bad
    BY <1>2
  <2> QED
    BY <2>1, <2>2
<1>4. g = [i \in 1..Len(ss) |-> IF i = 1 THEN ss[i] ELSE g[i - 1] \o ss[i]]
  <2>1. g = [i \in 1..Len(ss) |-> g[i]]
    BY <1>3
  <2>2. \A i \in 1..Len(ss) : g[i] = IF i = 1 THEN ss[i] ELSE g[i - 1] \o ss[i]
    BY <1>3
  <2> HIDE DEF Flat
  <2> QED
    BY <2>1, <2>2
<1> DEFINE fp == FlatPrefixes(ss)
<1>5. fp = [i \in 1..Len(ss) |-> IF i = 1 THEN ss[i] ELSE fp[i - 1] \o ss[i]]
  BY <1>4 DEF FlatPrefixes
<1>6. \A i \in 1..Len(ss) : fp[i] = IF i = 1 THEN ss[i] ELSE fp[i - 1] \o ss[i]
  <2> HIDE DEF fp
  <2> QED
    BY <1>5
<1>7. fp = [i \in 1..Len(ss) |-> fp[i]]
  <2> HIDE DEF fp
  <2> QED
    BY <1>5
<1> HIDE DEF fp
<1>8. ASSUME NEW i \in 1..Len(ss)
      PROVE  fp[i] \in Seq(S)
  <2> DEFINE Wrong == {k \in 1..Len(ss) : fp[k] \notin Seq(S)}
  <2> SUFFICES ASSUME Wrong # {}
               PROVE  FALSE
    OBVIOUS
  <2>1. PICK k \in Wrong : \A m \in Wrong : k <= m
    <3>1. Wrong \in SUBSET Nat
      BY <1>1
    <3> HIDE DEF Wrong
    <3> QED
      BY <3>1, LeastNat
  <2>2. k \in 1..Len(ss) /\ fp[k] \notin Seq(S)
    OBVIOUS
  <2>3. k # 1 => k - 1 \in 1..Len(ss) /\ k - 1 \notin Wrong
    <3> HIDE DEF Wrong
    <3> QED
      BY <1>1, <2>1, <2>2
  <2>4. k # 1 => fp[k - 1] \in Seq(S)
    BY <2>3
  <2>5. ss[k] \in Seq(S)
    BY <1>1, <2>2
  <2>6. fp[k] \in Seq(S)
    BY <1>6, <2>2, <2>4, <2>5, ConcatProperties
  <2> QED
    BY <2>2, <2>6
<1>9. fp \in [1..Len(ss) -> Seq(S)]
  BY <1>7, <1>8
<1> QED
  BY <1>6, <1>9 DEF fp

LEMMA FlattenType ==
    ASSUME NEW S, NEW ss \in Seq(Seq(S))
    PROVE  FlattenSeq(ss) \in Seq(S)
<1>1. CASE Len(ss) = 0
  <2>1. ss = <<>> /\ <<>> \in Seq(S)
    BY <1>1
  <2>2. FlattenSeq(ss) = ss
    BY <1>1, FlattenIsPrefix
  <2> QED
    BY <2>1, <2>2
<1>2. CASE Len(ss) # 0
  <2>1. Len(ss) \in 1..Len(ss)
    BY <1>2
  <2>2. FlatPrefixes(ss)[Len(ss)] \in Seq(S)
    BY <2>1, FlatPrefixesExist
  <2> QED
    BY <1>2, <2>2, FlattenIsPrefix
<1> QED
  BY <1>1, <1>2

LEMMA FlattenEmpty == FlattenSeq(<<>>) = <<>>
BY FlattenIsPrefix

\* Sequences with the same first n elements have the same flattened prefixes.
LEMMA FlatPrefixesAgree ==
    ASSUME NEW S, NEW ss \in Seq(Seq(S)), NEW tt \in Seq(Seq(S)), NEW n \in Nat,
           n <= Len(ss), n <= Len(tt), \A i \in 1..n : ss[i] = tt[i]
    PROVE  \A i \in 1..n : FlatPrefixes(ss)[i] = FlatPrefixes(tt)[i]
<1> DEFINE s == FlatPrefixes(ss)
           t == FlatPrefixes(tt)
           Wrong == {k \in 1..n : s[k] # t[k]}
<1>1. /\ \A i \in 1..Len(ss) : s[i] = IF i = 1 THEN ss[i] ELSE s[i - 1] \o ss[i]
      /\ \A i \in 1..Len(tt) : t[i] = IF i = 1 THEN tt[i] ELSE t[i - 1] \o tt[i]
  BY FlatPrefixesExist
<1> HIDE DEF s, t
<1> SUFFICES ASSUME Wrong # {}
             PROVE  FALSE
  BY DEF s, t
<1>2. PICK k \in Wrong : \A m \in Wrong : k <= m
  <2>1. Wrong \in SUBSET Nat
    OBVIOUS
  <2> HIDE DEF Wrong
  <2> QED
    BY <2>1, LeastNat
<1>3. k \in 1..n /\ s[k] # t[k]
  OBVIOUS
<1>4. k # 1 => k - 1 \in 1..n /\ k - 1 \notin Wrong
  <2> HIDE DEF Wrong
  <2> QED
    BY <1>2, <1>3
<1>5. k # 1 => s[k - 1] = t[k - 1]
  BY <1>4
<1>6. k \in 1..Len(ss) /\ k \in 1..Len(tt) /\ ss[k] = tt[k]
  BY <1>3, SMTT(60)
<1> QED
  BY <1>1, <1>3, <1>5, <1>6

LEMMA FlattenAppend ==
    ASSUME NEW S, NEW ss \in Seq(Seq(S)), NEW s \in Seq(S)
    PROVE  FlattenSeq(Append(ss, s)) = FlattenSeq(ss) \o s
<1> DEFINE tt == Append(ss, s)
           n  == Len(ss)
<1>1. /\ n \in Nat /\ tt \in Seq(Seq(S)) /\ Len(tt) = n + 1 /\ tt[n + 1] = s
      /\ \A i \in 1..n : ss[i] = tt[i]
  BY AppendProperties
<1>n. n = Len(ss)
  OBVIOUS
<1> HIDE DEF tt, n
<1>2. /\ \A i \in 1..n : FlatPrefixes(ss)[i] = FlatPrefixes(tt)[i]
      /\ FlatPrefixes(tt)[n + 1] = IF n + 1 = 1 THEN s ELSE FlatPrefixes(tt)[n + 1 - 1] \o s
      /\ FlattenSeq(tt) = FlatPrefixes(tt)[n + 1]
  <2>1. \A i \in 1..n : FlatPrefixes(ss)[i] = FlatPrefixes(tt)[i]
    <3>1. n <= Len(ss) /\ n <= Len(tt)
      BY <1>1, <1>n
    <3> QED
      BY <1>1, <3>1, FlatPrefixesAgree, Zenon
  <2>2. n + 1 \in 1..Len(tt)
    BY <1>1
  <2>3. FlatPrefixes(tt)[n + 1] = IF n + 1 = 1 THEN tt[n + 1] ELSE FlatPrefixes(tt)[n + 1 - 1] \o tt[n + 1]
    BY <1>1, <2>2, FlatPrefixesExist
  <2>4. Len(tt) # 0
    BY <1>1
  <2>5. FlattenSeq(tt) = FlatPrefixes(tt)[n + 1]
    BY <1>1, <2>4, FlattenIsPrefix
  <2> QED
    BY <1>1, <2>1, <2>3, <2>5
<1>3. CASE n = 0
  <2>1. ss = <<>>
    BY <1>3, EmptySeq DEF n
  <2>2. FlattenSeq(ss) \o s = s
    BY <2>1, FlattenEmpty, ConcatEmptySeq
  <2> QED
    BY <1>2, <1>3, <2>2 DEF tt
<1>4. CASE n # 0
  <2>1. n \in 1..n /\ n + 1 # 1 /\ n + 1 - 1 = n
    BY <1>1, <1>4
  <2>2. FlattenSeq(ss) = FlatPrefixes(ss)[n]
    BY <1>4, FlattenIsPrefix DEF n
  <2> QED
    BY <1>2, <2>1, <2>2 DEF tt
<1> QED
  BY <1>3, <1>4

\* What is added to an element that only empty ones follow comes last.
LEMMA FlattenExtend ==
    ASSUME NEW S, NEW ss \in Seq(Seq(S)), NEW tt \in Seq(Seq(S)), Len(tt) = Len(ss),
           NEW j \in 1..Len(ss), NEW s \in Seq(S),
           tt[j] = ss[j] \o s,
           \A i \in 1..Len(ss) : i # j => tt[i] = ss[i],
           \A i \in 1..Len(ss) : i > j => ss[i] = <<>>
    PROVE  FlattenSeq(tt) = FlattenSeq(ss) \o s
<1> DEFINE n == Len(ss)
           a == FlatPrefixes(ss)
           b == FlatPrefixes(tt)
           Wrong == {k \in j..n : b[k] # a[k] \o s}
<1>0. \A u, v \in Seq(S) : (u \o v) \o s = u \o (v \o s)
  <2> HIDE DEF n, a, b, Wrong
  <2> SUFFICES ASSUME NEW u \in Seq(S), NEW v \in Seq(S)
               PROVE  (u \o v) \o s = u \o (v \o s)
    OBVIOUS
  <2>1. u \o v \in Seq(S) /\ v \o s \in Seq(S) /\ (u \o v) \o s \in Seq(S) /\ u \o (v \o s) \in Seq(S)
    OBVIOUS
  <2>2. Len((u \o v) \o s) = Len(u \o (v \o s))
    BY <2>1
  <2>3. ASSUME NEW i \in 1..Len((u \o v) \o s)
        PROVE  ((u \o v) \o s)[i] = (u \o (v \o s))[i]
    BY <2>1, SMTT(60)
  <2> QED
    BY <2>1, <2>2, <2>3, SeqEqual
<1>1. n \in Nat /\ n # 0 /\ j \in Nat /\ j >= 1 /\ j <= n /\ n = Len(ss)
  OBVIOUS
<1>2. /\ a \in [1..n -> Seq(S)] /\ b \in [1..n -> Seq(S)]
      /\ \A i \in 1..n : a[i] = IF i = 1 THEN ss[i] ELSE a[i - 1] \o ss[i]
      /\ \A i \in 1..n : b[i] = IF i = 1 THEN tt[i] ELSE b[i - 1] \o tt[i]
  BY FlatPrefixesExist
<1>3. \A i \in 1..(j - 1) : a[i] = b[i]
  <2>1. j - 1 \in Nat /\ j - 1 <= Len(ss) /\ j - 1 <= Len(tt)
    BY <1>1
  <2>2. ASSUME NEW i \in 1..(j - 1)
        PROVE  ss[i] = tt[i]
    <3>1. i \in 1..Len(ss) /\ i # j
      BY <1>1
    <3> QED
      BY <3>1
  <2> HIDE DEF n
  <2> QED
    BY <2>1, <2>2, FlatPrefixesAgree, ZenonT(60)
<1>4. \A i \in 1..n : ss[i] \in Seq(S)
  OBVIOUS
<1> HIDE DEF a, b, n
<1>5. b[j] = a[j] \o s
  <2>1. j \in 1..n
    BY <1>1
  <2>2. CASE j = 1
    BY <1>2, <2>1, <2>2
  <2>3. CASE j # 1
    <3>1. j - 1 \in 1..n /\ j - 1 \in 1..(j - 1)
      BY <1>1, <2>3
    <3>2. a[j - 1] \in Seq(S) /\ a[j - 1] = b[j - 1]
      BY <1>2, <1>3, <3>1
    <3>3. b[j] = a[j - 1] \o (ss[j] \o s)
      BY <1>2, <2>1, <2>3, <3>2
    <3>4. a[j] = a[j - 1] \o ss[j]
      BY <1>2, <2>1, <2>3
    <3>5. ss[j] \in Seq(S)
      BY <1>4, <2>1
    <3>6. (a[j - 1] \o ss[j]) \o s = a[j - 1] \o (ss[j] \o s)
      BY <1>0, <3>2, <3>5
    <3> QED
      BY <3>3, <3>4, <3>6
  <2> QED
    BY <2>2, <2>3
<1>6. Wrong = {}
  <2> SUFFICES ASSUME Wrong # {}
               PROVE  FALSE
    OBVIOUS
  <2>1. PICK k \in Wrong : \A m \in Wrong : k <= m
    <3>1. Wrong \in SUBSET Nat
      BY <1>1
    <3> HIDE DEF Wrong
    <3> QED
      BY <3>1, LeastNat
  <2>2. k \in j..n /\ b[k] # a[k] \o s
    OBVIOUS
  <2> HIDE DEF Wrong
  <2>3. k # j
    BY <1>5, <2>2
  <2>8. k - 1 \in j..n /\ k - 1 \in 1..n /\ k \in 1..n /\ k # 1 /\ k > j /\ ~(k <= k - 1)
    <3> SUFFICES ASSUME NEW J \in Nat, NEW N \in Nat, NEW K \in J..N, J >= 1, K # J
                 PROVE  K - 1 \in J..N /\ K - 1 \in 1..N /\ K \in 1..N /\ K # 1 /\ K > J /\ ~(K <= K - 1)
      BY <1>1, <2>2, <2>3, Zenon
    <3> QED
      OBVIOUS
  <2>9. k - 1 \notin Wrong
    BY <2>1, <2>8
  <2>4. b[k - 1] = a[k - 1] \o s
    BY <2>8, <2>9 DEF Wrong
  <2>5. ss[k] = <<>> /\ tt[k] = <<>>
    BY <2>3, <2>8 DEF n
  <2>6. a[k - 1] \in Seq(S) /\ b[k - 1] \in Seq(S)
    BY <1>2, <2>8
  <2>10. a[k - 1] \o <<>> = a[k - 1] /\ b[k - 1] \o <<>> = b[k - 1]
    BY <2>6, ConcatEmptySeq
  <2>11. a[k] = a[k - 1] \o ss[k] /\ b[k] = b[k - 1] \o tt[k]
    BY <1>2, <2>8
  <2>7. a[k] = a[k - 1] /\ b[k] = b[k - 1]
    BY <2>5, <2>10, <2>11
  <2> QED
    BY <2>2, <2>4, <2>7
<1>7. n \in j..n /\ n \notin Wrong
  <2>1. n \in j..n
    BY <1>1
  <2> HIDE DEF Wrong
  <2> QED
    BY <1>6, <2>1
<1>8. b[n] = a[n] \o s
  BY <1>7
<1> QED
  BY <1>1, <1>8, FlattenIsPrefix DEF a, b, n

-----------------------------------------------------------------------------
(* Order statistics. *)

LEMMA ImageFinite ==
    ASSUME NEW S, IsFiniteSet(S), NEW f, DOMAIN f = S
    PROVE  IsFiniteSet({f[x] : x \in S})
<1> DEFINE T == {f[x] : x \in S}
           g == [x \in S |-> f[x]]
<1>1. g \in [S -> T] /\ \A y \in T : \E x \in S : g[x] = y
  OBVIOUS
<1>2. g \in Surjection(S, T)
  <2> HIDE DEF g, T
  <2> QED
    BY <1>1, Fun_IsSurj
<1> QED
  BY <1>2, FS_Surjection

LEMMA ToSetFinite ==
    ASSUME NEW S, NEW s \in Seq(S)
    PROVE  /\ ToSet(s) \subseteq S /\ IsFiniteSet(ToSet(s))
           /\ Len(s) > 0 => ToSet(s) # {}
<1>1. Len(s) \in Nat /\ DOMAIN s = 1..Len(s) /\ \A i \in 1..Len(s) : s[i] \in S
  OBVIOUS
<1>2. IsFiniteSet(DOMAIN s)
  BY <1>1, FS_Interval
<1>3. IsFiniteSet(ToSet(s))
  BY <1>2, ImageFinite DEF ToSet
<1>4. ToSet(s) \subseteq S
  BY <1>1 DEF ToSet
<1>5. ASSUME Len(s) > 0
      PROVE  ToSet(s) # {}
  <2>1. 1 \in DOMAIN s
    BY <1>1, <1>5
  <2> QED
    BY <2>1 DEF ToSet
<1> QED
  BY <1>3, <1>4, <1>5

\* The positions of a sequence that satisfy a condition.
LEMMA PositionsFinite ==
    ASSUME NEW S, NEW s \in Seq(S)
    PROVE  \A P \in SUBSET DOMAIN s :
              /\ IsFiniteSet(P) /\ Cardinality(P) \in 0..Len(s)
              /\ \A Q \in SUBSET P : Cardinality(Q) <= Cardinality(P)
<1>1. Len(s) \in Nat /\ DOMAIN s = 1..Len(s)
  OBVIOUS
<1>2. IsFiniteSet(DOMAIN s) /\ Cardinality(DOMAIN s) = Len(s)
  BY <1>1, FS_Interval
<1> TAKE P \in SUBSET DOMAIN s
<1>3. IsFiniteSet(P) /\ Cardinality(P) <= Len(s)
  BY <1>2, FS_Subset
<1>4. Cardinality(P) \in Nat
  BY <1>3, FS_CardinalityType
<1>5. \A Q \in SUBSET P : Cardinality(Q) <= Cardinality(P)
  BY <1>3, FS_Subset
<1> QED
  BY <1>1, <1>3, <1>4, <1>5

Below(s, x)  == {i \in DOMAIN s : s[i] < x}
UpTo(s, x)   == {i \in DOMAIN s : s[i] <= x}

LEMMA NthExists ==
    ASSUME NEW s \in Seq(Int), NEW n \in 1..Len(s)
    PROVE  /\ Nth(s, n) \in ToSet(s) /\ Nth(s, n) \in Int
           /\ Cardinality(Below(s, Nth(s, n))) < n
           /\ Cardinality(UpTo(s, Nth(s, n))) >= n
<1> DEFINE C == {x \in ToSet(s) : Cardinality(UpTo(s, x)) >= n}
<1>1. Len(s) \in Nat /\ DOMAIN s = 1..Len(s) /\ \A i \in DOMAIN s : s[i] \in Int
  OBVIOUS
<1>2. IsFiniteSet(ToSet(s)) /\ ToSet(s) \in SUBSET Int /\ ToSet(s) # {}
  BY <1>1, ToSetFinite
<1>3. \A P \in SUBSET DOMAIN s : IsFiniteSet(P) /\ Cardinality(P) \in 0..Len(s)
  BY PositionsFinite
<1>4. Cardinality(DOMAIN s) = Len(s)
  <2>1. Cardinality(1..Len(s)) = IF 1 > Len(s) THEN 0 ELSE Len(s) - 1 + 1
    BY <1>1, FS_Interval
  <2> QED
    BY <1>1, <2>1
<1>5. C # {}
  <2>1. Max(ToSet(s)) \in ToSet(s) /\ \A x \in ToSet(s) : x <= Max(ToSet(s))
    BY <1>2, MaxOfFinite
  <2>2. UpTo(s, Max(ToSet(s))) = DOMAIN s
    BY <2>1 DEF UpTo, ToSet
  <2> QED
    BY <1>1, <1>4, <2>1, <2>2
<1>6. Min(C) \in C /\ \A x \in C : Min(C) <= x
  <2>1. C \in SUBSET Int /\ C \in SUBSET ToSet(s)
    BY <1>2
  <2>2. IsFiniteSet(C)
    BY <1>2, <2>1, FS_Subset
  <2> HIDE DEF C
  <2> QED
    BY <1>5, <2>1, <2>2, MinOfFinite
<1> DEFINE m == Min(C)
<1>7. m \in ToSet(s) /\ m \in Int /\ Cardinality(UpTo(s, m)) >= n
  BY <1>2, <1>6
<1> HIDE DEF m
<1>8. ASSUME ~(Cardinality(Below(s, m)) < n)
      PROVE  FALSE
  <2> DEFINE D == {x \in ToSet(s) : x < m}
  <2>1. Below(s, m) # {}
    <3>1. Cardinality({}) = 0 /\ 0 < n
      BY FS_EmptySet
    <3>2. ASSUME Below(s, m) = {}
          PROVE  Cardinality(Below(s, m)) < n
      BY <3>1, <3>2
    <3> QED
      BY <1>8, <3>2
  <2>2. D # {} /\ D \in SUBSET Int /\ D \in SUBSET ToSet(s)
    BY <1>2, <2>1 DEF Below, ToSet
  <2>3. IsFiniteSet(D)
    BY <1>2, <2>2, FS_Subset
  <2>4. PICK y \in D : \A x \in D : x <= y
    <3> HIDE DEF D
    <3> QED
      BY <2>2, <2>3, MaxOfFinite
  <2>5. y \in ToSet(s) /\ y \in Int /\ y < m
    BY <1>2
  <2>6. Below(s, m) \subseteq UpTo(s, y)
    <3>1. ASSUME NEW i \in Below(s, m)
          PROVE  i \in UpTo(s, y)
      <4>1. i \in DOMAIN s /\ s[i] \in D
        BY <3>1 DEF Below, ToSet
      <4> QED
        BY <2>4, <4>1 DEF UpTo
    <3> QED
      BY <3>1
  <2>7. UpTo(s, y) \in SUBSET DOMAIN s
    BY DEF UpTo
  <2>8. Cardinality(Below(s, m)) <= Cardinality(UpTo(s, y)) /\ Cardinality(UpTo(s, y)) \in Nat
    BY <1>3, <2>6, <2>7, PositionsFinite
  <2>9. Below(s, m) \in SUBSET DOMAIN s
    BY DEF Below
  <2>10. Cardinality(Below(s, m)) \in Nat
    BY <1>3, <2>9
  <2>11. y \in C
    BY <1>8, <2>5, <2>8, <2>10
  <2> QED
    BY <1>6, <1>7, <2>5, <2>11 DEF m
<1>9. \E x \in ToSet(s) : Cardinality(Below(s, x)) < n /\ Cardinality(UpTo(s, x)) >= n
  BY <1>7, <1>8
<1>10. /\ Nth(s, n) \in ToSet(s)
       /\ Cardinality(Below(s, Nth(s, n))) < n
       /\ Cardinality(UpTo(s, Nth(s, n))) >= n
  <2>1. Nth(s, n) = CHOOSE x \in ToSet(s) : Cardinality(Below(s, x)) < n /\ Cardinality(UpTo(s, x)) >= n
    BY DEF Nth, Below, UpTo
  <2> QED
    BY <1>9, <2>1
<1> QED
  BY <1>2, <1>10

LEMMA NthMonotone ==
    ASSUME NEW s \in Seq(Int), NEW m \in 1..Len(s), NEW n \in 1..Len(s), m <= n
    PROVE  Nth(s, m) <= Nth(s, n)
<1> DEFINE a == Nth(s, m)
           b == Nth(s, n)
<1>1. a \in Int /\ b \in Int /\ Cardinality(Below(s, a)) < m /\ Cardinality(UpTo(s, b)) >= n
  BY NthExists
<1> HIDE DEF a, b
<1>2. SUFFICES ASSUME b < a
               PROVE  FALSE
  BY <1>1 DEF a, b
<1>3. UpTo(s, b) \subseteq Below(s, a)
  <2>1. ASSUME NEW i \in UpTo(s, b)
        PROVE  i \in Below(s, a)
    <3>1. i \in DOMAIN s /\ s[i] \in Int /\ s[i] <= b
      BY DEF UpTo
    <3> QED
      BY <1>1, <1>2, <3>1 DEF Below
  <2> QED
    BY <2>1
<1>4. Below(s, a) \in SUBSET DOMAIN s /\ UpTo(s, b) \in SUBSET DOMAIN s
  BY DEF Below, UpTo
<1>5. /\ Cardinality(UpTo(s, b)) <= Cardinality(Below(s, a))
      /\ Cardinality(UpTo(s, b)) \in 0..Len(s) /\ Cardinality(Below(s, a)) \in 0..Len(s)
  BY <1>3, <1>4, PositionsFinite
<1>6. Len(s) \in Nat
  OBVIOUS
<1> QED
  BY <1>1, <1>5, <1>6

\* The median lies between the two middle elements.
LEMMA MedianBounds ==
    ASSUME NEW s \in Seq(Int), NEW n \in 1..Len(s)
    PROVE  /\ (n + 1) \div 2 \in 1..n /\ (n + 2) \div 2 \in 1..n
           /\ Nth(s, (n + 1) \div 2) \in ToSet(s)
           /\ MedianOfLeast(s, n) \in Int
           /\ Nth(s, (n + 1) \div 2) <= MedianOfLeast(s, n)
           /\ MedianOfLeast(s, n) <= Nth(s, (n + 2) \div 2)
<1> DEFINE i == (n + 1) \div 2
           k == (n + 2) \div 2
<1>1. Len(s) \in Nat /\ n \in Nat /\ n >= 1 /\ n <= Len(s)
  OBVIOUS
<1>2. i \in 1..n /\ k \in 1..n /\ i <= k
  BY <1>1
<1>3. i \in 1..Len(s) /\ k \in 1..Len(s)
  BY <1>1, <1>2
<1> HIDE DEF i, k
<1>4. Nth(s, i) \in ToSet(s) /\ Nth(s, i) \in Int /\ Nth(s, k) \in Int
  BY <1>3, NthExists
<1>5. Nth(s, i) <= Nth(s, k)
  BY <1>2, <1>3, NthMonotone
<1>6. MedianOfLeast(s, n) = (Nth(s, i) + Nth(s, k)) \div 2
  BY DEF MedianOfLeast, i, k
<1>7. MedianOfLeast(s, n) \in Int /\ Nth(s, i) <= MedianOfLeast(s, n) /\ MedianOfLeast(s, n) <= Nth(s, k)
  <2> SUFFICES ASSUME NEW a \in Int, NEW b \in Int, a <= b
               PROVE  (a + b) \div 2 \in Int /\ a <= (a + b) \div 2 /\ (a + b) \div 2 <= b
    BY <1>4, <1>5, <1>6
  <2> QED
    OBVIOUS
<1> QED
  BY <1>2, <1>4, <1>7 DEF i, k

-----------------------------------------------------------------------------
(* What a document gives or leaves out. *)

LEMMA OptionalElement ==
    ASSUME NEW S, NEW o \in Optional(S)
    PROVE  o \in Seq(S) /\ (o # <<>> => o[1] \in S)
BY DEF Optional

LEMMA FirstGivenType ==
    ASSUME NEW S, NEW own \in Seq(S), NEW style \in Seq(S), NEW default \in S
    PROVE  FirstGiven(own, style, default) \in S
<1> DEFINE given == own \o style
           all   == given \o <<default>>
<1>1. given \in Seq(S) /\ <<default>> \in Seq(S) /\ Len(<<default>>) = 1
  BY ConcatProperties
<1> HIDE DEF given
<1>2. all \in Seq(S) /\ Len(all) = Len(given) + 1 /\ Len(given) \in Nat
  BY <1>1, ConcatProperties
<1>3. all # <<>>
  BY <1>2
<1>4. Head(all) \in S
  <2> HIDE DEF all
  <2> QED
    BY <1>2, <1>3, HeadTailProperties
<1> QED
  BY <1>4 DEF FirstGiven, given

LEMMA UsablePage ==
    ASSUME NEW doc \in Document
    PROVE  /\ UsableWidth(doc) \in Nat /\ UsableWidth(doc) >= 12000
           /\ UsableHeight(doc) \in Nat /\ UsableHeight(doc) >= 16000
BY DEF Document, UsableWidth, UsableHeight, AtLeast

LEMMA SpacingPointsType ==
    ASSUME NEW given \in Optional([unit : {"points", "multiple"}, value : Int]), NEW size \in Nat
    PROVE  SpacingPoints(given, size) \in Seq(Nat)
<1>1. CASE given = <<>> \/ given[1].value <= 0
  BY <1>1, EmptySeq DEF SpacingPoints
<1>2. CASE ~(given = <<>> \/ given[1].value <= 0)
  <2>1. given[1] \in [unit : {"points", "multiple"}, value : Int]
    BY <1>2, OptionalElement
  <2>2. given[1].value \in Nat
    BY <1>2, <2>1
  <2>3. (size * 12 * given[1].value) \div 1000 \in Nat
    <3>1. size * 12 * given[1].value \in Nat
      BY <2>2
    <3> QED
      BY <3>1
  <2>4. AtLeast(800, (size * 12 * given[1].value) \div 1000) \in Nat
    BY <2>3 DEF AtLeast
  <2> QED
    BY <1>2, <2>2, <2>4 DEF SpacingPoints
<1> QED
  BY <1>1, <1>2

LEMMA LineSpacingType ==
    ASSUME NEW p \in Paragraph, NEW size \in Nat
    PROVE  LineSpacing(p, size) \in Nat
<1>1. /\ p.own.spacing \in Optional([unit : {"points", "multiple"}, value : Int])
      /\ p.style.spacing \in Optional([unit : {"points", "multiple"}, value : Int])
  BY DEF Paragraph, Format
<1>2. SpacingPoints(p.own.spacing, size) \in Seq(Nat) /\ SpacingPoints(p.style.spacing, size) \in Seq(Nat)
  BY <1>1, SpacingPointsType
<1>3. AtLeast(800, (size * 3) \div 2) \in Nat
  BY DEF AtLeast
<1> QED
  BY <1>2, <1>3, FirstGivenType DEF LineSpacing

LEMMA SpaceType ==
    ASSUME NEW p \in Paragraph
    PROVE  SpaceBefore(p) \in Nat /\ SpaceAfter(p) \in Nat
<1>1. /\ p.own.before \in Seq(Int) /\ p.style.before \in Seq(Int)
      /\ p.own.after \in Seq(Int) /\ p.style.after \in Seq(Int)
  BY DEF Paragraph, Format, Optional
<1>2. FirstGiven(p.own.before, p.style.before, 0) \in Int /\ FirstGiven(p.own.after, p.style.after, 0) \in Int
  BY <1>1, FirstGivenType
<1> QED
  BY <1>2 DEF SpaceBefore, SpaceAfter, AtLeast

LEMMA RunValues ==
    ASSUME NEW p \in Paragraph
    PROVE  Trackings(p) \in Seq(Int) /\ RunSizes(p) \in Seq(Nat)
<1>1. p.runs \in Seq(Run)
  BY DEF Paragraph
<1>2. DOMAIN p.runs = 1..Len(p.runs) /\ Len(p.runs) \in Nat /\ \A i \in DOMAIN p.runs : p.runs[i] \in Run
  BY <1>1
<1>3. [i \in DOMAIN p.runs |-> p.runs[i].tracking] \in Seq(Seq(Int))
  <2>1. \A i \in DOMAIN p.runs : p.runs[i].tracking \in Seq(Int)
    BY <1>2 DEF Run, Optional
  <2> QED
    BY <1>2, <2>1, SeqDef
<1>4. [i \in DOMAIN p.runs |-> p.runs[i].size] \in Seq(Seq(Nat))
  <2>1. \A i \in DOMAIN p.runs : p.runs[i].size \in Seq(Nat)
    BY <1>2 DEF Run, Optional
  <2> QED
    BY <1>2, <2>1, SeqDef
<1>5. Trackings(p) \in Seq(Int)
  BY <1>3, FlattenType DEF Trackings
<1>6. RunSizes(p) \in Seq(Nat)
  BY <1>4, FlattenType DEF RunSizes
<1> QED
  BY <1>5, <1>6

LEMMA TrackingType ==
    ASSUME NEW p \in Paragraph
    PROVE  Tracking(p) \in Int
<1>1. Trackings(p) \in Seq(Int)
  BY RunValues
<1>2. CASE Trackings(p) = <<>>
  BY <1>2 DEF Tracking
<1>3. CASE Trackings(p) # <<>>
  <2>1. Len(Trackings(p)) \in 1..Len(Trackings(p))
    BY <1>1, <1>3
  <2>2. Median(Trackings(p)) \in Int
    BY <1>1, <2>1, MedianBounds DEF Median
  <2> QED
    BY <1>3, <2>2 DEF Tracking
<1> QED
  BY <1>2, <1>3

LEMMA LargestSizeType ==
    ASSUME NEW p \in Paragraph
    PROVE  LargestSize(p) \in Nat
<1> DEFINE S == {0} \cup ToSet(RunSizes(p))
<1>1. ToSet(RunSizes(p)) \subseteq Nat /\ IsFiniteSet(ToSet(RunSizes(p)))
  BY RunValues, ToSetFinite
<1>2. IsFiniteSet({0})
  BY FS_Singleton
<1>3. S \in SUBSET Int /\ S # {}
  BY <1>1
<1>4. IsFiniteSet(S)
  BY <1>1, <1>2, FS_Union
<1>5. \A x \in S : x \in Nat
  BY <1>1
<1>6. Max(S) \in S
  <2> HIDE DEF S
  <2> QED
    BY <1>3, <1>4, MaxOfFinite
<1>7. Max(S) \in Nat
  BY <1>5, <1>6
<1> QED
  BY <1>7 DEF LargestSize

-----------------------------------------------------------------------------
(* Heights. *)

LEMMA WrappedLinesType ==
    ASSUME NEW len \in Nat, NEW lines \in Nat, NEW size \in Nat, NEW tracking \in Int, NEW width \in Nat
    PROVE  WrappedLines(len, lines, size, tracking, width) \in Nat
<1> DEFINE charWidth == AtLeast(100, (size * 6) \div 10 + AtLeast(0, tracking))
           perLine   == AtLeast(1, width \div charWidth)
<1>1. AtLeast(0, tracking) \in Nat
  BY DEF AtLeast
<1>2. (size * 6) \div 10 \in Nat
  OBVIOUS
<1>3. charWidth \in Nat /\ charWidth > 0
  BY <1>1, <1>2 DEF AtLeast
<1> HIDE DEF charWidth
<1>4. width \div charWidth \in Nat
  BY <1>3
<1>5. perLine \in Nat /\ perLine > 0
  BY <1>4 DEF AtLeast
<1> HIDE DEF perLine
<1>6. len + perLine - 1 \in Nat
  BY <1>5
<1>7. (len + perLine - 1) \div perLine \in Nat
  BY <1>5, <1>6
<1>8. AtLeast(lines, (len + perLine - 1) \div perLine) \in Nat
  BY <1>7 DEF AtLeast
<1> QED
  BY <1>8 DEF WrappedLines, charWidth, perLine

LEMMA ParagraphHeightType ==
    ASSUME NEW p \in Paragraph, NEW size \in Nat, NEW width \in Nat
    PROVE  ParagraphHeight(p, size, width) \in Nat /\ ParagraphHeight(p, size, width) >= 400
<1> DEFINE lines == WrappedLines(p.len, 1, size, Tracking(p), width)
<1>1. p.len \in Nat
  BY DEF Paragraph
<1>2. lines \in Nat
  BY <1>1, TrackingType, WrappedLinesType
<1> HIDE DEF lines
<1>3. LineSpacing(p, size) * lines \in Nat
  BY <1>2, LineSpacingType
<1>4. SpaceBefore(p) + SpaceAfter(p) + LineSpacing(p, size) * lines \in Nat
  BY <1>3, SpaceType
<1> QED
  BY <1>4 DEF ParagraphHeight, AtLeast, lines

\* The greatest of 1 and the values of a function.
LEMMA MaxOfImage ==
    ASSUME NEW S, IsFiniteSet(S), NEW f, DOMAIN f = S, \A x \in S : f[x] \in Nat
    PROVE  /\ Max({1} \cup {f[x] : x \in S}) \in Nat
           /\ Max({1} \cup {f[x] : x \in S}) > 0
<1> DEFINE Values == {f[x] : x \in S}
           All    == {1} \cup Values
<1>1. IsFiniteSet(Values)
  BY ImageFinite
<1>2. \A y \in Values : y \in Nat
  OBVIOUS
<1> HIDE DEF Values
<1>3. IsFiniteSet(All)
  BY <1>1, FS_Singleton, FS_Union
<1>4. \A y \in All : y \in Nat
  BY <1>2
<1>5. 1 \in All
  OBVIOUS
<1> HIDE DEF All
<1>6. All \in SUBSET Int /\ All # {}
  BY <1>4, <1>5
<1>7. Max(All) \in All /\ 1 <= Max(All)
  BY <1>3, <1>5, <1>6, MaxOfFinite
<1>8. Max(All) \in Nat
  BY <1>4, <1>7
<1> QED
  BY <1>7, <1>8 DEF All, Values

\* The lines of a table's row.
RowLinesOf(row, body, wide) ==
    Max({1} \cup {WrappedLines(row[c].len, row[c].lines, body, 0, wide) :
                     c \in {i \in DOMAIN row : row[i].len > 0}})

LEMMA RowLinesType ==
    ASSUME NEW row \in Seq(Cell), NEW body \in Nat, NEW wide \in Nat
    PROVE  RowLinesOf(row, body, wide) \in Nat
<1> DEFINE C == {i \in DOMAIN row : row[i].len > 0}
           L == [c \in C |-> WrappedLines(row[c].len, row[c].lines, body, 0, wide)]
<1>1. DOMAIN row = 1..Len(row) /\ Len(row) \in Nat /\ \A c \in DOMAIN row : row[c] \in Cell
  OBVIOUS
<1>2. IsFiniteSet(DOMAIN row)
  BY <1>1, FS_Interval
<1>3. IsFiniteSet(C)
  BY <1>2, FS_Subset
<1>a. \A len, lines \in Nat : WrappedLines(len, lines, body, 0, wide) \in Nat
  <2> HIDE DEF C, L
  <2> TAKE len, lines \in Nat
  <2>1. 0 \in Int
    OBVIOUS
  <2> QED
    BY <2>1, WrappedLinesType
<1>4. ASSUME NEW c \in C
      PROVE  L[c] \in Nat
  <2>1. row[c].len \in Nat /\ row[c].lines \in Nat
    BY <1>1 DEF Cell
  <2>2. WrappedLines(row[c].len, row[c].lines, body, 0, wide) \in Nat
    BY <1>a, <2>1
  <2> QED
    BY <2>2
<1>5. {WrappedLines(row[c].len, row[c].lines, body, 0, wide) : c \in C} = {L[c] : c \in C}
  OBVIOUS
<1>6. DOMAIN L = C
  OBVIOUS
<1>7. Max({1} \cup {L[c] : c \in C}) \in Nat
  <2> HIDE DEF L, C
  <2> QED
    BY <1>3, <1>4, <1>6, MaxOfImage
<1> QED
  BY <1>5, <1>7 DEF RowLinesOf

LEMMA TableHeightType ==
    ASSUME NEW t \in Table, NEW body \in Nat, NEW width \in Nat
    PROVE  TableHeight(t, body, width) \in Nat /\ TableHeight(t, body, width) >= 800
<1> DEFINE lens       == [r \in DOMAIN t.rows |-> Len(t.rows[r])]
           columns    == Max({1} \cup {Len(t.rows[r]) : r \in DOMAIN t.rows})
           lineHeight == AtLeast(1000, (body * 13) \div 10)
           wide       == AtLeast(4800, width \div columns)
           RowLines(row) == RowLinesOf(row, body, wide)
           heights    == [r \in DOMAIN t.rows |-> RowLines(t.rows[r]) * lineHeight + 400]
<1>1. /\ t.rows \in Seq(Seq(Cell)) /\ DOMAIN t.rows = 1..Len(t.rows) /\ Len(t.rows) \in Nat
      /\ \A r \in DOMAIN t.rows : t.rows[r] \in Seq(Cell) /\ Len(t.rows[r]) \in Nat
  BY DEF Table
<1>2. IsFiniteSet(DOMAIN t.rows)
  BY <1>1, FS_Interval
<1>3. columns \in Nat /\ columns > 0
  <2>1. DOMAIN lens = DOMAIN t.rows /\ \A r \in DOMAIN t.rows : lens[r] \in Nat
    BY <1>1
  <2>2. {Len(t.rows[r]) : r \in DOMAIN t.rows} = {lens[r] : r \in DOMAIN t.rows}
    OBVIOUS
  <2> HIDE DEF lens
  <2> QED
    BY <1>2, <2>1, <2>2, MaxOfImage
<1> HIDE DEF columns
<1>4. wide \in Nat
  <2>1. width \div columns \in Nat
    BY <1>3
  <2> QED
    BY <2>1 DEF AtLeast
<1> HIDE DEF wide
<1>5. lineHeight \in Nat
  BY DEF AtLeast
<1> HIDE DEF lineHeight
<1>6. ASSUME NEW row \in Seq(Cell)
      PROVE  RowLines(row) \in Nat
  BY <1>4, RowLinesType
<1> HIDE DEF RowLines
<1>7. \A r \in DOMAIN t.rows : heights[r] \in Nat
  <2> TAKE r \in DOMAIN t.rows
  <2>1. RowLines(t.rows[r]) \in Nat
    BY <1>1, <1>6
  <2>2. RowLines(t.rows[r]) * lineHeight \in Nat
    BY <1>5, <2>1
  <2> QED
    BY <2>2
<1>8. DOMAIN heights = DOMAIN t.rows
  OBVIOUS
<1> HIDE DEF heights
<1>9. SumFunction(heights) \in Nat
  BY <1>2, <1>7, <1>8, SumOfNats DEF SumFunction
<1>10. TableHeight(t, body, width) = 800 + SumFunction(heights)
  BY DEF TableHeight, heights, wide, RowLines, RowLinesOf, columns, lineHeight
<1> QED
  BY <1>9, <1>10

-----------------------------------------------------------------------------
(* Body text and headings. *)

LEMMA ItemKinds ==
    ASSUME NEW doc \in Document, NEW i \in DOMAIN doc.items
    PROVE  /\ IsTable(doc.items[i]) => doc.items[i] \in Table
           /\ ~IsTable(doc.items[i]) => doc.items[i] \in Paragraph
<1>1. doc.items[i] \in Paragraph \cup Table
  BY DEF Document
<1>2. \A p \in Paragraph : ~IsTable(p)
  BY DEF Paragraph, IsTable
<1>3. \A t \in Table : IsTable(t)
  BY DEF Table, IsTable
<1> QED
  BY <1>1, <1>2, <1>3

LEMMA SizesType ==
    ASSUME NEW doc \in Document
    PROVE  Sizes(doc) \in Seq(Nat \ {0})
<1> DEFINE given == [i \in DOMAIN doc.items |->
                        IF ~IsTable(doc.items[i]) /\ YieldsBlock(doc.items[i]) /\ LargestSize(doc.items[i]) > 0
                        THEN <<LargestSize(doc.items[i])>> ELSE <<>>]
<1>1. DOMAIN doc.items = 1..Len(doc.items) /\ Len(doc.items) \in Nat
  BY DEF Document
<1>2. ASSUME NEW i \in DOMAIN doc.items
      PROVE  given[i] \in Seq(Nat \ {0})
  <2>1. CASE ~IsTable(doc.items[i]) /\ LargestSize(doc.items[i]) > 0
    <3>1. LargestSize(doc.items[i]) \in Nat \ {0}
      BY <2>1, ItemKinds, LargestSizeType
    <3>2. <<LargestSize(doc.items[i])>> \in Seq(Nat \ {0}) /\ <<>> \in Seq(Nat \ {0})
      BY <3>1
    <3> QED
      BY <3>2
  <2>2. CASE ~(~IsTable(doc.items[i]) /\ LargestSize(doc.items[i]) > 0)
    BY <2>2, EmptySeq
  <2> QED
    BY <2>1, <2>2
<1>3. given = [i \in 1..Len(doc.items) |-> given[i]]
  BY <1>1
<1>4. \A i \in 1..Len(doc.items) : given[i] \in Seq(Nat \ {0})
  BY <1>1, <1>2
<1>5. Sizes(doc) = FlattenSeq(given)
  BY DEF Sizes
<1> HIDE DEF given
<1>6. given \in Seq(Seq(Nat \ {0}))
  <2>1. given \in [1..Len(doc.items) -> Seq(Nat \ {0})]
    BY <1>3, <1>4
  <2> QED
    BY <1>1, <2>1, SeqDef
<1> QED
  BY <1>5, <1>6, FlattenType

\* A quarter of the sizes are at most the size of the body text.
LEMMA BodySizeBounds ==
    ASSUME NEW sizes \in Seq(Nat \ {0})
    PROVE  /\ BodySizeOf(sizes) \in Nat /\ BodySizeOf(sizes) > 0
           /\ 4 * Cardinality(UpTo(sizes, BodySizeOf(sizes))) >= Len(sizes)
<1>1. CASE sizes = <<>>
  <2>1. BodySizeOf(sizes) = 1100 /\ Len(sizes) = 0
    BY <1>1 DEF BodySizeOf
  <2>2. UpTo(sizes, 1100) \in SUBSET DOMAIN sizes
    BY DEF UpTo
  <2>3. Cardinality(UpTo(sizes, 1100)) \in 0..Len(sizes)
    BY <2>2, PositionsFinite
  <2> QED
    BY <2>1, <2>3
<1>2. CASE sizes # <<>>
  <2> DEFINE n == Len(sizes)
             m == AtLeast(1, (n * 6) \div 10)
             h == (m + 1) \div 2
             body == BodySizeOf(sizes)
  <2>1. n \in Nat /\ n >= 1
    BY <1>2
  <2>2. sizes \in Seq(Int) /\ \A i \in DOMAIN sizes : sizes[i] \in Nat \ {0}
    OBVIOUS
  <2>n. n = Len(sizes)
    OBVIOUS
  <2> HIDE DEF n
  <2>3. m \in 1..n /\ 4 * h >= n
    BY <2>1 DEF AtLeast
  <2>m. body = MedianOfLeast(sizes, m)
    BY <1>2 DEF BodySizeOf, n
  <2> HIDE DEF m, body
  <2>4. /\ h \in 1..m /\ Nth(sizes, h) \in ToSet(sizes)
        /\ body \in Int /\ Nth(sizes, h) <= body
    BY <2>2, <2>3, <2>n, <2>m, MedianBounds
  <2>5. h \in 1..Len(sizes)
    BY <2>1, <2>3, <2>4, <2>n
  <2> HIDE DEF h
  <2>6. Cardinality(UpTo(sizes, Nth(sizes, h))) >= h /\ Nth(sizes, h) \in Int
    BY <2>2, <2>5, NthExists
  <2>7. Nth(sizes, h) > 0
    BY <2>2, <2>4 DEF ToSet
  <2>8. UpTo(sizes, Nth(sizes, h)) \subseteq UpTo(sizes, body)
    <3>1. ASSUME NEW i \in UpTo(sizes, Nth(sizes, h))
          PROVE  i \in UpTo(sizes, body)
      <4>1. i \in DOMAIN sizes /\ sizes[i] \in Int /\ sizes[i] <= Nth(sizes, h)
        BY <2>2 DEF UpTo
      <4> QED
        BY <2>4, <2>6, <4>1 DEF UpTo
    <3> QED
      BY <3>1
  <2>9. UpTo(sizes, body) \in SUBSET DOMAIN sizes /\ UpTo(sizes, Nth(sizes, h)) \in SUBSET DOMAIN sizes
    BY DEF UpTo
  <2>10. /\ Cardinality(UpTo(sizes, Nth(sizes, h))) \in 0..n
         /\ Cardinality(UpTo(sizes, body)) \in 0..n
         /\ Cardinality(UpTo(sizes, Nth(sizes, h))) <= Cardinality(UpTo(sizes, body))
    BY <2>2, <2>8, <2>9, PositionsFinite DEF n
  <2>11. 4 * Cardinality(UpTo(sizes, body)) >= n
    <3>1. h \in Nat
      BY <2>1, <2>5, <2>n
    <3>2. Cardinality(UpTo(sizes, body)) >= h /\ Cardinality(UpTo(sizes, body)) \in Nat
      BY <2>1, <2>6, <2>10, <3>1
    <3> QED
      BY <2>1, <2>3, <3>1, <3>2
  <2>12. body \in Nat /\ body > 0
    BY <2>4, <2>6, <2>7
  <2> QED
    BY <2>11, <2>12 DEF body, n
<1> QED
  BY <1>1, <1>2

LEMMA BodySizeType ==
    ASSUME NEW doc \in Document
    PROVE  BodySize(doc) \in Nat /\ BodySize(doc) > 0
BY SizesType, BodySizeBounds DEF BodySize

LEMMA SizeOfType ==
    ASSUME NEW p \in Paragraph, NEW body \in Nat
    PROVE  SizeOf(p, body) \in Nat
BY LargestSizeType DEF SizeOf

\* Only a paragraph 1.3 times as large as the body text is a heading for its size.
LEMMA HeadingIsLarge ==
    ASSUME NEW p \in Paragraph, NEW body \in Nat, body > 0,
           p.level = <<>>, HeadingLevel(p, body) # 0
    PROVE  10 * LargestSize(p) >= 13 * body
<1> DEFINE size    == SizeOf(p, body)
           percent == (100 * size) \div body
<1>1. LargestSize(p) \in Nat /\ size \in Nat
  BY LargestSizeType, SizeOfType
<1>s. size = IF LargestSize(p) = 0 THEN body ELSE LargestSize(p)
  BY DEF SizeOf
<1> HIDE DEF size
<1>2. percent \in Int /\ body * percent <= 100 * size
  <2>1. 100 * size \in Nat
    BY <1>1
  <2> SUFFICES ASSUME NEW a \in Nat
               PROVE  a \div body \in Int /\ body * (a \div body) <= a
    BY <2>1
  <2> QED
    OBVIOUS
<1>p. percent = (100 * size) \div body
  OBVIOUS
<1> HIDE DEF percent
<1>3. percent >= 130
  <2> DEFINE Level(q) ==
        CASE p.level # <<>> -> Min({6, AtLeast(1, p.level[1])})
          [] p.level = <<>> /\ p.len <= 120 /\ q >= 165 -> 1
          [] p.level = <<>> /\ p.len <= 120 /\ q \in 145..164 -> 2
          [] p.level = <<>> /\ p.len <= 120 /\ q \in 130..144 -> 3
          [] OTHER -> 0
  <2>1. HeadingLevel(p, body) = Level(percent)
    BY <1>p DEF HeadingLevel, size
  <2>2. ASSUME NEW q \in Int, q < 130
        PROVE  Level(q) = 0
    <3>1. ~(q >= 165) /\ q \notin 145..164 /\ q \notin 130..144
      BY <2>2
    <3> QED
      BY <3>1
  <2>3. percent < 130 => Level(percent) = 0
    <3> HIDE DEF Level
    <3> QED
      BY <1>2, <2>2
  <2> HIDE DEF Level
  <2> QED
    BY <1>2, <2>1, <2>3
<1>4. 130 * body <= body * percent
  <2> SUFFICES ASSUME NEW q \in Int, q >= 130
               PROVE  130 * body <= body * q
    BY <1>2, <1>3
  <2>1. PICK d \in Nat : q = 130 + d
    <3>1. q - 130 \in Nat /\ q = 130 + (q - 130)
      OBVIOUS
    <3> QED
      BY <3>1
  <2>2. body * d \in Nat /\ body * q = body * 130 + body * d
    BY <2>1
  <2> QED
    BY <2>2
<1>5. body * percent \in Int
  BY <1>2
<1>6. 130 * body <= 100 * size
  BY <1>1, <1>2, <1>4, <1>5
<1>7. LargestSize(p) # 0
  BY <1>1, <1>s, <1>6
<1> QED
  BY <1>1, <1>s, <1>6, <1>7

-----------------------------------------------------------------------------
(* From page to page. *)

LEMMA Distributes ==
    ASSUME NEW a \in Int, NEW b \in Int, NEW room \in Int
    PROVE  /\ (a + b) * room = a * room + b * room /\ (a - b) * room = a * room - b * room
           /\ a * room \in Int /\ room * a = a * room
OBVIOUS

LEMMA AdvancePage ==
    ASSUME NEW pg \in Nat, NEW room \in Nat \ {0}, NEW u \in 0..room, NEW h \in Nat \ {0}
    PROVE  /\ StartPage(pg, u, h, room) \in {pg, pg + 1}
           /\ Filled(pg, u, h, room) \in Nat \ {0}
           /\ EndPage(pg, u, h, room) \in Nat /\ EndPage(pg, u, h, room) >= StartPage(pg, u, h, room)
           /\ UsedAfter(pg, u, h, room) \in 1..room
           /\ (EndPage(pg, u, h, room) - StartPage(pg, u, h, room)) * room + UsedAfter(pg, u, h, room)
                 = Filled(pg, u, h, room)
<1> DEFINE start == StartPage(pg, u, h, room)
           full  == Filled(pg, u, h, room)
           q     == (full - 1) \div room
<1>1. start \in {pg, pg + 1}
  BY DEF StartPage
<1>2. full \in Nat \ {0}
  BY DEF Filled
<1>e. /\ EndPage(pg, u, h, room) = start + q
      /\ UsedAfter(pg, u, h, room) = full - room * q
  BY DEF EndPage, UsedAfter
<1> HIDE DEF start, full
<1>3. q \in Nat /\ room * q <= full - 1 /\ full - 1 < room * q + room /\ room * q \in Nat
  <2> SUFFICES ASSUME NEW a \in Nat
               PROVE  /\ a \div room \in Nat /\ room * (a \div room) <= a
                      /\ a < room * (a \div room) + room /\ room * (a \div room) \in Nat
    <3>1. full - 1 \in Nat
      BY <1>2
    <3> QED
      BY <3>1
  <2>1. a \div room \in Nat
    OBVIOUS
  <2>2. room * (a \div room) \in Nat
    BY <2>1
  <2>3. room * (a \div room) <= a /\ a < room * (a \div room) + room
    OBVIOUS
  <2> QED
    BY <2>1, <2>2, <2>3
<1> HIDE DEF q
<1>4. full - room * q \in 1..room
  BY <1>2, <1>3
<1>5. start + q - start = q /\ start + q \in Nat
  BY <1>1, <1>3
<1>6. q * room = room * q
  BY <1>3
<1>7. q * room + (full - room * q) = full
  BY <1>2, <1>3, <1>6
<1>8. (EndPage(pg, u, h, room) - start) * room + UsedAfter(pg, u, h, room) = full
  <2>1. EndPage(pg, u, h, room) - start = q
    BY <1>1, <1>3, <1>e
  <2> QED
    BY <1>e, <1>6, <1>7, <2>1
<1>9. EndPage(pg, u, h, room) \in Nat /\ EndPage(pg, u, h, room) >= start /\ UsedAfter(pg, u, h, room) \in 1..room
  BY <1>1, <1>3, <1>e, <1>4, <1>5
<1> QED
  BY <1>1, <1>2, <1>8, <1>9 DEF start, full

=============================================================================
