----------------------------- MODULE Parlay_proofs -----------------------------
(***************************************************************************)
(* Legs and context only add risk, their arrangement changes nothing, what *)
(* a client is told never gets worse without an alert, and suggestions and *)
(* enforcement agree: for every catalogue, profile, batch of signals and   *)
(* bound.  Sums over legs and pairs are folds of the community modules, of *)
(* which the first part proves what the rest needs.                        *)
(***************************************************************************)
EXTENDS Parlay, FiniteSetTheorems, TLAPS

-----------------------------------------------------------------------------
(* Sums.  SumFunctionOnSet takes the elements out in an order of its own;  *)
(* what follows says that the order is immaterial and how sums compare.    *)

First(s) == CHOOSE x \in s : TRUE

\* The function on the subsets of S the sum is read from.
Sums(f, S, g) ==
  g = [s \in SUBSET S |-> IF s = {} THEN 0 ELSE f[First(s)] + g[s \ {First(s)}]]

LEMMA SumIsRead ==
  ASSUME NEW f, NEW S
  PROVE  SumFunctionOnSet(f, S) = (CHOOSE g : Sums(f, S, g))[S]
BY DEF SumFunctionOnSet, FoldFunctionOnSet, MapThenFoldSet, Sums, First

\* Induction over the subsets of a finite set, for a set of good ones.
LEMMA SubsetInduction ==
  ASSUME NEW S, IsFiniteSet(S), NEW Good,
         \A T \in SUBSET S : (\A U \in SUBSET T : U # T => U \in Good) => T \in Good
  PROVE  \A T \in SUBSET S : T \in Good
<1> DEFINE Bad == {T \in SUBSET S : T \notin Good}
<1> SUFFICES ASSUME Bad # {}
             PROVE  FALSE
    OBVIOUS
<1>1. Bad \subseteq FiniteSubsetsOf(S)
  BY FS_Subset DEF FiniteSubsetsOf
<1>2. IsWellFoundedOn(StrictSubsetOrdering(S), FiniteSubsetsOf(S))
  BY FS_StrictSubsetOrderingWellFounded
<1>3. PICK T \in Bad : \A U \in Bad : <<U, T>> \notin StrictSubsetOrdering(S)
  <2> DEFINE R == StrictSubsetOrdering(S)
             D == FiniteSubsetsOf(S)
  <2>1. Bad # {} /\ Bad \subseteq D /\ IsWellFoundedOn(R, D)
    BY <1>1, <1>2
  <2> HIDE DEF Bad, R, D
  <2>2. \E T \in Bad : \A U \in Bad : <<U, T>> \notin R
    BY <2>1, WFMin
  <2> QED BY <2>2 DEF R
<1>4. \A U \in SUBSET T : U # T => U \in Good
  BY <1>3 DEF StrictSubsetOrdering
<1> QED BY <1>4

\* Two such functions agree on the sets both are defined on.
LEMMA SumsAgree ==
  ASSUME NEW f, NEW S, IsFiniteSet(S), NEW T, S \subseteq T,
         NEW g, Sums(f, S, g), NEW h, Sums(f, T, h)
  PROVE  \A s \in SUBSET S : g[s] = h[s]
<1> DEFINE Good == {s \in SUBSET S : g[s] = h[s]}
<1>1. ASSUME NEW s \in SUBSET S, \A U \in SUBSET s : U # s => U \in Good
      PROVE  s \in Good
  <2>1. /\ g[s] = IF s = {} THEN 0 ELSE f[First(s)] + g[s \ {First(s)}]
        /\ h[s] = IF s = {} THEN 0 ELSE f[First(s)] + h[s \ {First(s)}]
    BY DEF Sums
  <2>2. s # {} => First(s) \in s
    BY DEF First
  <2>3. s # {} => s \ {First(s)} \in Good
    BY <1>1, <2>2
  <2> QED BY <2>1, <2>3
<1>2. \A s \in SUBSET S : s \in Good
  <2> HIDE DEF Good
  <2> QED BY <1>1, SubsetInduction
<1> QED BY <1>2

LEMMA SumsExist ==
  ASSUME NEW f, NEW S, IsFiniteSet(S)
  PROVE  \E g : Sums(f, S, g)
<1> DEFINE Good == {T \in SUBSET S : \E g : Sums(f, T, g)}
           G(T) == CHOOSE g : Sums(f, T, g)
<1>1. ASSUME NEW T \in SUBSET S, \A U \in SUBSET T : U # T => U \in Good
      PROVE  T \in Good
  <2> DEFINE value(s) == IF s = T /\ T # {}
                         THEN f[First(T)] + G(T \ {First(T)})[T \ {First(T)}]
                         ELSE IF s = {} THEN 0 ELSE G(s)[s]
             g == [s \in SUBSET T |-> value(s)]
  <2>1. \A U \in SUBSET T : U # T => Sums(f, U, G(U))
    BY <1>1, Zenon
  <2>2. \A s \in SUBSET T : s # {} => First(s) \in s
    BY DEF First
  <2>3. ASSUME NEW s \in SUBSET T, s # {}
        PROVE  g[s] = f[First(s)] + g[s \ {First(s)}]
    <3> DEFINE r == s \ {First(s)}
    <3>1. r \in SUBSET T /\ r # T /\ r # s /\ r \in SUBSET s
      BY <2>2, <2>3
    <3>2. g[r] = IF r = {} THEN 0 ELSE G(r)[r]
      BY <3>1
    <3>3. g[r] = G(r)[r]
      <4>1. Sums(f, r, G(r))
        BY <2>1, <3>1
      <4>2. r = {} => G(r)[r] = 0
        <5> HIDE DEF G, r
        <5> QED BY <4>1 DEF Sums
      <4> QED BY <3>2, <4>2
    <3>4. CASE s = T
      <4>1. g[s] = f[First(T)] + G(T \ {First(T)})[T \ {First(T)}]
        BY <2>3, <3>4
      <4> QED BY <3>3, <3>4, <4>1
    <3>5. CASE s # T
      <4>1. Sums(f, s, G(s)) /\ Sums(f, r, G(r))
        BY <2>1, <3>1, <3>5
      <4>2. g[s] = G(s)[s]
        BY <2>3, <3>5
      <4>3. G(s)[s] = f[First(s)] + G(s)[r]
        <5> HIDE DEF G
        <5> QED BY <2>3, <4>1 DEF Sums
      <4>4. IsFiniteSet(r)
        BY <3>1, FS_Subset
      <4>5. G(r)[r] = G(s)[r]
        <5> HIDE DEF G, r
        <5> QED BY <3>1, <4>1, <4>4, SumsAgree
      <4> QED BY <3>3, <4>2, <4>3, <4>5
    <3> QED BY <3>4, <3>5
  <2>4. g[{}] = 0
    OBVIOUS
  <2>5. g = [s \in SUBSET T |-> g[s]]
    OBVIOUS
  <2>6. \A s \in SUBSET T : g[s] = IF s = {} THEN 0 ELSE f[First(s)] + g[s \ {First(s)}]
    <3> HIDE DEF g
    <3> QED BY <2>3, <2>4
  <2>7. Sums(f, T, g)
    <3> HIDE DEF g
    <3> QED BY <2>5, <2>6 DEF Sums
  <2> QED BY <2>7
<1>2. \A T \in SUBSET S : T \in Good
  <2> HIDE DEF Good
  <2> QED BY <1>1, SubsetInduction
<1> QED BY <1>2

LEMMA SumIsOne ==
  ASSUME NEW f, NEW S, IsFiniteSet(S)
  PROVE  \E g : Sums(f, S, g) /\ SumFunctionOnSet(f, S) = g[S]
BY SumsExist, SumIsRead, Zenon

LEMMA SumOfNone == \A f : SumFunctionOnSet(f, {}) = 0
<1> SUFFICES ASSUME NEW f
             PROVE  SumFunctionOnSet(f, {}) = 0
    OBVIOUS
<1>1. PICK g : Sums(f, {}, g) /\ SumFunctionOnSet(f, {}) = g[{}]
  BY SumIsOne, FS_EmptySet
<1> QED BY <1>1 DEF Sums

LEMMA SumOfSome ==
  ASSUME NEW f, NEW S, IsFiniteSet(S), S # {}
  PROVE  /\ First(S) \in S
         /\ SumFunctionOnSet(f, S) = f[First(S)] + SumFunctionOnSet(f, S \ {First(S)})
<1> DEFINE r == S \ {First(S)}
<1>1. First(S) \in S
  BY DEF First
<1>2. IsFiniteSet(r)
  BY FS_RemoveElement
<1>3. PICK g : Sums(f, S, g) /\ SumFunctionOnSet(f, S) = g[S]
  BY SumIsOne
<1>4. PICK h : Sums(f, r, h) /\ SumFunctionOnSet(f, r) = h[r]
  BY <1>2, SumIsOne
<1>5. h[r] = g[r]
  <2>1. r \in SUBSET S
    OBVIOUS
  <2> HIDE DEF r
  <2> QED BY <1>2, <1>3, <1>4, <2>1, SumsAgree
<1>6. g[S] = f[First(S)] + g[r]
  BY <1>3 DEF Sums
<1> QED BY <1>1, <1>3, <1>4, <1>5, <1>6

LEMMA SumIsNat ==
  ASSUME NEW f, NEW S, IsFiniteSet(S), \A x \in S : f[x] \in Nat
  PROVE  SumFunctionOnSet(f, S) \in Nat
<1> DEFINE Good == {T \in SUBSET S : SumFunctionOnSet(f, T) \in Nat}
<1>1. ASSUME NEW T \in SUBSET S, \A U \in SUBSET T : U # T => U \in Good
      PROVE  T \in Good
  <2>1. CASE T = {}
    BY <2>1, SumOfNone
  <2>2. CASE T # {}
    <3>1. IsFiniteSet(T)
      BY FS_Subset
    <3>2. /\ First(T) \in T
          /\ SumFunctionOnSet(f, T) = f[First(T)] + SumFunctionOnSet(f, T \ {First(T)})
      BY <2>2, <3>1, SumOfSome
    <3>3. SumFunctionOnSet(f, T \ {First(T)}) \in Nat
      BY <1>1, <3>2
    <3> QED BY <3>2, <3>3
  <2> QED BY <2>1, <2>2
<1>2. \A T \in SUBSET S : T \in Good
  <2> HIDE DEF Good
  <2> QED BY <1>1, SubsetInduction
<1> QED BY <1>2

LEMMA SumIsNotPositive ==
  ASSUME NEW f, NEW S, IsFiniteSet(S), \A x \in S : f[x] \in Int /\ f[x] <= 0
  PROVE  SumFunctionOnSet(f, S) \in Int /\ SumFunctionOnSet(f, S) <= 0
<1> DEFINE Good == {T \in SUBSET S : SumFunctionOnSet(f, T) \in Int /\ SumFunctionOnSet(f, T) <= 0}
<1>1. ASSUME NEW T \in SUBSET S, \A U \in SUBSET T : U # T => U \in Good
      PROVE  T \in Good
  <2>1. CASE T = {}
    BY <2>1, SumOfNone
  <2>2. CASE T # {}
    <3>1. IsFiniteSet(T)
      BY FS_Subset
    <3>2. /\ First(T) \in T
          /\ SumFunctionOnSet(f, T) = f[First(T)] + SumFunctionOnSet(f, T \ {First(T)})
      BY <2>2, <3>1, SumOfSome
    <3>3. SumFunctionOnSet(f, T \ {First(T)}) \in Int /\ SumFunctionOnSet(f, T \ {First(T)}) <= 0
      BY <1>1, <3>2
    <3> QED BY <3>2, <3>3
  <2> QED BY <2>1, <2>2
<1>2. \A T \in SUBSET S : T \in Good
  <2> HIDE DEF Good
  <2> QED BY <1>1, SubsetInduction
<1> QED BY <1>2

\* Any element can be taken out first.
LEMMA SumTakesOut ==
  ASSUME NEW f, NEW S, IsFiniteSet(S), \A x \in S : f[x] \in Nat
  PROVE  \A x \in S : SumFunctionOnSet(f, S) = f[x] + SumFunctionOnSet(f, S \ {x})
<1> DEFINE Whole(T) == SumFunctionOnSet(f, T)
           Good == {T \in SUBSET S : \A x \in T : Whole(T) = f[x] + Whole(T \ {x})}
<1>1. ASSUME NEW T \in SUBSET S, \A U \in SUBSET T : U # T => U \in Good
      PROVE  T \in Good
  <2> SUFFICES ASSUME NEW x \in T
               PROVE  Whole(T) = f[x] + Whole(T \ {x})
      OBVIOUS
  <2> DEFINE y == First(T)
  <2>1. IsFiniteSet(T) /\ T # {}
    BY FS_Subset
  <2>2. y \in T /\ Whole(T) = f[y] + Whole(T \ {y})
    BY <2>1, SumOfSome
  <2>3. CASE x = y
    BY <2>2, <2>3
  <2>4. CASE x # y
    <3>1. T \ {y} \in Good /\ T \ {x} \in Good
      BY <1>1, <2>2
    <3>2. x \in T \ {y} /\ y \in T \ {x} /\ (T \ {y}) \ {x} = (T \ {x}) \ {y}
      BY <2>2, <2>4
    <3>3. Whole(T \ {y}) = f[x] + Whole((T \ {y}) \ {x})
      BY <3>1, <3>2
    <3>4. Whole(T \ {x}) = f[y] + Whole((T \ {x}) \ {y})
      BY <3>1, <3>2
    <3>5. PICK n \in Nat : n = Whole((T \ {x}) \ {y})
      BY <2>1, SumIsNat, FS_Subset
    <3>6. f[x] \in Nat /\ f[y] \in Nat
      BY <2>2
    <3>7. Whole((T \ {y}) \ {x}) = n
      BY <3>2, <3>5
    <3>8. Whole(T) = f[y] + (f[x] + n) /\ Whole(T \ {x}) = f[y] + n
      BY <2>2, <3>3, <3>4, <3>5, <3>7
    <3> HIDE DEF Whole, y
    <3>9. Whole(T) = f[x] + Whole(T \ {x})
      BY ONLY <3>6, <3>8, n \in Nat
    <3> QED BY <3>9
  <2> QED BY <2>3, <2>4
<1>2. \A T \in SUBSET S : T \in Good
  <2> HIDE DEF Good
  <2> QED BY <1>1, SubsetInduction
<1> QED BY <1>2

\* More terms, each at least as large.
LEMMA SumMonotone ==
  ASSUME NEW T, IsFiniteSet(T), NEW S, S \subseteq T, NEW f, NEW g,
         \A x \in S : f[x] \in Nat /\ f[x] <= g[x],
         \A x \in T : g[x] \in Nat
  PROVE  SumFunctionOnSet(f, S) <= SumFunctionOnSet(g, T)
<1> DEFINE F(U) == SumFunctionOnSet(f, U)
           G(U) == SumFunctionOnSet(g, U)
           Good == {U \in SUBSET T : F(S \cap U) <= G(U)}
<1>1. ASSUME NEW U \in SUBSET T, \A V \in SUBSET U : V # U => V \in Good
      PROVE  U \in Good
  <2>1. CASE U = {}
    <3>1. F(S \cap U) = 0 /\ G(U) = 0
      BY <2>1, SumOfNone
    <3> QED BY <3>1
  <2>2. CASE U # {}
    <3>1. PICK x \in U : TRUE
      BY <2>2
    <3> DEFINE V == U \ {x}
    <3>2. IsFiniteSet(U) /\ IsFiniteSet(V) /\ IsFiniteSet(S \cap U) /\ IsFiniteSet(S \cap V)
      BY FS_Subset
    <3>3. F(S \cap V) <= G(V)
      BY <1>1, <3>1
    <3>4. G(U) = g[x] + G(V)
      BY <3>2, SumTakesOut
    <3>5. F(S \cap V) \in Nat /\ G(V) \in Nat /\ g[x] \in Nat
      BY <3>2, SumIsNat
    <3>6. CASE x \in S
      <4>1. (S \cap U) \ {x} = S \cap V
        OBVIOUS
      <4>2. F(S \cap U) = f[x] + F((S \cap U) \ {x})
        BY <3>2, <3>6, SumTakesOut
      <4>3. F(S \cap U) = f[x] + F(S \cap V) /\ f[x] \in Nat /\ f[x] <= g[x]
        BY <3>6, <4>1, <4>2
      <4> HIDE DEF F, G, V
      <4>4. F(S \cap U) <= G(U)
        BY <3>3, <3>4, <3>5, <4>3
      <4> QED BY <4>4
    <3>7. CASE x \notin S
      <4>1. S \cap U = S \cap V
        BY <3>7
      <4>2. F(S \cap U) = F(S \cap V)
        BY <4>1
      <4> HIDE DEF F, G, V
      <4>3. F(S \cap U) <= G(U)
        BY ONLY <3>3, <3>4, <3>5, <4>2
      <4> QED BY <4>3
    <3> QED BY <3>6, <3>7
  <2> QED BY <2>1, <2>2
<1>2. \A U \in SUBSET T : U \in Good
  <2> HIDE DEF Good
  <2> QED BY <1>1, SubsetInduction
<1>3. S \cap T = S
  OBVIOUS
<1> QED BY <1>2, <1>3

LEMMA SumEqual ==
  ASSUME NEW S, IsFiniteSet(S), NEW f, NEW g, \A x \in S : f[x] \in Nat /\ f[x] = g[x]
  PROVE  SumFunctionOnSet(f, S) = SumFunctionOnSet(g, S)
<1>1. /\ SumFunctionOnSet(f, S) <= SumFunctionOnSet(g, S)
      /\ SumFunctionOnSet(g, S) <= SumFunctionOnSet(f, S)
  BY SumMonotone
<1>2. SumFunctionOnSet(f, S) \in Nat /\ SumFunctionOnSet(g, S) \in Nat
  BY SumIsNat
<1> QED BY <1>1, <1>2

\* The terms under other names.
LEMMA SumRenamed ==
  ASSUME NEW S, IsFiniteSet(S), NEW h, \A x, y \in S : h[x] = h[y] => x = y,
         NEW T, \A x \in S : h[x] \in T, \A y \in T : \E x \in S : y = h[x],
         NEW f, NEW g, \A x \in S : f[x] \in Nat /\ f[x] = g[h[x]]
  PROVE  SumFunctionOnSet(f, S) = SumFunctionOnSet(g, T)
<1> DEFINE Image(U) == {h[x] : x \in U}
           F(U) == SumFunctionOnSet(f, U)
           G(U) == SumFunctionOnSet(g, U)
           Good == {U \in SUBSET S : F(U) = G(Image(U)) /\ IsFiniteSet(Image(U))}
<1>1. ASSUME NEW U \in SUBSET S, \A V \in SUBSET U : V # U => V \in Good
      PROVE  U \in Good
  <2>1. CASE U = {}
    <3>1. Image(U) = {}
      BY <2>1
    <3> QED BY <2>1, <3>1, SumOfNone, FS_EmptySet
  <2>2. CASE U # {}
    <3>1. PICK x \in U : TRUE
      BY <2>2
    <3> DEFINE V == U \ {x}
    <3>2. IsFiniteSet(U)
      BY FS_Subset
    <3>3. F(V) = G(Image(V)) /\ IsFiniteSet(Image(V))
      BY <1>1, <3>1
    <3>4. Image(V) = Image(U) \ {h[x]} /\ h[x] \in Image(U) /\ Image(U) = Image(V) \cup {h[x]}
      OBVIOUS
    <3>5. IsFiniteSet(Image(U))
      <4> HIDE DEF Image
      <4>1. IsFiniteSet(Image(V) \cup {h[x]})
        BY ONLY <3>3, FS_AddElement
      <4> QED BY <3>4, <4>1
    <3>6. \A z \in Image(U) : g[z] \in Nat
      OBVIOUS
    <3>7. F(U) = f[x] + F(V)
      BY <3>2, SumTakesOut
    <3>8. G(Image(U)) = g[h[x]] + G(Image(U) \ {h[x]})
      <4> HIDE DEF Image
      <4>1. \A z \in Image(U) : SumFunctionOnSet(g, Image(U))
                                 = g[z] + SumFunctionOnSet(g, Image(U) \ {z})
        BY ONLY <3>5, <3>6, SumTakesOut
      <4> QED BY <3>4, <4>1
    <3>9. F(U) = G(Image(U))
      <4>1. G(Image(U) \ {h[x]}) = G(Image(V)) /\ f[x] = g[h[x]]
        BY <3>4
      <4> HIDE DEF F, G, Image, V
      <4> QED BY <3>3, <3>7, <3>8, <4>1
    <3> QED BY <3>5, <3>9
  <2> QED BY <2>1, <2>2
<1>2. \A U \in SUBSET S : U \in Good
  <2> HIDE DEF Good
  <2> QED BY <1>1, SubsetInduction
<1>3. Image(S) = T
  OBVIOUS
<1> QED BY <1>2, <1>3

LEMMA SumSplits ==
  ASSUME NEW S, IsFiniteSet(S), NEW T, IsFiniteSet(T), S \cap T = {},
         NEW f, \A x \in S \cup T : f[x] \in Nat
  PROVE  SumFunctionOnSet(f, S \cup T) = SumFunctionOnSet(f, S) + SumFunctionOnSet(f, T)
<1> DEFINE F(U) == SumFunctionOnSet(f, U)
           Good == {U \in SUBSET S : F(U \cup T) = F(U) + F(T)}
<1>1. ASSUME NEW U \in SUBSET S, \A V \in SUBSET U : V # U => V \in Good
      PROVE  U \in Good
  <2>0. IsFiniteSet(U) /\ IsFiniteSet(U \cup T) /\ F(T) \in Nat
    BY FS_Subset, FS_Union, SumIsNat
  <2>1. CASE U = {}
    <3>1. U \cup T = T /\ F(U) = 0
      BY <2>1, SumOfNone
    <3> HIDE DEF F
    <3>2. F(U \cup T) = F(U) + F(T)
      BY <2>0, <3>1
    <3> QED BY <3>2
  <2>2. CASE U # {}
    <3>1. PICK x \in U : TRUE
      BY <2>2
    <3> DEFINE V == U \ {x}
    <3>2. (U \cup T) \ {x} = V \cup T
      OBVIOUS
    <3>3. F(V \cup T) = F(V) + F(T)
      BY <1>1, <3>1
    <3>4. F(U) = f[x] + F(V)
      BY <2>0, SumTakesOut
    <3>5. F(U \cup T) = f[x] + F(V \cup T)
      BY <2>0, <3>2, SumTakesOut
    <3>6. f[x] \in Nat /\ F(V) \in Nat
      BY <2>0, SumIsNat, FS_Subset
    <3> HIDE DEF F, V
    <3>7. F(U \cup T) = F(U) + F(T)
      BY <2>0, <3>3, <3>4, <3>5, <3>6
    <3> QED BY <3>7
  <2> QED BY <2>1, <2>2
<1>2. \A U \in SUBSET S : U \in Good
  <2> HIDE DEF Good
  <2> QED BY <1>1, SubsetInduction
<1> QED BY <1>2

-----------------------------------------------------------------------------
(* Metrics.                                                                *)

Block == [id : LegIds, mods : Modifiers]

\* The penalty of a pair does not depend on which leg came first.
LEMMA PairPenaltySymmetric == \A a, b : PairPenalty(a, b) = PairPenalty(b, a)
<1> SUFFICES ASSUME NEW a, NEW b
             PROVE  PairPenalty(a, b) = PairPenalty(b, a)
    OBVIOUS
<1>1. SamePlayerMultiProps(a, b) <=> SamePlayerMultiProps(b, a)
  BY DEF SamePlayerMultiProps
<1>2. \A tag : Tagged(a, b, tag) <=> Tagged(b, a, tag)
  BY DEF Tagged
<1>3. VolumeDependency(a, b) <=> VolumeDependency(b, a)
  BY <1>2 DEF VolumeDependency
<1>4. TdDependency(a, b) <=> TdDependency(b, a)
  BY <1>2 DEF TdDependency
<1>5. ScriptDependency(a, b) <=> ScriptDependency(b, a)
  BY <1>2 DEF ScriptDependency
<1>6. PaceDependency(a, b) <=> PaceDependency(b, a)
  BY <1>2 DEF PaceDependency
<1> QED BY <1>1, <1>3, <1>4, <1>5, <1>6 DEF PairPenalty

LEMMA PairPenaltyNat == \A a, b : PairPenalty(a, b) \in Nat
BY DEF PairPenalty

LEMMA PairsFinite ==
  ASSUME NEW n \in Nat
  PROVE  IsFiniteSet(Pairs(n))
<1>1. IsFiniteSet((1..n) \X (1..n))
  <2> DEFINE N == 1..n
  <2>1. IsFiniteSet(N)
    BY FS_Interval
  <2> HIDE DEF N
  <2>2. IsFiniteSet(N \X N)
    BY <2>1, FS_Product
  <2> QED BY <2>2 DEF N
<1> QED BY <1>1, FS_Subset DEF Pairs

LEMMA KindsFinite == IsFiniteSet(Kinds)
<1>1. Kinds = {"weather"} \cup {"injury"} \cup {"trade"} \cup {"role"}
  BY DEF Kinds
<1> QED BY <1>1, FS_Singleton, FS_Union

\* Every modifier counted is a natural number.
LEMMA EffectiveNat ==
  ASSUME NEW b \in Block
  PROVE  EffectiveFragility(b) \in Nat
<1> DEFINE S == {k \in Kinds : b.mods[k].applied}
           f == [k \in S |-> b.mods[k].delta]
<1>2. IsFiniteSet(S)
  BY KindsFinite, FS_Subset
<1>3. \A k \in S : f[k] \in Nat
  BY DEF Block, Modifiers
<1>4. SumFunction(f) \in Nat
  <2>1. DOMAIN f = S
    OBVIOUS
  <2> HIDE DEF f, S
  <2> QED BY <1>2, <1>3, <2>1, SumIsNat DEF SumFunction
<1>5. Leg(b).base \in Nat
  BY CatalogueAssumption DEF Leg, Block
<1>6. EffectiveFragility(b) = Leg(b).base + 100 * SumFunction(f)
  BY DEF EffectiveFragility
<1> HIDE DEF f
<1> QED BY <1>4, <1>5, <1>6

SumBlocks(blocks) == SumFunction([i \in 1..Len(blocks) |-> EffectiveFragility(blocks[i])])

\* p has the legs of q at their places, each no less fragile.
Embeds(q, p) ==
  /\ Len(q) <= Len(p)
  /\ \A i \in 1..Len(q) :
       q[i].id = p[i].id /\ EffectiveFragility(q[i]) <= EffectiveFragility(p[i])

LEMMA SumBlocksMonotone ==
  ASSUME NEW q \in Seq(Block), NEW p \in Seq(Block), Embeds(q, p)
  PROVE  /\ SumBlocks(q) \in Nat /\ SumBlocks(p) \in Nat
         /\ SumBlocks(q) <= SumBlocks(p)
<1> DEFINE f == [i \in 1..Len(q) |-> EffectiveFragility(q[i])]
           g == [i \in 1..Len(p) |-> EffectiveFragility(p[i])]
           S == 1..Len(q)
           T == 1..Len(p)
<1>1. IsFiniteSet(S) /\ IsFiniteSet(T) /\ S \subseteq T
  BY FS_Interval DEF Embeds
<1>2. \A i \in S : f[i] \in Nat /\ f[i] <= g[i]
  BY EffectiveNat DEF Embeds
<1>3. \A i \in T : g[i] \in Nat
  BY EffectiveNat
<1>4. /\ SumBlocks(q) = SumFunctionOnSet(f, S)
      /\ SumBlocks(p) = SumFunctionOnSet(g, T)
  BY DEF SumBlocks, SumFunction
<1> HIDE DEF f, g, S, T
<1> QED BY <1>1, <1>2, <1>3, <1>4, SumIsNat, SumMonotone

LEMMA CorrelationMonotone ==
  ASSUME NEW q \in Seq(Block), NEW p \in Seq(Block), Embeds(q, p)
  PROVE  /\ CorrelationPenalty(q) \in Nat /\ CorrelationPenalty(p) \in Nat
         /\ CorrelationPenalty(q) <= CorrelationPenalty(p)
<1> DEFINE cost(b, pair) == PairPenalty(Leg(b[pair[1]]), Leg(b[pair[2]]))
           S == Pairs(Len(q))
           T == Pairs(Len(p))
           f == [pair \in S |-> cost(q, pair)]
           g == [pair \in T |-> cost(p, pair)]
<1>1. IsFiniteSet(S) /\ IsFiniteSet(T)
  BY PairsFinite
<1>2. S \subseteq T
  BY DEF Pairs, Embeds
<1>3. \A pair \in S : cost(q, pair) = cost(p, pair)
  BY DEF Pairs, Embeds, Leg
<1>4. \A pair \in S : f[pair] \in Nat /\ f[pair] <= g[pair]
  BY <1>2, <1>3, PairPenaltyNat
<1>5. \A pair \in T : g[pair] \in Nat
  BY PairPenaltyNat
<1>6. /\ CorrelationPenalty(q) = SumFunctionOnSet(f, S)
      /\ CorrelationPenalty(p) = SumFunctionOnSet(g, T)
  BY DEF CorrelationPenalty, SumFunction
<1> HIDE DEF f, g, S, T
<1> QED BY <1>1, <1>2, <1>4, <1>5, <1>6, SumIsNat, SumMonotone

LEMMA MultiplierMonotone ==
  ASSUME NEW m \in Nat, NEW n \in Nat, m <= n
  PROVE  /\ CorrelationMultiplier(m) \in 20..30 /\ CorrelationMultiplier(n) \in 20..30
         /\ CorrelationMultiplier(m) <= CorrelationMultiplier(n)
BY DEF CorrelationMultiplier

LEMMA TimesMonotone ==
  ASSUME NEW a \in Nat, NEW b \in Nat, a <= b, NEW m \in Nat, NEW n \in Nat, m <= n
  PROVE  a * m \in Nat /\ b * n \in Nat /\ a * m <= b * n
<1>1. PICK d \in Nat : b = a + d
  <2>1. b - a \in Nat /\ b = a + (b - a)
    OBVIOUS
  <2> QED BY <2>1
<1>2. PICK e \in Nat : n = m + e
  <2>1. n - m \in Nat /\ n = m + (n - m)
    OBVIOUS
  <2> QED BY <2>1
<1>3. b * n = a * m + a * e + d * m + d * e
  BY <1>1, <1>2
<1>4. a * m \in Nat /\ a * e \in Nat /\ d * m \in Nat /\ d * e \in Nat
  BY <1>1, <1>2
<1> QED BY <1>3, <1>4

LEMMA FinalMonotone ==
  ASSUME NEW a \in Nat, NEW b \in Nat, a <= b, NEW m \in Nat, NEW n \in Nat, m <= n
  PROVE  /\ FinalFragility(a, m) \in 0..100 * Point /\ FinalFragility(b, n) \in 0..100 * Point
         /\ FinalFragility(a, m) <= FinalFragility(b, n)
<1>1. PICK x \in Nat, y \in Nat : x = a * m /\ y = b * n /\ x <= y
  BY TimesMonotone
<1>2. 100 * Point \in Nat
  BY DEF Point
<1> QED BY ONLY <1>1, <1>2, x \in Nat, y \in Nat DEF FinalFragility

Metrics == [penalty : Nat, multiplier : 20..30, final : 0..100 * Point]

\* A parlay with more legs, or with more fragile ones, has metrics no lower.
LEMMA MetricsMonotone ==
  ASSUME NEW q \in Seq(Block), NEW p \in Seq(Block), Embeds(q, p), Len(p) <= MaxLegs
  PROVE  /\ ParlayMetrics(q) \in Metrics /\ ParlayMetrics(p) \in Metrics
         /\ ParlayMetrics(q).penalty <= ParlayMetrics(p).penalty
         /\ ParlayMetrics(q).final <= ParlayMetrics(p).final
<1> DEFINE penalty(b) == CorrelationPenalty(b)
           multiplier(b) == CorrelationMultiplier(penalty(b))
           raw(b) == SumBlocks(b) + LegPenalty[Len(b)] + 100 * penalty(b)
<1>1. \A b : b # <<>> => ParlayMetrics(b) =
               [penalty |-> penalty(b), multiplier |-> multiplier(b),
                final |-> FinalFragility(raw(b), multiplier(b))]
  BY DEF ParlayMetrics, SumBlocks
<1>2. ParlayMetrics(<<>>) = [penalty |-> 0, multiplier |-> 20, final |-> 0]
  BY DEF ParlayMetrics
<1>3. /\ penalty(q) \in Nat /\ penalty(p) \in Nat /\ penalty(q) <= penalty(p)
      /\ SumBlocks(q) \in Nat /\ SumBlocks(p) \in Nat /\ SumBlocks(q) <= SumBlocks(p)
  BY SumBlocksMonotone, CorrelationMonotone
<1>4. /\ multiplier(q) \in 20..30 /\ multiplier(p) \in 20..30
      /\ multiplier(q) <= multiplier(p)
  BY <1>3, MultiplierMonotone
<1>5. Len(q) \in Nat /\ Len(p) \in Nat /\ Len(q) <= Len(p)
  BY DEF Embeds
<1>6. p = <<>> => q = <<>>
  BY <1>5
<1>7. 0 \in 0..100 * Point
  BY DEF Point
<1>8. CASE p = <<>>
  BY <1>2, <1>6, <1>7, <1>8 DEF Metrics
<1>9. CASE p # <<>>
  <2>1. LegPenalty[Len(p)] \in Nat
    BY <1>5, <1>9, ParlayAssumption
  <2>2. raw(p) \in Nat
    BY <1>3, <2>1
  <2>3. CASE q = <<>>
    <3>1. FinalFragility(raw(p), multiplier(p)) \in 0..100 * Point
      <4>1. multiplier(p) \in Nat
        BY <1>4
      <4> HIDE DEF raw, multiplier
      <4>2. raw(p) <= raw(p) /\ multiplier(p) <= multiplier(p)
        BY <2>2, <4>1
      <4> QED BY <2>2, <4>1, <4>2, FinalMonotone
    <3> HIDE DEF raw, multiplier, penalty
    <3> QED BY <1>1, <1>2, <1>3, <1>4, <1>7, <1>9, <2>3, <3>1 DEF Metrics
  <2>4. CASE q # <<>>
    <3>1. LegPenalty[Len(q)] \in Nat /\ LegPenalty[Len(q)] <= LegPenalty[Len(p)]
      <4>1. Len(q) \in 1..MaxLegs /\ Len(p) \in 1..MaxLegs
        BY <1>5, <1>9, <2>4, ParlayAssumption
      <4>2. CASE Len(q) = Len(p)
        BY <2>1, <4>2
      <4>3. CASE Len(q) < Len(p)
        <5>1. LegPenalty[Len(q)] < LegPenalty[Len(p)] /\ LegPenalty[Len(q)] \in Nat
          BY <4>1, <4>3, ParlayAssumption
        <5> QED BY <2>1, <5>1
      <4> QED BY <1>5, <4>2, <4>3
    <3>2. raw(q) \in Nat /\ raw(q) <= raw(p)
      <4>1. PICK a \in Nat, b \in Nat : a = penalty(q) /\ b = penalty(p) /\ a <= b
        BY <1>3
      <4>2. PICK s \in Nat, t \in Nat : s = SumBlocks(q) /\ t = SumBlocks(p) /\ s <= t
        BY <1>3
      <4>3. PICK x \in Nat, y \in Nat : x = LegPenalty[Len(q)] /\ y = LegPenalty[Len(p)] /\ x <= y
        BY <2>1, <3>1
      <4>4. raw(q) = s + x + 100 * a /\ raw(p) = t + y + 100 * b
        BY <4>1, <4>2, <4>3
      <4>5. a <= b /\ s <= t /\ x <= y
        BY <4>1, <4>2, <4>3
      <4>6. s + x + 100 * a \in Nat /\ s + x + 100 * a <= t + y + 100 * b
        BY ONLY <4>5, a \in Nat, b \in Nat, s \in Nat, t \in Nat, x \in Nat, y \in Nat
      <4> HIDE DEF raw
      <4> QED BY <4>4, <4>6
    <3>3. /\ FinalFragility(raw(q), multiplier(q)) \in 0..100 * Point
          /\ FinalFragility(raw(p), multiplier(p)) \in 0..100 * Point
          /\ FinalFragility(raw(q), multiplier(q)) <= FinalFragility(raw(p), multiplier(p))
      <4> HIDE DEF raw, multiplier
      <4>1. multiplier(q) \in Nat /\ multiplier(p) \in Nat
        BY <1>4
      <4> QED BY <1>4, <2>2, <3>2, <4>1, FinalMonotone
    <3> HIDE DEF raw, multiplier, penalty
    <3> QED BY <1>1, <1>3, <1>4, <1>9, <2>4, <3>3 DEF Metrics
  <2> QED BY <2>3, <2>4
<1> QED BY <1>8, <1>9

LEMMA InductorRanks ==
  /\ Rank(Inductors, "stable") = 1 /\ Rank(Inductors, "loaded") = 2
  /\ Rank(Inductors, "tense") = 3 /\ Rank(Inductors, "critical") = 4
<1> DEFINE Is(level, i) == Rank(Inductors, level) = i
<1>1. Len(Inductors) = 4 /\ 1..Len(Inductors) = {1, 2, 3, 4}
      BY DEF Inductors
<1>2. /\ Inductors[1] = "stable" /\ Inductors[2] = "loaded"
      /\ Inductors[3] = "tense" /\ Inductors[4] = "critical"
      BY DEF Inductors
<1>3. Is("stable", 1)
      BY <1>1, <1>2 DEF Rank
<1>4. Is("loaded", 2)
      BY <1>1, <1>2 DEF Rank
<1>5. Is("tense", 3)
      BY <1>1, <1>2 DEF Rank
<1>6. Is("critical", 4)
      BY <1>1, <1>2 DEF Rank
<1> QED BY <1>3, <1>4, <1>5, <1>6

LEMMA ActionRanks ==
  /\ Rank(Actions, "accept") = 1 /\ Rank(Actions, "reduce") = 2
  /\ Rank(Actions, "avoid") = 3
<1> DEFINE Is(level, i) == Rank(Actions, level) = i
<1>1. Len(Actions) = 3 /\ 1..Len(Actions) = {1, 2, 3}
      BY DEF Actions
<1>2. Actions[1] = "accept" /\ Actions[2] = "reduce" /\ Actions[3] = "avoid"
      BY DEF Actions
<1>3. Is("accept", 1)
      BY <1>1, <1>2 DEF Rank
<1>4. Is("reduce", 2)
      BY <1>1, <1>2 DEF Rank
<1>5. Is("avoid", 3)
      BY <1>1, <1>2 DEF Rank
<1> QED BY <1>3, <1>4, <1>5

InductorSet == {"stable", "loaded", "tense", "critical"}

\* The recommendation depends on the inductor and on whether there is a violation.
LEMMA RecommendationMonotone ==
  ASSUME NEW i \in InductorSet, NEW j \in InductorSet,
         NEW v \in BOOLEAN, NEW w \in BOOLEAN,
         Rank(Inductors, i) <= Rank(Inductors, j), v => w
  PROVE  Rank(Actions, ComputeRecommendation(i, v))
           <= Rank(Actions, ComputeRecommendation(j, w))
BY InductorRanks, ActionRanks DEF InductorSet, ComputeRecommendation, BaseAction

\* A parlay that is no less fragile, has no fewer legs, no lower correlation
\* penalty and no fewer violations is never recommended more warmly.
THEOREM RiskierNeverMilder ==
  ASSUME NEW f \in Int, NEW g \in Int, f <= g,
         NEW m \in Int, NEW n \in Int, m <= n,
         NEW p \in Int, NEW q \in Int, p <= q,
         NEW v \in BOOLEAN, NEW w \in BOOLEAN, v => w
  PROVE  /\ Rank(Inductors, ResolveInductor(f, m, p, v))
              <= Rank(Inductors, ResolveInductor(g, n, q, w))
         /\ Rank(Actions, ComputeRecommendation(ResolveInductor(f, m, p, v), v))
              <= Rank(Actions, ComputeRecommendation(ResolveInductor(g, n, q, w), w))
<1>1. ResolveInductor(f, m, p, v) \in InductorSet /\ ResolveInductor(g, n, q, w) \in InductorSet
      BY DEF ResolveInductor, InductorSet
<1>2. Rank(Inductors, ResolveInductor(f, m, p, v))
        <= Rank(Inductors, ResolveInductor(g, n, q, w))
      BY InductorRanks DEF ResolveInductor, Point
<1> QED BY <1>1, <1>2, RecommendationMonotone

-----------------------------------------------------------------------------
(* No silent downgrade.  An earlier response must be known to carry the    *)
(* action its own inductor and violations give: that is the invariant.     *)

Consistent(e) ==
  /\ e.inductor \in InductorSet
  /\ e.action = ComputeRecommendation(e.inductor, e.violations # {})

ResponseConsistent == response # None => Consistent(response)

LEMMA EvaluationConsistent ==
  ASSUME NEW p, NEW r
  PROVE  Consistent(EvaluateParlay(p, r))
BY DEF Consistent, EvaluateParlay, ResolveInductor, InductorSet

\* A worse recommendation comes from a worse inductor or from a violation
\* where there was none, and either one is reported.
LEMMA WorseIsReported ==
  ASSUME NEW old, NEW new, NEW impact \in BOOLEAN, old # None,
         Consistent(old), Consistent(new),
         Rank(Actions, new.action) > Rank(Actions, old.action)
  PROVE  {"risk_spike", "dna_enforced"} \cap ComputeAlerts(old, new, impact) # {}
<1> DEFINE v == new.violations # {}
           w == old.violations # {}
<1>1. /\ Rank(Inductors, old.inductor) \in Int /\ Rank(Inductors, new.inductor) \in Int
      /\ Rank(Actions, old.action) \in Int /\ Rank(Actions, new.action) \in Int
      BY InductorRanks, ActionRanks
         DEF Consistent, InductorSet, ComputeRecommendation, BaseAction
<1>2. CASE Rank(Inductors, new.inductor) > Rank(Inductors, old.inductor)
      <2>1. RiskSpike(old, new)
            BY <1>2 DEF RiskSpike
      <2>2. "risk_spike" \in ComputeAlerts(old, new, impact)
            BY <2>1 DEF ComputeAlerts
      <2> QED BY <2>2
<1>3. CASE v /\ ~w
      <2>1. DnaEnforced(old, new)
            BY <1>3 DEF DnaEnforced
      <2>2. "dna_enforced" \in ComputeAlerts(old, new, impact)
            BY <2>1 DEF ComputeAlerts
      <2> QED BY <2>2
<1>4. CASE Rank(Inductors, new.inductor) <= Rank(Inductors, old.inductor) /\ (v => w)
      <2>1. new.inductor \in InductorSet /\ old.inductor \in InductorSet
            BY DEF Consistent
      <2>2. v \in BOOLEAN /\ w \in BOOLEAN
            OBVIOUS
      <2> HIDE DEF v, w
      <2>3. Rank(Actions, ComputeRecommendation(new.inductor, v))
              <= Rank(Actions, ComputeRecommendation(old.inductor, w))
            BY <1>4, <2>1, <2>2, RecommendationMonotone
      <2>4. Rank(Actions, new.action) <= Rank(Actions, old.action)
            BY <2>3 DEF Consistent, v, w
      <2> QED BY <2>4, <1>1
<1> QED BY <1>1, <1>2, <1>3, <1>4

LEMMA ResponseConsistentInvariant == ParlaySpec => []ResponseConsistent
<1>1. ParlayInit => ResponseConsistent
      BY DEF ParlayInit, ResponseConsistent
<1>2. ResponseConsistent /\ [ParlayNext]_parlayVars => ResponseConsistent'
  <2> SUFFICES ASSUME ResponseConsistent, [ParlayNext]_parlayVars
               PROVE  ResponseConsistent'
      OBVIOUS
  <2>1. CASE UNCHANGED response
        BY <2>1 DEF ResponseConsistent, Consistent
  <2>2. ASSUME NEW r \in Requests, NEW impact \in BOOLEAN, EvaluateRequest(r, impact)
        PROVE  ResponseConsistent'
        <3>1. response' = EvaluateParlay(parlay, r)
              BY <2>2 DEF EvaluateRequest
        <3> QED BY <3>1, EvaluationConsistent DEF ResponseConsistent
  <2> QED BY <2>1, <2>2 DEF ParlayNext, parlayVars, AddBlock, RemoveBlock, ApplyContext, Edit
<1> QED BY <1>1, <1>2, PTL DEF ParlaySpec

\* When the recommendation gets worse between two evaluations, an alert says
\* so, whatever was edited in between.
THEOREM NeverASilentDowngrade == ParlaySpec => NoSilentDowngrade
<1> DEFINE Worse == /\ response # None /\ response' # None
                    /\ Rank(Actions, response'.action) > Rank(Actions, response.action)
           Reported == {"risk_spike", "dna_enforced"} \cap alerts' # {}
<1>1. ResponseConsistent /\ [ParlayNext]_parlayVars => [Worse => Reported]_parlayVars
  <2> SUFFICES ASSUME ResponseConsistent, ParlayNext, Worse
               PROVE  Reported
      OBVIOUS
  <2>1. CASE UNCHANGED response
        <3>1. Rank(Actions, response'.action) = Rank(Actions, response.action)
              BY <2>1
        <3>2. Rank(Actions, response.action) \in Int
              BY ActionRanks DEF ResponseConsistent, Consistent, ComputeRecommendation,
                                 BaseAction, InductorSet
        <3> QED BY <3>1, <3>2
  <2>2. ASSUME NEW r \in Requests, NEW impact \in BOOLEAN, EvaluateRequest(r, impact)
        PROVE  Reported
        <3>1. /\ response' = EvaluateParlay(parlay, r)
              /\ alerts' = ComputeAlerts(response, response', impact)
              BY <2>2 DEF EvaluateRequest
        <3>2. Consistent(response')
              BY <3>1, EvaluationConsistent
        <3>3. Consistent(response)
              BY DEF ResponseConsistent
        <3>4. {"risk_spike", "dna_enforced"} \cap ComputeAlerts(response, response', impact) # {}
              BY <3>2, <3>3, WorseIsReported
        <3> QED BY <3>1, <3>4
  <2> QED BY <2>1, <2>2 DEF ParlayNext, AddBlock, RemoveBlock, ApplyContext, Edit
<1> QED BY <1>1, ResponseConsistentInvariant, PTL DEF ParlaySpec, NoSilentDowngrade

-----------------------------------------------------------------------------
(* Suggestions respect the profile.                                        *)

\* The step of SuggestionsRespectProfile, for any sequence of blocks: adding a
\* leg marked compatible breaks no rule but, possibly, the tolerance.
LEMMA CompatibleLegBreaksNoRule ==
  ASSUME NEW S, parlay.blocks \in Seq(S), NEW id \in LegIds, AddBlock(id),
         NEW profile, profile.max_legs \in Int,
         DnaCompatible(Catalogue[id], Len(parlay.blocks), profile)
  PROVE  Violations(parlay', profile)
           \subseteq Violations(parlay, profile) \cup {"fragility_over_tolerance"}
<1> DEFINE b == [id |-> id, mods |-> Catalogue[id].mods]
           n == Len(parlay.blocks)
<1>1. parlay'.blocks = Append(parlay.blocks, b)
      BY DEF AddBlock, Edit, BuildParlayState
<1>2. /\ n \in Nat /\ Len(parlay'.blocks) = n + 1
      /\ parlay'.blocks[n + 1] = b
      /\ \A i \in 1..n : parlay'.blocks[i] = parlay.blocks[i]
  <2>1. parlay.blocks \in Seq(S \cup {b}) /\ b \in S \cup {b}
        OBVIOUS
  <2> QED BY <1>1, <2>1
<1>3. \A i \in 1..n + 1 : i # n + 1 => i \in 1..n
      BY <1>2
<1>4. "max_legs_exceeded" \notin Violations(parlay', profile)
      BY <1>2 DEF Violations, DnaCompatible
<1>5. ASSUME "props_not_allowed" \in Violations(parlay', profile)
      PROVE  "props_not_allowed" \in Violations(parlay, profile)
  <2>1. /\ profile.avoid_props
        /\ \E i \in 1..Len(parlay'.blocks) : Leg(parlay'.blocks[i]).type = "player_prop"
        BY <1>5 DEF Violations
  <2>2. Leg(b).type # "player_prop"
        BY <2>1 DEF DnaCompatible, Leg
  <2>3. \E i \in 1..n : Leg(parlay.blocks[i]).type = "player_prop"
        BY <1>2, <1>3, <2>1, <2>2
  <2> QED BY <2>1, <2>3 DEF Violations
<1>6. ASSUME "live_bets_not_allowed" \in Violations(parlay', profile)
      PROVE  "live_bets_not_allowed" \in Violations(parlay, profile)
  <2>1. /\ profile.avoid_live
        /\ \E i \in 1..Len(parlay'.blocks) : HasTag(Leg(parlay'.blocks[i]), {"live"})
        BY <1>6 DEF Violations
  <2>2. ~HasTag(Leg(b), {"live"})
        BY <2>1 DEF DnaCompatible, Leg
  <2>3. \E i \in 1..n : HasTag(Leg(parlay.blocks[i]), {"live"})
        BY <1>2, <1>3, <2>1, <2>2
  <2> QED BY <2>1, <2>3 DEF Violations
<1>7. Violations(parlay', profile) \subseteq {"fragility_over_tolerance", "max_legs_exceeded",
                                             "props_not_allowed", "live_bets_not_allowed"}
      BY DEF Violations
<1> QED BY <1>4, <1>5, <1>6, <1>7

-----------------------------------------------------------------------------
(* A parlay at least as risky.                                             *)

LEMMA DivAntitone ==
  ASSUME NEW a \in Nat, NEW b \in Nat \ {0}, NEW c \in Nat, b <= c
  PROVE  a \div b \in Nat /\ a \div c \in Nat /\ a \div c <= a \div b
<1>1. PICK x \in Int, y \in Int : x = a \div b /\ y = a \div c
  OBVIOUS
<1>2. /\ b * x <= a /\ a < b * (x + 1)
      /\ c * y <= a /\ a < c * (y + 1)
  BY <1>1
<1>3. x >= 0
  <2> SUFFICES ASSUME x + 1 <= 0
               PROVE  FALSE
      OBVIOUS
  <2>1. b * (x + 1) <= 0
    OBVIOUS
  <2> QED BY <1>2, <2>1
<1>4. y >= 0
  <2> SUFFICES ASSUME y + 1 <= 0
               PROVE  FALSE
      OBVIOUS
  <2>1. c * (y + 1) <= 0
    OBVIOUS
  <2> QED BY <1>2, <2>1
<1>5. y <= x
  <2> SUFFICES ASSUME x + 1 <= y
               PROVE  FALSE
      OBVIOUS
  <2>1. b * (x + 1) <= c * y
    BY <1>3, <1>4, TimesMonotone
  <2> QED BY <1>2, <2>1
<1> QED BY <1>1, <1>3, <1>4, <1>5

LEMMA DivAtMost ==
  ASSUME NEW a \in Nat, NEW b \in Nat, NEW c \in Nat \ {0}, b <= c
  PROVE  (a * b) \div c <= a
<1>1. PICK x \in Int : x = (a * b) \div c
  OBVIOUS
<1>2. a * b <= a * c /\ a * b \in Nat /\ a * c \in Nat
  BY TimesMonotone
<1>3. c * x <= a * b
  BY <1>1, <1>2
<1>4. x <= a
  <2> SUFFICES ASSUME a + 1 <= x
               PROVE  FALSE
      OBVIOUS
  <2>1. c * (a + 1) <= c * x
    BY TimesMonotone
  <2>2. c * (a + 1) = a * c + c
    OBVIOUS
  <2> QED BY <1>2, <1>3, <2>1, <2>2
<1> QED BY <1>1, <1>4

\* What EvaluateParlay reads of two parlays.
Riskier(p, q) ==
  /\ p.metrics \in Metrics /\ q.metrics \in Metrics
  /\ q.metrics.penalty <= p.metrics.penalty
  /\ q.metrics.final <= p.metrics.final
  /\ Len(q.blocks) \in Nat /\ Len(p.blocks) \in Nat /\ Len(q.blocks) <= Len(p.blocks)
  /\ \A i \in 1..Len(q.blocks) : Leg(q.blocks[i]) = Leg(p.blocks[i])

LEMMA RiskierNumbers ==
  ASSUME NEW p, NEW q, Riskier(p, q)
  PROVE  /\ p.metrics.final \in Nat /\ q.metrics.final \in Nat
         /\ q.metrics.final <= p.metrics.final
         /\ p.metrics.penalty \in Nat /\ q.metrics.penalty \in Nat
         /\ q.metrics.penalty <= p.metrics.penalty
<1>1. \A m \in Metrics : m.final \in 0..100 * Point /\ m.penalty \in Nat
  BY DEF Metrics
<1>2. \A i \in 0..100 * Point : i \in Nat
  <2>1. 100 * Point \in Int
    BY DEF Point
  <2> QED BY <2>1
<1> QED BY <1>1, <1>2 DEF Riskier

LEMMA StakeAntitone ==
  ASSUME NEW p, NEW q, Riskier(p, q), NEW r \in Requests, r.profile # None, r.bankroll # None
  PROVE  RecommendedStake(p, r.profile, r.bankroll) <= RecommendedStake(q, r.profile, r.bankroll)
<1> DEFINE limit == r.profile.tolerance * Point
<1>1. PICK cap \in Nat : cap = r.bankroll * r.profile.stake_pct
  <2>1. r.bankroll \in Nat /\ r.profile.stake_pct \in Nat
    BY RequestAssumption
  <2> QED BY <2>1
<1>2. PICK t \in Nat : t = limit
  BY RequestAssumption DEF Point
<1>3. PICK f \in Nat, g \in Nat : f = p.metrics.final /\ g = q.metrics.final /\ g <= f
  BY RiskierNumbers
<1>4. cap * r.profile.tolerance * Point = cap * t
  <2>1. r.profile.tolerance \in Nat
    BY RequestAssumption
  <2> QED BY <1>2, <2>1 DEF Point
<1>5. /\ RecommendedStake(p, r.profile, r.bankroll) = IF f > t THEN (cap * t) \div f ELSE cap
      /\ RecommendedStake(q, r.profile, r.bankroll) = IF g > t THEN (cap * t) \div g ELSE cap
  BY <1>1, <1>2, <1>3, <1>4 DEF RecommendedStake, OverTolerance
<1>6. cap * t \in Nat
  BY TimesMonotone
<1>7. CASE g > t
  <2>1. (cap * t) \div f <= (cap * t) \div g
    <3>1. g \in Nat \ {0} /\ f \in Nat /\ g <= f
      BY <1>3, <1>7
    <3> QED BY <1>6, <3>1, DivAntitone
  <2> QED BY <1>3, <1>5, <1>7, <2>1
<1>8. CASE ~(g > t) /\ f > t
  <2>1. (cap * t) \div f <= cap
    BY <1>8, DivAtMost
  <2> QED BY <1>5, <1>8, <2>1
<1>9. CASE ~(g > t) /\ ~(f > t)
  BY <1>5, <1>9
<1> QED BY <1>7, <1>8, <1>9

LEMMA ViolationsGrow ==
  ASSUME NEW p, NEW q, Riskier(p, q), NEW r \in Requests, r.profile # None
  PROVE  Violations(q, r.profile) \subseteq Violations(p, r.profile)
<1>1. OverTolerance(q, r.profile) => OverTolerance(p, r.profile)
  <2>1. PICK t \in Nat : t = r.profile.tolerance * Point
    BY RequestAssumption DEF Point
  <2>2. PICK f \in Nat, g \in Nat : f = p.metrics.final /\ g = q.metrics.final /\ g <= f
    BY RiskierNumbers
  <2>3. (OverTolerance(q, r.profile) <=> g > t) /\ (OverTolerance(p, r.profile) <=> f > t)
    BY <2>1, <2>2 DEF OverTolerance
  <2> QED BY <2>2, <2>3
<1>2. Len(q.blocks) > r.profile.max_legs => Len(p.blocks) > r.profile.max_legs
  BY RequestAssumption DEF Riskier
<1>3. \A i \in 1..Len(q.blocks) : i \in 1..Len(p.blocks) /\ Leg(q.blocks[i]) = Leg(p.blocks[i])
  BY DEF Riskier
<1>4. (\E i \in 1..Len(q.blocks) : Leg(q.blocks[i]).type = "player_prop")
        => \E i \in 1..Len(p.blocks) : Leg(p.blocks[i]).type = "player_prop"
  BY <1>3
<1>5. (\E i \in 1..Len(q.blocks) : HasTag(Leg(q.blocks[i]), {"live"}))
        => \E i \in 1..Len(p.blocks) : HasTag(Leg(p.blocks[i]), {"live"})
  BY <1>3
<1> QED BY <1>1, <1>2, <1>4, <1>5 DEF Violations

LEMMA SignalRanks ==
  /\ Rank(Signals, "blue") = 1 /\ Rank(Signals, "green") = 2
  /\ Rank(Signals, "yellow") = 3 /\ Rank(Signals, "red") = 4
<1> DEFINE Is(level, i) == Rank(Signals, level) = i
<1>1. Len(Signals) = 4 /\ 1..Len(Signals) = {1, 2, 3, 4}
      BY DEF Signals
<1>2. /\ Signals[1] = "blue" /\ Signals[2] = "green"
      /\ Signals[3] = "yellow" /\ Signals[4] = "red"
      BY DEF Signals
<1>3. Is("blue", 1)
      BY <1>1, <1>2 DEF Rank
<1>4. Is("green", 2)
      BY <1>1, <1>2 DEF Rank
<1>5. Is("yellow", 3)
      BY <1>1, <1>2 DEF Rank
<1>6. Is("red", 4)
      BY <1>1, <1>2 DEF Rank
<1> QED BY <1>3, <1>4, <1>5, <1>6

LEMMA SignalMonotone ==
  ASSUME NEW e, NEW d, e.metrics.final \in Nat, d.metrics.final \in Nat,
         d.metrics.final <= e.metrics.final,
         d.inductor = "critical" => e.inductor = "critical"
  PROVE  Rank(Signals, FragilityToSignal(d)) <= Rank(Signals, FragilityToSignal(e))
BY SignalRanks DEF FragilityToSignal, Point

\* Every threshold table between the metrics and what the client is told
\* points the same way: score, inductor, recommendation, signal, violations
\* and stake of a riskier parlay are no better.
LEMMA RiskierIsToldSo ==
  ASSUME NEW p, NEW q, Riskier(p, q)
  PROVE  AtLeastAsRisky(p, q)
<1> SUFFICES ASSUME NEW r \in Requests
             PROVE  LET ep == EvaluateParlay(p, r)
                        eq == EvaluateParlay(q, r)
                    IN  /\ ep.metrics.final >= eq.metrics.final
                        /\ ep.metrics.penalty >= eq.metrics.penalty
                        /\ Rank(Inductors, ep.inductor) >= Rank(Inductors, eq.inductor)
                        /\ Rank(Actions, ep.action) >= Rank(Actions, eq.action)
                        /\ Rank(Signals, FragilityToSignal(ep))
                             >= Rank(Signals, FragilityToSignal(eq))
                        /\ eq.violations \subseteq ep.violations
                        /\ eq.stake # None => ep.stake <= eq.stake
    BY DEF AtLeastAsRisky
<1> DEFINE enforced == r.profile # None /\ r.bankroll # None
           violations(s) == IF enforced THEN Violations(s, r.profile) ELSE {}
           inductor(s) == ResolveInductor(s.metrics.final, Len(s.blocks), s.metrics.penalty,
                                          violations(s) # {})
           e(s) == EvaluateParlay(s, r)
<1>1. \A s : /\ e(s).metrics = s.metrics /\ e(s).violations = violations(s)
             /\ e(s).inductor = inductor(s)
             /\ e(s).action = ComputeRecommendation(inductor(s), violations(s) # {})
             /\ e(s).stake = IF enforced THEN RecommendedStake(s, r.profile, r.bankroll) ELSE None
  BY DEF EvaluateParlay
<1>2. PICK f \in Nat, g \in Nat : f = p.metrics.final /\ g = q.metrics.final /\ g <= f
  BY RiskierNumbers
<1>3. PICK m \in Nat, n \in Nat : m = p.metrics.penalty /\ n = q.metrics.penalty /\ n <= m
  BY RiskierNumbers
<1>4. PICK k \in Nat, l \in Nat : k = Len(p.blocks) /\ l = Len(q.blocks) /\ l <= k
  BY DEF Riskier
<1>5. violations(q) \subseteq violations(p)
  BY ViolationsGrow
<1>6. PICK v \in BOOLEAN, w \in BOOLEAN :
        v = (violations(p) # {}) /\ w = (violations(q) # {}) /\ (w => v)
  BY <1>5
<1>7. inductor(p) = ResolveInductor(f, k, m, v) /\ inductor(q) = ResolveInductor(g, l, n, w)
  BY <1>2, <1>3, <1>4, <1>6
<1>8. /\ Rank(Inductors, inductor(q)) <= Rank(Inductors, inductor(p))
      /\ Rank(Actions, ComputeRecommendation(inductor(q), w))
           <= Rank(Actions, ComputeRecommendation(inductor(p), v))
  <2>1. /\ f \in Int /\ g \in Int /\ g <= f /\ k \in Int /\ l \in Int /\ l <= k
        /\ m \in Int /\ n \in Int /\ n <= m
    BY <1>2, <1>3, <1>4
  <2>2. v \in BOOLEAN /\ w \in BOOLEAN /\ (w => v)
    BY <1>6
  <2>3. /\ Rank(Inductors, ResolveInductor(g, l, n, w))
             <= Rank(Inductors, ResolveInductor(f, k, m, v))
        /\ Rank(Actions, ComputeRecommendation(ResolveInductor(g, l, n, w), w))
             <= Rank(Actions, ComputeRecommendation(ResolveInductor(f, k, m, v), v))
    BY ONLY <2>1, <2>2, RiskierNeverMilder
  <2> HIDE DEF inductor, violations
  <2> QED BY <1>7, <2>3
<1>9. inductor(q) \in InductorSet /\ inductor(p) \in InductorSet
  <2> HIDE DEF inductor, violations
  <2> QED BY <1>7 DEF ResolveInductor, InductorSet
<1>10. inductor(q) = "critical" => inductor(p) = "critical"
  <2> HIDE DEF inductor, violations
  <2> QED BY <1>8, <1>9, InductorRanks DEF InductorSet
<1>11. Rank(Signals, FragilityToSignal(e(q))) <= Rank(Signals, FragilityToSignal(e(p)))
  <2>1. /\ e(p).metrics.final \in Nat /\ e(q).metrics.final \in Nat
        /\ e(q).metrics.final <= e(p).metrics.final
        /\ e(q).inductor = "critical" => e(p).inductor = "critical"
    <3> HIDE DEF e, inductor
    <3> QED BY <1>1, <1>2, <1>10
  <2> HIDE DEF e, inductor
  <2> QED BY <2>1, SignalMonotone
<1>12. e(q).stake # None => e(p).stake <= e(q).stake
  <2>1. enforced => RecommendedStake(p, r.profile, r.bankroll)
                      <= RecommendedStake(q, r.profile, r.bankroll)
    BY StakeAntitone
  <2> HIDE DEF e, inductor
  <2> QED BY <1>1, <2>1
<1>13. /\ Rank(Inductors, e(q).inductor) <= Rank(Inductors, e(p).inductor)
       /\ Rank(Actions, e(q).action) <= Rank(Actions, e(p).action)
  <2>1. /\ e(q).action = ComputeRecommendation(inductor(q), w)
        /\ e(p).action = ComputeRecommendation(inductor(p), v)
    BY <1>1, <1>6
  <2> HIDE DEF e, inductor, violations
  <2> QED BY <1>1, <1>8, <2>1
<1>14. /\ e(q).metrics.final <= e(p).metrics.final /\ e(q).metrics.penalty <= e(p).metrics.penalty
       /\ e(q).violations \subseteq e(p).violations
  <2> HIDE DEF e, violations, inductor
  <2> QED BY <1>1, <1>2, <1>3, <1>5
<1>15. /\ Rank(Inductors, e(q).inductor) \in Int /\ Rank(Inductors, e(p).inductor) \in Int
       /\ Rank(Actions, e(q).action) \in Int /\ Rank(Actions, e(p).action) \in Int
       /\ e(q).metrics.final \in Int /\ e(p).metrics.final \in Int
       /\ e(q).metrics.penalty \in Int /\ e(p).metrics.penalty \in Int
  <2>1. \A s : inductor(s) \in InductorSet
    BY DEF ResolveInductor, InductorSet
  <2>2. \A i \in InductorSet :
          /\ Rank(Inductors, i) \in Int
          /\ \A b \in BOOLEAN : Rank(Actions, ComputeRecommendation(i, b)) \in Int
    BY InductorRanks, ActionRanks DEF InductorSet, ComputeRecommendation, BaseAction
  <2>3. \A s : (violations(s) # {}) \in BOOLEAN
    OBVIOUS
  <2> HIDE DEF violations, inductor
  <2>4. \A s : /\ Rank(Inductors, inductor(s)) \in Int
               /\ Rank(Actions, ComputeRecommendation(inductor(s), violations(s) # {})) \in Int
    BY <2>1, <2>2, <2>3
  <2> HIDE DEF e
  <2>5. /\ Rank(Inductors, e(q).inductor) \in Int /\ Rank(Inductors, e(p).inductor) \in Int
        /\ Rank(Actions, e(q).action) \in Int /\ Rank(Actions, e(p).action) \in Int
    BY <1>1, <2>4
  <2>6. /\ e(q).metrics.final \in Int /\ e(p).metrics.final \in Int
        /\ e(q).metrics.penalty \in Int /\ e(p).metrics.penalty \in Int
    BY <1>1, <1>2, <1>3
  <2> QED BY <2>5, <2>6
<1>16. \A d : Rank(Signals, FragilityToSignal(d)) \in Int
  BY SignalRanks DEF FragilityToSignal
<1> QED
  <2> HIDE DEF inductor, violations
  <2> QED BY <1>11, <1>12, <1>13, <1>14, <1>15, <1>16

-----------------------------------------------------------------------------
(* Signals.                                                                *)

LEMMA SignalDeltaNat == \A s : SignalDelta(s) \in Nat /\ RoleShare(s) \in Nat
BY DEF SignalDelta, WeatherDelta, InjuryDelta, RoleShare

\* What the i-th signal of a batch adds to a modifier, before the cap.
Share(s, kind) == IF kind = "role" THEN RoleShare(s) ELSE SignalDelta(s)
Adding(batch, a, kind) == {i \in Matching(batch, a) : kind = "role" \/ batch[i].type = kind}
Shares(batch, kind) == [i \in 1..Len(batch) |-> Share(batch[i], kind)]
Uncapped(batch, a, kind) == SumFunctionOnSet(Shares(batch, kind), Adding(batch, a, kind))

LEMMA AddingFinite ==
  ASSUME NEW batch, Len(batch) \in Nat, NEW a, NEW kind
  PROVE  /\ Adding(batch, a, kind) \subseteq 1..Len(batch)
         /\ IsFiniteSet(Adding(batch, a, kind))
         /\ \A i \in 1..Len(batch) : Shares(batch, kind)[i] \in Nat
         /\ Uncapped(batch, a, kind) \in Nat
<1>1. Adding(batch, a, kind) \subseteq 1..Len(batch)
  BY DEF Adding, Matching
<1>2. IsFiniteSet(Adding(batch, a, kind))
  <2> DEFINE N == 1..Len(batch)
  <2>1. IsFiniteSet(N) /\ Adding(batch, a, kind) \in SUBSET N
    BY <1>1, FS_Interval
  <2> HIDE DEF N
  <2> QED BY <2>1, FS_Subset
<1>3. \A i \in 1..Len(batch) : Shares(batch, kind)[i] \in Nat
  BY SignalDeltaNat DEF Shares, Share
<1>4. Uncapped(batch, a, kind) \in Nat
  BY <1>1, <1>2, <1>3, SumIsNat DEF Uncapped
<1> QED BY <1>1, <1>2, <1>3, <1>4

LEMMA TotalIs ==
  ASSUME NEW batch, Len(batch) \in Nat, NEW a, NEW kind
  PROVE  Total(batch, a, kind) = IF kind = "role" THEN Capped(Uncapped(batch, a, kind))
                                 ELSE Uncapped(batch, a, kind)
<1> DEFINE S == Adding(batch, a, kind)
           f == [i \in S |-> Share(batch[i], kind)]
           g == Shares(batch, kind)
<1>1. \A i \in S : f[i] \in Nat /\ f[i] = g[i]
  BY AddingFinite DEF Shares
<1>2. SumFunctionOnSet(f, S) = SumFunctionOnSet(g, S)
  <2>1. IsFiniteSet(S)
    BY AddingFinite
  <2> HIDE DEF f, g, S
  <2> QED BY <1>1, <2>1, SumEqual
<1>3. SumFunction(f) = SumFunctionOnSet(f, S)
  BY DEF SumFunction
<1>4. CASE kind = "role"
  <2>1. f = [i \in Matching(batch, a) |-> RoleShare(batch[i])]
    BY <1>4 DEF Adding, Share
  <2>2. Total(batch, a, kind) = Capped(SumFunction(f))
    BY <1>4, <2>1 DEF Total
  <2> HIDE DEF f
  <2> QED BY <1>2, <1>3, <1>4, <2>2 DEF Uncapped
<1>5. CASE kind # "role"
  <2>1. f = [i \in {i \in Matching(batch, a) : batch[i].type = kind} |-> SignalDelta(batch[i])]
    BY <1>5 DEF Adding, Share
  <2>2. Total(batch, a, kind) = SumFunction(f)
    BY <1>5, <2>1 DEF Total
  <2> HIDE DEF f
  <2> QED BY <1>2, <1>3, <1>5, <2>2 DEF Uncapped
<1> QED BY <1>4, <1>5

LEMMA TotalNat ==
  ASSUME NEW batch, Len(batch) \in Nat, NEW a, NEW kind
  PROVE  /\ Total(batch, a, kind) \in Nat
         /\ Matching(batch, a) = {} => Total(batch, a, kind) = 0
<1>1. PICK n \in Nat : n = Uncapped(batch, a, kind)
  BY AddingFinite
<1>2. Total(batch, a, kind) = IF kind = "role" THEN Capped(n) ELSE n
  BY <1>1, TotalIs
<1>3. Matching(batch, a) = {} => n = 0
  <2>1. Matching(batch, a) = {} => Adding(batch, a, kind) = {}
    BY DEF Adding
  <2> QED BY <1>1, <2>1, SumOfNone DEF Uncapped
<1> QED BY <1>2, <1>3 DEF Capped

Modifier == [applied : BOOLEAN, delta : Nat]

\* A merge takes nothing away but what is above the cap on the role delta.
LEMMA MergeGrows ==
  ASSUME NEW old \in Modifier, NEW kind, NEW delta \in Nat
  PROVE  /\ Merge(old, kind, delta) \in Modifier
         /\ old.applied => Merge(old, kind, delta).applied
         /\ (IF kind = "role" THEN Capped(old.delta) ELSE old.delta)
              <= Merge(old, kind, delta).delta
<1>1. old.applied \in BOOLEAN
  BY DEF Modifier
<1>2. PICK d \in Nat : d = old.delta
  BY DEF Modifier
<1>3. PICK e : e = IF kind = "role" THEN Capped(d + delta) ELSE d + delta
  OBVIOUS
<1>4. e \in Nat /\ (IF kind = "role" THEN Capped(d) ELSE d) <= e
  BY <1>2, <1>3 DEF Capped
<1>5. Merge(old, kind, delta) = [applied |-> (old.applied \/ delta > 0), delta |-> e]
  BY <1>2, <1>3 DEF Merge
<1> QED BY <1>1, <1>2, <1>4, <1>5 DEF Modifier

\* The cap on what a batch adds and the cap on the sum do not interfere.
LEMMA MergeTwice ==
  ASSUME NEW old \in Modifier, NEW kind, NEW x \in Nat, NEW y \in Nat
  PROVE  LET cap(d) == IF kind = "role" THEN Capped(d) ELSE d
         IN  Merge(Merge(old, kind, cap(x)), kind, cap(y)) = Merge(old, kind, cap(x + y))
<1> DEFINE cap(d) == IF kind = "role" THEN Capped(d) ELSE d
<1>1. \A d \in Nat : cap(d) \in Nat /\ (cap(d) > 0 <=> d > 0)
  BY DEF Capped
<1>2. PICK d \in Nat : d = old.delta
  BY DEF Modifier
<1>3. \A m, e : Merge(m, kind, e) = [applied |-> (m.applied \/ e > 0), delta |-> cap(m.delta + e)]
  BY DEF Merge
<1>4. cap(cap(d + cap(x)) + cap(y)) = cap(d + cap(x + y))
  BY DEF Capped
<1>5. (old.applied \/ cap(x) > 0) \/ cap(y) > 0 <=> old.applied \/ cap(x + y) > 0
  <2>1. cap(x) > 0 \/ cap(y) > 0 <=> cap(x + y) > 0
    BY <1>1
  <2> QED BY <2>1
<1> DEFINE a == old.applied \/ cap(x) > 0
           b == a \/ cap(y) > 0
           c == old.applied \/ cap(x + y) > 0
<1>6. b = c
  <2>1. b \in BOOLEAN /\ c \in BOOLEAN /\ (b <=> c)
    BY <1>5
  <2> HIDE DEF b, c
  <2> QED BY <2>1
<1>7. Merge(old, kind, cap(x)) = [applied |-> a, delta |-> cap(d + cap(x))]
  <2> HIDE DEF cap
  <2> QED BY <1>2, <1>3
<1>8. Merge(Merge(old, kind, cap(x)), kind, cap(y))
        = [applied |-> b, delta |-> cap(cap(d + cap(x)) + cap(y))]
  <2> HIDE DEF cap, a
  <2> QED BY <1>3, <1>7
<1>9. Merge(old, kind, cap(x + y)) = [applied |-> c, delta |-> cap(d + cap(x + y))]
  <2> HIDE DEF cap
  <2> QED BY <1>2, <1>3
<1> HIDE DEF b, c
<1> QED BY <1>4, <1>6, <1>8, <1>9

\* A leg no signal matches is left alone, even by the cap.
LEMMA ApplyIs ==
  ASSUME NEW batch, NEW b \in Block
  PROVE  ApplyToBlock(batch, b)
           = [id |-> b.id,
              mods |-> IF Matching(batch, Leg(b)) = {} THEN b.mods
                       ELSE [k \in Kinds |-> Merge(b.mods[k], k, Total(batch, Leg(b), k))]]
<1> DEFINE merged == [k \in Kinds |-> Merge(b.mods[k], k, Total(batch, Leg(b), k))]
<1>1. b = [id |-> b.id, mods |-> b.mods]
  BY DEF Block
<1>2. CASE Matching(batch, Leg(b)) = {}
  BY <1>1, <1>2 DEF ApplyToBlock
<1>3. CASE Matching(batch, Leg(b)) # {}
  <2>1. ApplyToBlock(batch, b) = [b EXCEPT !.mods = merged]
    BY <1>3 DEF ApplyToBlock
  <2> HIDE DEF merged
  <2> QED BY <1>1, <1>3, <2>1 DEF merged
<1> QED BY <1>2, <1>3

\* A block as it would be had its role delta been posted within the cap.
Lowered(b) == [b EXCEPT !.mods["role"].delta = Capped(@)]

LEMMA LoweredIs ==
  ASSUME NEW b \in Block
  PROVE  /\ Lowered(b) \in Block /\ Lowered(b).id = b.id
         /\ \A k \in Kinds :
              /\ Lowered(b).mods[k].applied = b.mods[k].applied
              /\ Lowered(b).mods[k].delta
                   = IF k = "role" THEN Capped(b.mods[k].delta) ELSE b.mods[k].delta
         /\ b.mods["role"].delta <= 10 => Lowered(b) = b
<1>1. b = [id |-> b.id, mods |-> b.mods] /\ b.id \in LegIds /\ b.mods \in [Kinds -> Modifier]
  BY DEF Block, Modifiers, Modifier
<1>2. "role" \in Kinds
  BY DEF Kinds
<1>3. PICK m \in Modifier : m = b.mods["role"]
  BY <1>1, <1>2
<1>4. m = [applied |-> m.applied, delta |-> m.delta] /\ m.applied \in BOOLEAN /\ m.delta \in Nat
  BY DEF Modifier
<1>5. PICK n : n = [m EXCEPT !.delta = Capped(@)]
  OBVIOUS
<1>6. n = [applied |-> m.applied, delta |-> Capped(m.delta)] /\ Capped(m.delta) \in Nat
  BY <1>4, <1>5 DEF Capped
<1>7. Lowered(b) = [b EXCEPT !.mods = [b.mods EXCEPT !["role"] = n]]
  BY <1>1, <1>2, <1>3, <1>5 DEF Lowered
<1>8. Lowered(b) = [id |-> b.id, mods |-> [b.mods EXCEPT !["role"] = n]]
  BY <1>1, <1>7
<1>9. n \in Modifier
  BY <1>4, <1>6 DEF Modifier
<1>10. [b.mods EXCEPT !["role"] = n] \in [Kinds -> Modifier]
  BY <1>1, <1>9
<1>11. Lowered(b) \in Block /\ Lowered(b).id = b.id
  BY <1>1, <1>8, <1>10 DEF Block, Modifiers, Modifier
<1>12. \A k \in Kinds : Lowered(b).mods[k] = IF k = "role" THEN n ELSE b.mods[k]
  BY <1>1, <1>8
<1>13. m.delta <= 10 => n = m
  BY <1>4, <1>6 DEF Capped
<1>14. m.delta <= 10 => [b.mods EXCEPT !["role"] = n] = b.mods
  BY <1>1, <1>3, <1>13
<1> QED BY <1>1, <1>3, <1>6, <1>8, <1>11, <1>12, <1>14

\* A block whose modifiers are applied where another's are, with no smaller a
\* delta, is at least as fragile.
LEMMA EffectiveGrows ==
  ASSUME NEW b \in Block, NEW c \in Block, c.id = b.id,
         \A k \in Kinds : /\ b.mods[k].applied => c.mods[k].applied
                          /\ b.mods[k].delta <= c.mods[k].delta
  PROVE  EffectiveFragility(b) <= EffectiveFragility(c)
<1>1. b.id \in LegIds /\ b.mods \in [Kinds -> Modifier] /\ c.mods \in [Kinds -> Modifier]
  BY DEF Block, Modifiers, Modifier
<1> DEFINE S == {k \in Kinds : b.mods[k].applied}
           T == {k \in Kinds : c.mods[k].applied}
           f == [k \in S |-> b.mods[k].delta]
           g == [k \in T |-> c.mods[k].delta]
<1>2. IsFiniteSet(S) /\ IsFiniteSet(T) /\ S \subseteq T
  BY KindsFinite, FS_Subset
<1>3. \A k \in S : f[k] \in Nat /\ f[k] <= g[k]
  BY <1>1, <1>2 DEF Modifier
<1>4. \A k \in T : g[k] \in Nat
  BY <1>1 DEF Modifier
<1>5. /\ EffectiveFragility(b) = Leg(b).base + 100 * SumFunctionOnSet(f, S)
      /\ EffectiveFragility(c) = Leg(b).base + 100 * SumFunctionOnSet(g, T)
  BY DEF EffectiveFragility, SumFunction, Leg
<1>6. PICK n \in Nat : n = Leg(b).base
  BY <1>1, CatalogueAssumption DEF Leg
<1> HIDE DEF f, g, S, T
<1>7. PICK x \in Nat, y \in Nat :
        x = SumFunctionOnSet(f, S) /\ y = SumFunctionOnSet(g, T) /\ x <= y
  BY <1>2, <1>3, <1>4, SumIsNat, SumMonotone
<1>8. n + 100 * x <= n + 100 * y
  BY <1>7
<1> QED BY <1>5, <1>6, <1>7, <1>8

\* Signals leave a block at least as fragile as it would be within the cap.
LEMMA ApplyGrows ==
  ASSUME NEW batch, Len(batch) \in Nat, NEW b \in Block
  PROVE  /\ ApplyToBlock(batch, b) \in Block
         /\ ApplyToBlock(batch, b).id = b.id
         /\ EffectiveFragility(Lowered(b)) <= EffectiveFragility(ApplyToBlock(batch, b))
         /\ b.mods["role"].delta <= 10
              => EffectiveFragility(b) <= EffectiveFragility(ApplyToBlock(batch, b))
<1> DEFINE c == ApplyToBlock(batch, b)
           u == Lowered(b)
           capped(k) == IF k = "role" THEN Capped(b.mods[k].delta) ELSE b.mods[k].delta
<1>1. b.id \in LegIds /\ b.mods \in [Kinds -> Modifier]
  BY DEF Block, Modifiers, Modifier
<1>2. /\ c.id = b.id /\ c = [id |-> c.id, mods |-> c.mods]
      /\ c.mods = IF Matching(batch, Leg(b)) = {} THEN b.mods
                  ELSE [k \in Kinds |-> Merge(b.mods[k], k, Total(batch, Leg(b), k))]
  BY ApplyIs
<1>3. /\ u \in Block /\ u.id = b.id /\ (b.mods["role"].delta <= 10 => u = b)
      /\ \A k \in Kinds : u.mods[k].applied = b.mods[k].applied /\ u.mods[k].delta = capped(k)
  BY LoweredIs
<1> HIDE DEF c, u
<1>4. ASSUME NEW k \in Kinds
      PROVE  /\ c.mods[k] \in Modifier
             /\ b.mods[k].applied => c.mods[k].applied
             /\ capped(k) <= c.mods[k].delta
  <2>1. b.mods[k] \in Modifier
    BY <1>1
  <2>2. CASE Matching(batch, Leg(b)) = {}
    <3>1. c.mods[k] = b.mods[k] /\ b.mods[k].delta \in Nat
      BY <1>2, <2>1, <2>2 DEF Modifier
    <3> QED BY <2>1, <3>1 DEF Capped
  <2>3. CASE Matching(batch, Leg(b)) # {}
    <3>1. PICK t \in Nat : t = Total(batch, Leg(b), k)
      BY TotalNat
    <3>2. c.mods[k] = Merge(b.mods[k], k, t)
      BY <1>2, <2>3, <3>1
    <3> QED BY <2>1, <3>2, MergeGrows
  <2> QED BY <2>2, <2>3
<1> HIDE DEF capped
<1>5. c.mods \in [Kinds -> Modifier]
  <2>1. CASE Matching(batch, Leg(b)) = {}
    BY <1>1, <1>2, <2>1
  <2>2. CASE Matching(batch, Leg(b)) # {}
    BY <1>2, <1>4, <2>2
  <2> QED BY <2>1, <2>2
<1>6. c \in Block
  BY <1>1, <1>2, <1>5 DEF Block, Modifiers, Modifier
<1>7. EffectiveFragility(u) <= EffectiveFragility(c)
  <2>1. c.id = u.id
    BY <1>2, <1>3
  <2>2. \A k \in Kinds : /\ u.mods[k].applied => c.mods[k].applied
                         /\ u.mods[k].delta <= c.mods[k].delta
    BY <1>3, <1>4
  <2> QED BY <1>3, <1>6, <2>1, <2>2, EffectiveGrows
<1> QED BY <1>2, <1>3, <1>6, <1>7 DEF c, u

-----------------------------------------------------------------------------
(* One batch or two.                                                       *)

LEMMA UncappedAdds ==
  ASSUME NEW S, NEW first \in Seq(S), NEW second \in Seq(S), NEW a, NEW kind
  PROVE  Uncapped(first \o second, a, kind)
           = Uncapped(first, a, kind) + Uncapped(second, a, kind)
<1> DEFINE n == Len(first)
           both == first \o second
           A == Adding(first, a, kind)
           B == Adding(second, a, kind)
           h == [i \in B |-> n + i]
           C == {h[i] : i \in B}
           f == Shares(first, kind)
           s == Shares(second, kind)
           g == Shares(both, kind)
<1>1. /\ n \in Nat /\ Len(second) \in Nat /\ Len(both) = n + Len(second)
      /\ \A i \in 1..n : both[i] = first[i]
      /\ \A i \in 1..Len(second) : both[n + i] = second[i]
  OBVIOUS
<1>2. /\ A \subseteq 1..n /\ B \subseteq 1..Len(second)
      /\ IsFiniteSet(A) /\ IsFiniteSet(B)
      /\ \A i \in 1..n : f[i] \in Nat
      /\ \A i \in 1..Len(second) : s[i] \in Nat
      /\ \A i \in 1..Len(both) : g[i] \in Nat
  <2>1. Len(both) \in Nat
    BY <1>1
  <2> HIDE DEF both
  <2>2. A \subseteq 1..n /\ IsFiniteSet(A) /\ \A i \in 1..n : f[i] \in Nat
    BY <1>1, AddingFinite
  <2>3. /\ B \subseteq 1..Len(second) /\ IsFiniteSet(B)
        /\ \A i \in 1..Len(second) : s[i] \in Nat
    BY <1>1, AddingFinite
  <2>4. \A i \in 1..Len(both) : g[i] \in Nat
    BY <2>1, AddingFinite
  <2> QED BY <2>2, <2>3, <2>4
<1>3. \A i \in 1..Len(both) : i \in 1..n \/ \E j \in 1..Len(second) : i = n + j
  <2> SUFFICES ASSUME NEW i \in 1..Len(both), i \notin 1..n
               PROVE  \E j \in 1..Len(second) : i = n + j
      OBVIOUS
  <2>1. i - n \in 1..Len(second) /\ i = n + (i - n)
    BY <1>1
  <2> QED BY <2>1
<1>4. /\ \A i \in 1..n : i \in Adding(both, a, kind) <=> i \in A
      /\ \A i \in 1..Len(second) : n + i \in Adding(both, a, kind) <=> i \in B
  <2>1. \A i \in 1..n : i \in 1..Len(both)
    BY <1>1
  <2>2. \A i \in 1..Len(second) : n + i \in 1..Len(both)
    BY <1>1
  <2>3. \A i : i \in Adding(both, a, kind) <=>
                /\ i \in 1..Len(both) /\ SignalDelta(both[i]) > 0 /\ Matches(both[i], a)
                /\ kind = "role" \/ both[i].type = kind
    BY DEF Adding, Matching
  <2>4. \A i : i \in A <=>
                /\ i \in 1..n /\ SignalDelta(first[i]) > 0 /\ Matches(first[i], a)
                /\ kind = "role" \/ first[i].type = kind
    BY DEF Adding, Matching
  <2>5. \A i : i \in B <=>
                /\ i \in 1..Len(second) /\ SignalDelta(second[i]) > 0 /\ Matches(second[i], a)
                /\ kind = "role" \/ second[i].type = kind
    BY DEF Adding, Matching
  <2> HIDE DEF both, n, A, B
  <2>6. \A i \in 1..n : i \in Adding(both, a, kind) <=> i \in A
    BY <1>1, <2>1, <2>3, <2>4
  <2>7. \A i \in 1..Len(second) : n + i \in Adding(both, a, kind) <=> i \in B
    <3> SUFFICES ASSUME NEW i \in 1..Len(second)
                 PROVE  n + i \in Adding(both, a, kind) <=> i \in B
        OBVIOUS
    <3>1. PICK j : j = n + i /\ j \in 1..Len(both) /\ both[j] = second[i]
      BY <1>1, <2>2
    <3> QED BY <2>3, <2>5, <3>1
  <2> QED BY <2>6, <2>7
<1>5. Adding(both, a, kind) = A \cup C
  <2>1. Adding(both, a, kind) \subseteq 1..Len(both)
    BY DEF Adding, Matching
  <2>2. \A i \in Adding(both, a, kind) : i \in A \cup C
    <3> SUFFICES ASSUME NEW i \in Adding(both, a, kind)
                 PROVE  i \in A \cup C
        OBVIOUS
    <3>1. CASE i \in 1..n
      <4> HIDE DEF A, C
      <4> QED BY <1>4, <3>1
    <3>2. CASE \E j \in 1..Len(second) : i = n + j
      <4>1. PICK j \in 1..Len(second) : i = n + j
        BY <3>2
      <4>2. j \in B
        <5> HIDE DEF B, n, both
        <5> QED BY <1>4, <4>1
      <4>3. h[j] = i
        BY <4>1, <4>2
      <4> HIDE DEF B, h
      <4> QED BY <4>2, <4>3
    <3> QED BY <1>3, <2>1, <3>1, <3>2
  <2>3. \A i \in A : i \in Adding(both, a, kind)
    BY <1>2, <1>4
  <2>4. \A i \in C : i \in Adding(both, a, kind)
    <3> SUFFICES ASSUME NEW j \in B
                 PROVE  n + j \in Adding(both, a, kind)
        OBVIOUS
    <3> HIDE DEF B, both, n
    <3> QED BY <1>2, <1>4
  <2> HIDE DEF A, C, both
  <2> QED BY <2>2, <2>3, <2>4
<1>6. \A i \in C : i \in Int /\ i > n /\ i \in 1..Len(both)
  BY <1>1, <1>2
<1>7. A \cap C = {}
  <2> HIDE DEF A, C
  <2> QED BY <1>1, <1>2, <1>6
<1>8. \A i \in A : f[i] = g[i]
  BY <1>1, <1>2 DEF Shares
<1>9. \A i \in B : s[i] = g[h[i]]
  <2>1. \A i \in B : h[i] = n + i /\ n + i \in 1..Len(both)
    BY <1>1, <1>2
  <2> HIDE DEF h, both, n, B
  <2> QED BY <1>1, <1>2, <2>1 DEF Shares
<1>10. \A i, j \in B : h[i] = h[j] => i = j
  BY <1>1, <1>2
<1>11. IsFiniteSet(C)
  <2>1. C \subseteq 1..Len(both)
    BY <1>6
  <2> DEFINE N == 1..Len(both)
  <2>2. IsFiniteSet(N) /\ C \in SUBSET N
    <3>1. Len(both) \in Int /\ 1 \in Int
      BY <1>1
    <3>2. IsFiniteSet(N)
      BY ONLY <3>1, FS_Interval
    <3> HIDE DEF C, N
    <3> QED BY <2>1, <3>2 DEF N
  <2> HIDE DEF C, N
  <2> QED BY <2>2, FS_Subset
<1>12. SumFunctionOnSet(s, B) = SumFunctionOnSet(g, C)
  <2>1. \A i \in B : s[i] \in Nat /\ s[i] = g[h[i]]
    BY <1>2, <1>9
  <2>2. (\A i \in B : h[i] \in C) /\ (\A j \in C : \E i \in B : j = h[i])
    OBVIOUS
  <2> HIDE DEF s, g, h, B, C
  <2> QED
    <3>1. IsFiniteSet(B)
      BY <1>2
    <3>2. \A x, y \in B : h[x] = h[y] => x = y
      BY <1>10
    <3> QED BY ONLY <2>1, <2>2, <3>1, <3>2, SumRenamed
<1>13. SumFunctionOnSet(f, A) = SumFunctionOnSet(g, A)
  <2>1. \A i \in A : f[i] \in Nat /\ f[i] = g[i]
    BY <1>2, <1>8
  <2> HIDE DEF f, g, A
  <2> QED BY <1>2, <2>1, SumEqual
<1>14. SumFunctionOnSet(g, A \cup C) = SumFunctionOnSet(g, A) + SumFunctionOnSet(g, C)
  <2>1. \A i \in A \cup C : g[i] \in Nat
    BY <1>1, <1>2, <1>6
  <2> HIDE DEF g, A, C
  <2> QED BY <1>2, <1>7, <1>11, <2>1, SumSplits
<1> HIDE DEF A, B, C, f, s, g
<1> QED BY <1>5, <1>12, <1>13, <1>14 DEF Uncapped, A, B, f, s, g

\* The modifiers of a leg after a batch.
Joined(batch, a, mods) ==
  IF Matching(batch, a) = {} THEN mods
  ELSE [k \in Kinds |-> Merge(mods[k], k, Total(batch, a, k))]

LEMMA UncappedOfNone ==
  ASSUME NEW batch, NEW a, NEW kind, Matching(batch, a) = {}
  PROVE  Uncapped(batch, a, kind) = 0
<1>1. Adding(batch, a, kind) = {}
  BY DEF Adding
<1> QED BY <1>1, SumOfNone DEF Uncapped

LEMMA MatchingJoins ==
  ASSUME NEW S, NEW first \in Seq(S), NEW second \in Seq(S), NEW a
  PROVE  Matching(first \o second, a) = {} <=> Matching(first, a) = {} /\ Matching(second, a) = {}
<1> DEFINE n == Len(first)
           both == first \o second
           hit(s) == SignalDelta(s) > 0 /\ Matches(s, a)
<1>1. /\ n \in Nat /\ Len(second) \in Nat /\ Len(both) = n + Len(second)
      /\ \A i \in 1..n : both[i] = first[i] /\ i \in 1..Len(both)
      /\ \A i \in 1..Len(second) : both[n + i] = second[i] /\ n + i \in 1..Len(both)
  OBVIOUS
<1>2. \A i \in 1..Len(both) : i \in 1..n \/ \E j \in 1..Len(second) : i = n + j
  <2> SUFFICES ASSUME NEW i \in 1..Len(both), i \notin 1..n
               PROVE  \E j \in 1..Len(second) : i = n + j
      OBVIOUS
  <2>1. i - n \in 1..Len(second) /\ i = n + (i - n)
    BY <1>1
  <2> QED BY <2>1
<1>3. /\ Matching(both, a) = {} <=> \A i \in 1..Len(both) : ~hit(both[i])
      /\ Matching(first, a) = {} <=> \A i \in 1..n : ~hit(first[i])
      /\ Matching(second, a) = {} <=> \A i \in 1..Len(second) : ~hit(second[i])
  BY DEF Matching
<1> HIDE DEF n, both, hit
<1>4. (\A i \in 1..Len(both) : ~hit(both[i]))
        <=> (\A i \in 1..n : ~hit(first[i])) /\ \A i \in 1..Len(second) : ~hit(second[i])
  BY <1>1, <1>2
<1> QED BY <1>3, <1>4 DEF both

LEMMA BatchesCompose ==
  ASSUME NEW first \in Batches, NEW second \in Batches, NEW b \in Block
  PROVE  ApplyToBlock(second, ApplyToBlock(first, b)) = ApplyToBlock(first \o second, b)
<1> DEFINE S == Range(first) \cup Range(second)
           both == first \o second
           a == Leg(b)
           c == ApplyToBlock(first, b)
           cap(k, d) == IF k = "role" THEN Capped(d) ELSE d
<1>1. first \in Seq(S) /\ second \in Seq(S)
  <2>1. first \in Seq(Range(first)) /\ second \in Seq(Range(second))
    BY ParlayAssumption
  <2> QED BY <2>1
<1>2. Len(first) \in Nat /\ Len(second) \in Nat /\ Len(both) \in Nat
  BY <1>1
<1>3. c \in Block /\ c.id = b.id /\ Leg(c) = a
      /\ c.mods = Joined(first, a, b.mods)
  <2>1. /\ c \in Block /\ c.id = b.id
        /\ c = [id |-> b.id, mods |-> Joined(first, a, b.mods)]
    BY <1>2, ApplyGrows, ApplyIs DEF Joined
  <2> HIDE DEF c
  <2> QED BY <2>1 DEF Leg
<1>4. /\ ApplyToBlock(second, c) = [id |-> b.id, mods |-> Joined(second, a, c.mods)]
      /\ ApplyToBlock(both, b) = [id |-> b.id, mods |-> Joined(both, a, b.mods)]
  <2> HIDE DEF c, both
  <2> QED BY <1>3, ApplyIs DEF Joined
<1> DEFINE M == Matching(first, a)
           N == Matching(second, a)
<1>5. Matching(both, a) = {} <=> M = {} /\ N = {}
  BY <1>1, MatchingJoins
<1>6. ASSUME NEW k \in Kinds
      PROVE  /\ Total(first, a, k) \in Nat /\ Total(second, a, k) \in Nat
             /\ M = {} => Total(both, a, k) = Total(second, a, k)
             /\ N = {} => Total(both, a, k) = Total(first, a, k)
             /\ Merge(Merge(b.mods[k], k, Total(first, a, k)), k, Total(second, a, k))
                  = Merge(b.mods[k], k, Total(both, a, k))
  <2>1. PICK x \in Nat, y \in Nat : x = Uncapped(first, a, k) /\ y = Uncapped(second, a, k)
    BY <1>2, AddingFinite
  <2>2. Uncapped(both, a, k) = x + y
    BY <1>1, <2>1, UncappedAdds
  <2>3. /\ Total(first, a, k) = cap(k, x) /\ Total(second, a, k) = cap(k, y)
        /\ Total(both, a, k) = cap(k, x + y)
    <3> HIDE DEF both
    <3> QED BY <1>2, <2>1, <2>2, TotalIs
  <2>4. b.mods[k] \in Modifier
    BY DEF Block, Modifiers, Modifier
  <2>5. Merge(Merge(b.mods[k], k, cap(k, x)), k, cap(k, y)) = Merge(b.mods[k], k, cap(k, x + y))
    BY <2>4, MergeTwice
  <2>6. (M = {} => x = 0) /\ (N = {} => y = 0)
    BY <2>1, UncappedOfNone
  <2>7. Total(first, a, k) \in Nat /\ Total(second, a, k) \in Nat
    BY <1>2, TotalNat
  <2>8. (x = 0 => x + y = y) /\ (y = 0 => x + y = x)
    BY ONLY x \in Nat, y \in Nat
  <2> HIDE DEF both, cap, M, N
  <2> QED BY <2>3, <2>5, <2>6, <2>7, <2>8
<1>7. b.mods = [k \in Kinds |-> b.mods[k]]
  BY DEF Block, Modifiers
<1>8. Joined(second, a, c.mods) = Joined(both, a, b.mods)
  <2> HIDE DEF both, c, M, N
  <2>1. CASE M = {} /\ N = {}
    BY <1>3, <1>5, <2>1 DEF Joined, M, N
  <2>2. CASE M = {} /\ N # {}
    <3>1. c.mods = b.mods
      BY <1>3, <2>2 DEF Joined, M
    <3>2. /\ Joined(second, a, c.mods) = [k \in Kinds |-> Merge(b.mods[k], k, Total(second, a, k))]
          /\ Joined(both, a, b.mods) = [k \in Kinds |-> Merge(b.mods[k], k, Total(both, a, k))]
      BY <1>5, <2>2, <3>1 DEF Joined, N
    <3> QED BY <1>6, <2>2, <3>2
  <2>3. CASE M # {} /\ N = {}
    <3>1. Joined(second, a, c.mods) = c.mods
      BY <2>3 DEF Joined, N
    <3>2. /\ c.mods = [k \in Kinds |-> Merge(b.mods[k], k, Total(first, a, k))]
          /\ Joined(both, a, b.mods) = [k \in Kinds |-> Merge(b.mods[k], k, Total(both, a, k))]
      BY <1>3, <1>5, <2>3 DEF Joined, M
    <3> QED BY <1>6, <2>3, <3>1, <3>2
  <2>4. CASE M # {} /\ N # {}
    <3>1. /\ c.mods = [k \in Kinds |-> Merge(b.mods[k], k, Total(first, a, k))]
          /\ Joined(second, a, c.mods) = [k \in Kinds |-> Merge(c.mods[k], k, Total(second, a, k))]
          /\ Joined(both, a, b.mods) = [k \in Kinds |-> Merge(b.mods[k], k, Total(both, a, k))]
      BY <1>3, <1>5, <2>4 DEF Joined, M, N
    <3>2. \A k \in Kinds : Merge(c.mods[k], k, Total(second, a, k))
                            = Merge(b.mods[k], k, Total(both, a, k))
      BY <1>6, <3>1
    <3> QED BY <3>1, <3>2
  <2> QED BY <2>1, <2>2, <2>3, <2>4
<1> HIDE DEF c, both
<1> QED BY <1>4, <1>8 DEF c, both

-----------------------------------------------------------------------------
(* Any order.                                                              *)

\* The same legs in another order, whichever, have the same metrics.
THEOREM AnyOrderSameMetrics ==
  ASSUME NEW b \in Seq(Block), NEW place \in Bijection(1..Len(b), 1..Len(b))
  PROVE  ParlayMetrics([i \in 1..Len(b) |-> b[place[i]]]) = ParlayMetrics(b)
<1> DEFINE n == Len(b)
           N == 1..n
           c == [i \in N |-> b[place[i]]]
<1>1. /\ n \in Nat
      /\ \A i \in N : place[i] \in N
      /\ \A i, j \in N : place[i] = place[j] => i = j
      /\ \A j \in N : \E i \in N : place[i] = j
  <2>1. n \in Nat
    OBVIOUS
  <2>2. place \in [N -> N] /\ IsInjective(place) /\ \A j \in N : \E i \in N : place[i] = j
    BY DEF Bijection, Injection, Surjection
  <2> HIDE DEF N
  <2>3. \A i \in N : place[i] \in N
    BY <2>2
  <2>4. \A i, j \in N : place[i] = place[j] => i = j
    BY <2>2 DEF IsInjective
  <2> QED BY <2>1, <2>2, <2>3, <2>4
<1>2. c \in Seq(Block) /\ Len(c) = n /\ \A i \in N : c[i] = b[place[i]]
  BY <1>1
<1>3. SumBlocks(c) = SumBlocks(b)
  <2> DEFINE f == [i \in N |-> EffectiveFragility(c[i])]
             g == [i \in N |-> EffectiveFragility(b[i])]
  <2>1. SumBlocks(c) = SumFunctionOnSet(f, N) /\ SumBlocks(b) = SumFunctionOnSet(g, N)
    <3> HIDE DEF c
    <3> QED BY <1>2 DEF SumBlocks, SumFunction
  <2>2. \A i \in N : f[i] \in Nat /\ f[i] = g[place[i]]
    <3> SUFFICES ASSUME NEW i \in N
                 PROVE  f[i] \in Nat /\ f[i] = g[place[i]]
      OBVIOUS
    <3>1. place[i] \in N /\ c[i] = b[place[i]]
      BY <1>1
    <3>2. b[place[i]] \in Block
      <4>1. b \in [N -> Block]
        OBVIOUS
      <4> QED BY ONLY <4>1, <3>1
    <3>3. EffectiveFragility(b[place[i]]) \in Nat
      BY <3>2, EffectiveNat
    <3>4. f[i] = EffectiveFragility(c[i]) /\ g[place[i]] = EffectiveFragility(b[place[i]])
      BY <3>1
    <3> HIDE DEF c, f, g, N
    <3> QED BY ONLY <3>1, <3>3, <3>4
  <2>3. IsFiniteSet(N)
    BY FS_Interval
  <2>4. (\A i \in N : place[i] \in N) /\ (\A j \in N : \E i \in N : j = place[i])
    BY <1>1
  <2>5. \A i, j \in N : place[i] = place[j] => i = j
    BY <1>1
  <2>6. PICK M : M = N
    OBVIOUS
  <2> HIDE DEF f, g, N
  <2>7. /\ \A x \in N : place[x] \in M
        /\ \A y \in M : \E x \in N : y = place[x]
        /\ \A x, y \in N : place[x] = place[y] => x = y
        /\ \A x \in N : f[x] \in Nat /\ f[x] = g[place[x]]
    BY <2>2, <2>4, <2>5, <2>6
  <2>8. SumFunctionOnSet(f, N) = SumFunctionOnSet(g, M)
    BY ONLY <2>3, <2>7, SumRenamed
  <2> QED BY <2>1, <2>6, <2>8
<1>4. CorrelationPenalty(c) = CorrelationPenalty(b)
  <2> DEFINE P == Pairs(n)
             cost(s, p) == PairPenalty(Leg(s[p[1]]), Leg(s[p[2]]))
             f == [p \in P |-> cost(c, p)]
             g == [p \in P |-> cost(b, p)]
             sorted(i, j) == IF i < j THEN <<i, j>> ELSE <<j, i>>
             h == [p \in P |-> sorted(place[p[1]], place[p[2]])]
  <2>1. CorrelationPenalty(c) = SumFunctionOnSet(f, P)
        /\ CorrelationPenalty(b) = SumFunctionOnSet(g, P)
    <3> HIDE DEF c
    <3> QED BY <1>2 DEF CorrelationPenalty, SumFunction
  <2>2. \A p : p \in P <=> \E i, j \in N : i < j /\ p = <<i, j>>
    BY DEF Pairs
  <2>3. \A p \in P : /\ p[1] \in N /\ p[2] \in N /\ p[1] < p[2] /\ p = <<p[1], p[2]>>
                     /\ place[p[1]] \in N /\ place[p[2]] \in N
                     /\ place[p[1]] # place[p[2]]
    <3> SUFFICES ASSUME NEW p \in P
                 PROVE  /\ p[1] \in N /\ p[2] \in N /\ p[1] < p[2] /\ p = <<p[1], p[2]>>
                        /\ place[p[1]] \in N /\ place[p[2]] \in N
                        /\ place[p[1]] # place[p[2]]
        OBVIOUS
    <3>1. PICK i \in N, j \in N : i < j /\ p = <<i, j>>
      BY <2>2
    <3>2. i # j
      BY <1>1, <3>1
    <3> HIDE DEF P, N
    <3> QED BY <1>1, <3>1, <3>2
  <2>4. \A i, j \in N : i # j => sorted(i, j) \in P
    <3> SUFFICES ASSUME NEW i \in N, NEW j \in N, i # j
                 PROVE  sorted(i, j) \in P
        OBVIOUS
    <3>1. CASE i < j
      <4> HIDE DEF P, N
      <4> QED BY <2>2, <3>1
    <3>2. CASE ~(i < j)
      <4>1. j < i
        BY <1>1, <3>2
      <4> HIDE DEF P, N
      <4> QED BY <2>2, <3>2, <4>1
    <3> QED BY <3>1, <3>2
  <2>5. \A p \in P : h[p] \in P
    BY <2>3, <2>4
  <2>6. \A p, q \in P : h[p] = h[q] => p = q
    <3> SUFFICES ASSUME NEW p \in P, NEW q \in P, h[p] = h[q]
                 PROVE  p = q
        OBVIOUS
    <3>1. sorted(place[p[1]], place[p[2]]) = sorted(place[q[1]], place[q[2]])
      OBVIOUS
    <3>2. \/ place[p[1]] = place[q[1]] /\ place[p[2]] = place[q[2]]
          \/ place[p[1]] = place[q[2]] /\ place[p[2]] = place[q[1]]
      <4> HIDE DEF P, h
      <4> QED BY <3>1
    <3>3. \/ p[1] = q[1] /\ p[2] = q[2]
          \/ p[1] = q[2] /\ p[2] = q[1]
      <4> HIDE DEF P, N, h
      <4> QED BY <1>1, <2>3, <3>2
    <3>4. p[1] \in Int /\ p[2] \in Int /\ q[1] \in Int /\ q[2] \in Int
          /\ p[1] < p[2] /\ q[1] < q[2]
      BY <2>3
    <3>5. p[1] = q[1] /\ p[2] = q[2]
      BY ONLY <3>3, <3>4
    <3> HIDE DEF P, h
    <3> QED BY <2>3, <3>5
  <2>7. \A q \in P : \E p \in P : q = h[p]
    <3> SUFFICES ASSUME NEW q \in P
                 PROVE  \E p \in P : q = h[p]
        OBVIOUS
    <3>1. PICK i \in N, j \in N : place[i] = q[1] /\ place[j] = q[2]
      <4> HIDE DEF P, N
      <4> QED BY <1>1, <2>3
    <3>2. q[1] \in Int /\ q[2] \in Int /\ q[1] < q[2] /\ q = <<q[1], q[2]>>
      BY <2>3
    <3>3. i \in Int /\ j \in Int /\ i # j
      BY <3>1, <3>2
    <3>4. CASE i < j
      <4>1. <<i, j>> \in P
        <5> HIDE DEF P, N
        <5> QED BY <2>2, <3>4
      <4>2. h[<<i, j>>] = sorted(q[1], q[2])
        BY <3>1, <4>1
      <4>3. h[<<i, j>>] = q
        <5> HIDE DEF h, P
        <5> QED BY <3>2, <4>2
      <4> HIDE DEF h, P
      <4> QED BY <4>1, <4>3
    <3>5. CASE j < i
      <4>1. <<j, i>> \in P
        <5> HIDE DEF P, N
        <5> QED BY <2>2, <3>5
      <4>2. h[<<j, i>>] = sorted(q[2], q[1])
        BY <3>1, <4>1
      <4>3. ~(q[2] < q[1])
        BY ONLY <3>2
      <4>4. h[<<j, i>>] = q
        <5> HIDE DEF h, P
        <5> QED BY <3>2, <4>2, <4>3
      <4> HIDE DEF h, P
      <4> QED BY <4>1, <4>4
    <3> QED BY <3>3, <3>4, <3>5
  <2>8. \A p \in P : f[p] \in Nat /\ f[p] = g[h[p]]
    <3> SUFFICES ASSUME NEW p \in P
                 PROVE  f[p] \in Nat /\ f[p] = g[h[p]]
        OBVIOUS
    <3> DEFINE i == place[p[1]]
               j == place[p[2]]
    <3>1. f[p] = PairPenalty(Leg(b[i]), Leg(b[j]))
      <4>1. c[p[1]] = b[i] /\ c[p[2]] = b[j]
        BY <1>2, <2>3
      <4> QED BY <4>1
    <3>2. g[h[p]] = cost(b, h[p])
      BY <2>5
    <3>3. cost(b, h[p]) = PairPenalty(Leg(b[i]), Leg(b[j]))
      <4>1. h[p] = <<i, j>> \/ h[p] = <<j, i>>
        OBVIOUS
      <4>2. cost(b, <<i, j>>) = PairPenalty(Leg(b[i]), Leg(b[j]))
            /\ cost(b, <<j, i>>) = PairPenalty(Leg(b[j]), Leg(b[i]))
        OBVIOUS
      <4> HIDE DEF h, i, j, cost
      <4> QED BY <4>1, <4>2, PairPenaltySymmetric
    <3> HIDE DEF f, g, h, P, cost
    <3> QED BY <3>1, <3>2, <3>3, PairPenaltyNat
  <2>9. IsFiniteSet(P)
    BY <1>1, PairsFinite
  <2>10. \A q \in P : \E p \in P : q = h[p]
    BY <2>7
  <2> HIDE DEF f, g, h, P
  <2>11. SumFunctionOnSet(f, P) = SumFunctionOnSet(g, P)
    BY ONLY <2>5, <2>6, <2>8, <2>9, <2>10, SumRenamed
  <2> QED BY <2>1, <2>11
<1>5. Len(c) = Len(b) /\ (c = <<>> <=> b = <<>>)
  BY <1>1, <1>2
<1> HIDE DEF c
<1> QED BY <1>3, <1>4, <1>5 DEF ParlayMetrics, SumBlocks, c

-----------------------------------------------------------------------------
(* The legs kept by a removal.                                             *)

LEMMA LargestElement ==
  ASSUME NEW S \in SUBSET Int, IsFiniteSet(S), S # {}
  PROVE  \E m \in S : \A i \in S : i <= m
<1> DEFINE Good == {T \in SUBSET S : T # {} => \E m \in T : \A i \in T : i <= m}
<1>1. ASSUME NEW T \in SUBSET S, \A U \in SUBSET T : U # T => U \in Good
      PROVE  T \in Good
  <2> SUFFICES ASSUME T # {}
               PROVE  \E m \in T : \A i \in T : i <= m
      OBVIOUS
  <2>1. PICK x \in T : TRUE
    OBVIOUS
  <2>2. CASE T = {x}
    BY <2>1, <2>2
  <2>3. CASE T # {x}
    <3>1. T \ {x} # {} /\ T \ {x} \in Good
      BY <1>1, <2>1, <2>3
    <3>2. PICK m \in T \ {x} : \A i \in T \ {x} : i <= m
      BY <3>1
    <3>3. CASE m <= x
      BY <2>1, <3>2, <3>3
    <3>4. CASE ~(m <= x)
      BY <2>1, <3>2, <3>4
    <3> QED BY <3>3, <3>4
  <2> QED BY <2>2, <2>3
<1>2. \A T \in SUBSET S : T \in Good
  <2> HIDE DEF Good
  <2> QED BY <1>1, SubsetInduction
<1> QED BY <1>2

\* A finite set of integers has a k-th element for each k up to its size.
LEMMA KthElement ==
  ASSUME NEW S \in SUBSET Int, IsFiniteSet(S)
  PROVE  \A k \in 1..Cardinality(S) : \E i \in S : Cardinality({j \in S : j <= i}) = k
<1> DEFINE UpTo(T, i) == {j \in T : j <= i}
           Good == {T \in SUBSET S :
                      \A k \in 1..Cardinality(T) : \E i \in T : Cardinality(UpTo(T, i)) = k}
<1>1. ASSUME NEW T \in SUBSET S, \A U \in SUBSET T : U # T => U \in Good
      PROVE  T \in Good
  <2> SUFFICES ASSUME NEW k \in 1..Cardinality(T)
               PROVE  \E i \in T : Cardinality(UpTo(T, i)) = k
      OBVIOUS
  <2>1. IsFiniteSet(T)
    BY FS_Subset
  <2>2. T # {}
    BY FS_EmptySet
  <2>3. PICK m \in T : \A i \in T : i <= m
    BY <2>1, <2>2, LargestElement
  <2> DEFINE U == T \ {m}
  <2>4. PICK n \in Nat : n = Cardinality(T) /\ Cardinality(U) = n - 1
    BY <2>1, <2>3, FS_RemoveElement, FS_CardinalityType
  <2>5. CASE k = n
    <3>1. UpTo(T, m) = T
      BY <2>3
    <3> HIDE DEF UpTo
    <3> QED BY <2>3, <2>4, <2>5, <3>1
  <2>6. CASE k # n
    <3>1. k \in 1..Cardinality(U)
      BY <2>4, <2>6
    <3>2. U \in Good
      BY <1>1, <2>3
    <3>3. PICK i \in U : Cardinality(UpTo(U, i)) = k
      BY <3>1, <3>2
    <3>4. UpTo(T, i) = UpTo(U, i)
      <4>1. i < m
        BY <2>3, <3>3
      <4> QED BY <4>1
    <3> HIDE DEF UpTo
    <3> QED BY <3>3, <3>4
  <2> QED BY <2>5, <2>6
<1>2. \A T \in SUBSET S : T \in Good
  <2> HIDE DEF Good
  <2> QED BY <1>1, SubsetInduction
<1> QED BY <1>2

LEMMA KeptIsSeq ==
  ASSUME NEW B, NEW blocks \in Seq(B), NEW keep \in SUBSET (1..Len(blocks))
  PROVE  Kept(blocks, keep) \in Seq(B) /\ Len(Kept(blocks, keep)) <= Len(blocks)
<1> DEFINE N == 1..Len(blocks)
           kth(k) == CHOOSE i \in keep : Cardinality({j \in keep : j <= i}) = k
<1>1. IsFiniteSet(N) /\ Cardinality(N) = Len(blocks) /\ Len(blocks) \in Nat
  <2>1. PICK n \in Nat : n = Len(blocks)
    OBVIOUS
  <2>2. IsFiniteSet(1..n) /\ Cardinality(1..n) = n
    BY FS_Interval
  <2> QED BY <2>1, <2>2
<1>2. IsFiniteSet(keep) /\ Cardinality(keep) <= Cardinality(N)
  <2> HIDE DEF N
  <2> QED BY <1>1, FS_Subset DEF N
<1>3. PICK n \in Nat : n = Cardinality(keep)
  BY <1>2, FS_CardinalityType
<1>4. \A k \in 1..n : \E i \in keep : Cardinality({j \in keep : j <= i}) = k
  <2>1. keep \in SUBSET Int
    OBVIOUS
  <2> QED BY <1>2, <1>3, <2>1, KthElement
<1>5. \A k \in 1..n : kth(k) \in keep
  BY <1>4
<1>6. \A k \in 1..n : blocks[kth(k)] \in B
  <2>1. \A i \in keep : blocks[i] \in B
    OBVIOUS
  <2> HIDE DEF kth
  <2> QED BY <1>5, <2>1
<1>7. Kept(blocks, keep) = [k \in 1..n |-> blocks[kth(k)]]
  BY <1>3 DEF Kept
<1> HIDE DEF kth
<1> QED BY <1>1, <1>2, <1>3, <1>6, <1>7

-----------------------------------------------------------------------------
(* What holds of the parlay itself: well-formed blocks, no more than the   *)
(* bound, and metrics computed from these blocks and no others.            *)

ParlayInv ==
  /\ parlay = BuildParlayState(parlay.blocks)
  /\ parlay.blocks \in Seq(Block)
  /\ Len(parlay.blocks) <= MaxLegs

LEMMA EditKeepsInv ==
  ASSUME NEW blocks \in Seq(Block), Len(blocks) <= MaxLegs, Edit(blocks)
  PROVE  ParlayInv' /\ parlay'.blocks = blocks
<1>1. parlay' = BuildParlayState(blocks) /\ parlay'.blocks = blocks
  BY DEF Edit, BuildParlayState
<1> QED BY <1>1 DEF ParlayInv

LEMMA AddBlockIs ==
  ASSUME ParlayInv, NEW id \in LegIds, AddBlock(id)
  PROVE  LET b == [id |-> id, mods |-> Catalogue[id].mods]
         IN  /\ b \in Block /\ Leg(b) = Catalogue[id]
             /\ parlay'.blocks = Append(parlay.blocks, b)
             /\ ParlayInv'
<1> DEFINE b == [id |-> id, mods |-> Catalogue[id].mods]
           q == parlay.blocks
<1>1. b \in Block /\ Leg(b) = Catalogue[id]
  BY CatalogueAssumption DEF Block, Leg
<1>2. q \in Seq(Block) /\ Len(q) < MaxLegs /\ MaxLegs \in Nat /\ Edit(Append(q, b))
  BY ParlayAssumption DEF ParlayInv, AddBlock
<1> HIDE DEF b, q
<1>3. Append(q, b) \in Seq(Block) /\ Len(Append(q, b)) <= MaxLegs
  BY <1>1, <1>2
<1> QED BY <1>1, <1>2, <1>3, EditKeepsInv DEF b, q

LEMMA ContextIs ==
  ASSUME ParlayInv, NEW batch \in Batches, ApplyContext(batch)
  PROVE  /\ ParlayInv'
         /\ Len(parlay'.blocks) = Len(parlay.blocks)
         /\ WithinCap(parlay.blocks) \in Seq(Block)
         /\ Embeds(WithinCap(parlay.blocks), parlay'.blocks)
<1> DEFINE q == parlay.blocks
           u == WithinCap(q)
           p == AdaptAndApplySignals(q, batch)
<1>1. q \in Seq(Block) /\ Len(q) <= MaxLegs /\ Len(q) \in Nat
  BY DEF ParlayInv
<1>2. Len(batch) \in Nat
  BY ParlayAssumption
<1>3. p = [i \in 1..Len(q) |-> ApplyToBlock(batch, q[i])]
  BY DEF AdaptAndApplySignals
<1> HIDE DEF q, p
<1>4. \A i \in 1..Len(q) : /\ ApplyToBlock(batch, q[i]) \in Block
                           /\ ApplyToBlock(batch, q[i]).id = q[i].id
                           /\ EffectiveFragility(Lowered(q[i]))
                                <= EffectiveFragility(ApplyToBlock(batch, q[i]))
                           /\ Lowered(q[i]) \in Block /\ Lowered(q[i]).id = q[i].id
  <2> SUFFICES ASSUME NEW i \in 1..Len(q)
               PROVE  /\ ApplyToBlock(batch, q[i]) \in Block
                      /\ ApplyToBlock(batch, q[i]).id = q[i].id
                      /\ EffectiveFragility(Lowered(q[i]))
                           <= EffectiveFragility(ApplyToBlock(batch, q[i]))
                      /\ Lowered(q[i]) \in Block /\ Lowered(q[i]).id = q[i].id
    OBVIOUS
  <2>1. q[i] \in Block
    BY <1>1
  <2>2. PICK d : d = q[i]
    OBVIOUS
  <2>3. d \in Block
    BY <2>1, <2>2
  <2>4. /\ ApplyToBlock(batch, d) \in Block
        /\ ApplyToBlock(batch, d).id = d.id
        /\ EffectiveFragility(Lowered(d)) <= EffectiveFragility(ApplyToBlock(batch, d))
    BY <2>3, <1>2, ApplyGrows
  <2>5. Lowered(d) \in Block /\ Lowered(d).id = d.id
    BY <2>3, LoweredIs
  <2> QED BY ONLY <2>2, <2>4, <2>5
<1>5. p \in Seq(Block) /\ Len(p) = Len(q)
  BY <1>1, <1>3, <1>4
<1>9. u = [i \in 1..Len(q) |-> Lowered(q[i])]
  BY DEF WithinCap, Lowered
<1> HIDE DEF u
<1>10. u \in Seq(Block) /\ Len(u) = Len(q)
  BY <1>1, <1>4, <1>9
<1>6. Embeds(u, p)
  BY <1>1, <1>3, <1>4, <1>5, <1>9, <1>10 DEF Embeds
<1>7. Edit(p)
  BY DEF ApplyContext, p, q
<1>8. ParlayInv' /\ parlay'.blocks = p
  BY <1>1, <1>5, <1>7, EditKeepsInv
<1> QED BY <1>5, <1>6, <1>8, <1>10 DEF q, u

LEMMA RemoveIs ==
  ASSUME ParlayInv, NEW id \in LegIds, RemoveBlock(id)
  PROVE  ParlayInv' /\ Len(parlay'.blocks) <= Len(parlay.blocks)
<1> DEFINE q == parlay.blocks
           keep == {i \in 1..Len(q) : q[i].id # id}
           p == Kept(q, keep)
<1>1. q \in Seq(Block) /\ Len(q) <= MaxLegs /\ Len(q) \in Nat /\ MaxLegs \in Nat
  BY ParlayAssumption DEF ParlayInv
<1>2. p \in Seq(Block) /\ Len(p) <= Len(q)
  <2>1. keep \in SUBSET (1..Len(q))
    OBVIOUS
  <2> HIDE DEF q, keep
  <2> QED BY <1>1, <2>1, KeptIsSeq
<1>3. Len(p) <= MaxLegs
  <2>1. Len(p) \in Nat
    <3> HIDE DEF p
    <3> QED BY <1>2
  <2> HIDE DEF p, q
  <2> QED BY <1>1, <1>2, <2>1
<1>4. Edit(p)
  BY DEF RemoveBlock
<1> HIDE DEF p
<1>5. ParlayInv' /\ parlay'.blocks = p
  BY <1>2, <1>3, <1>4, EditKeepsInv
<1> QED BY <1>2, <1>5

LEMMA ParlayInvInit == ParlayInit => ParlayInv
<1> SUFFICES ASSUME ParlayInit
             PROVE  ParlayInv
    OBVIOUS
<1>1. parlay.blocks = <<>> /\ parlay = BuildParlayState(<<>>)
  BY DEF ParlayInit, BuildParlayState
<1>2. <<>> \in Seq(Block) /\ Len(<<>>) = 0
  OBVIOUS
<1> QED BY <1>1, <1>2, ParlayAssumption DEF ParlayInv

LEMMA ParlayInvStep == ParlayInv /\ [ParlayNext]_parlayVars => ParlayInv'
<1> SUFFICES ASSUME ParlayInv, [ParlayNext]_parlayVars
             PROVE  ParlayInv'
    OBVIOUS
<1>1. ASSUME NEW id \in LegIds, AddBlock(id)
      PROVE  ParlayInv'
  BY <1>1, AddBlockIs
<1>2. ASSUME NEW id \in LegIds, RemoveBlock(id)
      PROVE  ParlayInv'
  BY <1>2, RemoveIs
<1>3. ASSUME NEW batch \in Batches, ApplyContext(batch)
      PROVE  ParlayInv'
  BY <1>3, ContextIs
<1>4. CASE UNCHANGED parlay
  BY <1>4 DEF ParlayInv
<1> QED BY <1>1, <1>2, <1>3, <1>4 DEF ParlayNext, EvaluateRequest, parlayVars

LEMMA ParlayInvariant == ParlaySpec => []ParlayInv
BY ParlayInvInit, ParlayInvStep, PTL DEF ParlaySpec

LEMMA EmbedsIsRiskier ==
  ASSUME NEW q \in Seq(Block), NEW p \in Seq(Block), Embeds(q, p), Len(p) <= MaxLegs
  PROVE  AtLeastAsRisky(BuildParlayState(p), BuildParlayState(q))
<1> DEFINE s == BuildParlayState(p)
           t == BuildParlayState(q)
<1>1. /\ s.blocks = p /\ s.metrics = ParlayMetrics(p)
      /\ t.blocks = q /\ t.metrics = ParlayMetrics(q)
  BY DEF BuildParlayState
<1>2. /\ Len(q) \in Nat /\ Len(p) \in Nat /\ Len(q) <= Len(p)
      /\ \A i \in 1..Len(q) : Leg(q[i]) = Leg(p[i])
  BY DEF Embeds, Leg
<1> HIDE DEF s, t
<1>3. Riskier(s, t)
  BY <1>1, <1>2, MetricsMonotone DEF Riskier
<1>4. AtLeastAsRisky(s, t)
  BY <1>3, RiskierIsToldSo
<1> QED BY <1>4 DEF s, t

-----------------------------------------------------------------------------
(* The properties the runs check.                                          *)

\* A leg never makes a parlay look better, whichever it is, whatever it
\* correlates with and whoever asks.
THEOREM LegsAlwaysAddRisk == ParlaySpec => LegsNeverHelp
<1>1. ParlayInv /\ [ParlayNext]_parlayVars
        => [Len(parlay'.blocks) > Len(parlay.blocks) => AtLeastAsRisky(parlay', parlay)]_parlayVars
  <2> SUFFICES ASSUME ParlayInv, ParlayNext, Len(parlay'.blocks) > Len(parlay.blocks)
               PROVE  AtLeastAsRisky(parlay', parlay)
      OBVIOUS
  <2>0. Len(parlay.blocks) \in Nat
    BY DEF ParlayInv
  <2>1. ASSUME NEW id \in LegIds, AddBlock(id)
        PROVE  AtLeastAsRisky(parlay', parlay)
    <3> DEFINE b == [id |-> id, mods |-> Catalogue[id].mods]
    <3>1. PICK q : q = parlay.blocks
      OBVIOUS
    <3>2. PICK p : p = parlay'.blocks
      OBVIOUS
    <3>3. b \in Block /\ p = Append(q, b) /\ ParlayInv'
      BY <2>1, <3>1, <3>2, AddBlockIs
    <3>4. q \in Seq(Block) /\ p \in Seq(Block) /\ Len(p) <= MaxLegs
      BY <3>1, <3>2, <3>3 DEF ParlayInv
    <3>5. parlay = BuildParlayState(q) /\ parlay' = BuildParlayState(p)
      BY <3>1, <3>2, <3>3 DEF ParlayInv
    <3> HIDE DEF b
    <3>6. Len(q) \in Nat /\ Len(p) = Len(q) + 1 /\ \A i \in 1..Len(q) : p[i] = q[i]
      BY <3>3, <3>4
    <3>7. \A i \in 1..Len(q) : EffectiveFragility(q[i]) \in Nat
      BY <3>4, EffectiveNat
    <3>8. Embeds(q, p)
      BY <3>6, <3>7 DEF Embeds
    <3>9. AtLeastAsRisky(BuildParlayState(p), BuildParlayState(q))
      BY <3>4, <3>8, EmbedsIsRiskier
    <3> QED BY <3>5, <3>9
  <2>2. ASSUME NEW id \in LegIds, RemoveBlock(id)
        PROVE  FALSE
    <3>1. Len(parlay'.blocks) \in Nat /\ Len(parlay'.blocks) <= Len(parlay.blocks)
      BY <2>2, RemoveIs DEF ParlayInv
    <3> QED BY <2>0, <3>1
  <2>3. ASSUME NEW batch \in Batches, ApplyContext(batch)
        PROVE  FALSE
    <3>1. Len(parlay'.blocks) = Len(parlay.blocks)
      BY <2>3, ContextIs
    <3> QED BY <2>0, <3>1
  <2>4. CASE UNCHANGED parlay
    BY <2>0, <2>4
  <2> QED BY <2>1, <2>2, <2>3, <2>4 DEF ParlayNext, EvaluateRequest
<1> QED BY <1>1, ParlayInvariant, PTL DEF ParlaySpec, LegsNeverHelp

\* Signals (apply_context_signals) make nothing a client is told any better than
\* it would have been had every role delta been posted within the cap.
THEOREM ContextAlwaysAddsRisk == ParlaySpec => ContextNeverHelps
<1>1. ParlayInv /\ [ParlayNext]_parlayVars
        => [batches' # batches
              => AtLeastAsRisky(parlay', BuildParlayState(WithinCap(parlay.blocks)))]_parlayVars
  <2> SUFFICES ASSUME ParlayInv, ParlayNext, batches' # batches
               PROVE  AtLeastAsRisky(parlay', BuildParlayState(WithinCap(parlay.blocks)))
      OBVIOUS
  <2>1. PICK batch \in Batches : ApplyContext(batch)
    BY DEF ParlayNext, AddBlock, RemoveBlock, EvaluateRequest
  <2>2. PICK q : q = WithinCap(parlay.blocks)
    OBVIOUS
  <2>3. PICK p : p = parlay'.blocks
    OBVIOUS
  <2>4. ParlayInv' /\ Embeds(q, p) /\ q \in Seq(Block)
    BY <2>1, <2>2, <2>3, ContextIs
  <2>5. p \in Seq(Block) /\ Len(p) <= MaxLegs /\ parlay' = BuildParlayState(p)
    BY <2>3, <2>4 DEF ParlayInv
  <2>6. AtLeastAsRisky(BuildParlayState(p), BuildParlayState(q))
    BY <2>4, <2>5, EmbedsIsRiskier
  <2> QED BY <2>2, <2>5, <2>6
<1> QED BY <1>1, ParlayInvariant, PTL DEF ParlaySpec, ContextNeverHelps

\* The same legs and signals are the same parlay, in the other order and in
\* two requests or one.
THEOREM ArrangementNeverMatters == ParlaySpec => []ArrangementDoesNotMatter
<1>1. ParlayInv => ArrangementDoesNotMatter
  <2> SUFFICES ASSUME ParlayInv
               PROVE  ArrangementDoesNotMatter
      OBVIOUS
  <2> DEFINE b == parlay.blocks
  <2>1. b \in Seq(Block) /\ Len(b) \in Nat /\ parlay.metrics = ParlayMetrics(b)
    BY DEF ParlayInv, BuildParlayState
  <2> HIDE DEF b
  <2>2. ParlayMetrics(Reverse(b)) = ParlayMetrics(b)
    <3> DEFINE N == 1..Len(b)
               place == [i \in N |-> Len(b) - i + 1]
    <3>1. \A i \in N : Len(b) - i + 1 \in N /\ Len(b) - (Len(b) - i + 1) + 1 = i
      BY <2>1
    <3>2. place \in Bijection(N, N)
      <4>1. place \in [N -> N] /\ \A i \in N : place[i] \in N /\ place[place[i]] = i
        BY <3>1
      <4> HIDE DEF place, N
      <4> QED BY <4>1 DEF Bijection, Injection, Surjection, IsInjective
    <3>3. Reverse(b) = [i \in N |-> b[place[i]]]
      BY DEF Reverse
    <3>4. ParlayMetrics([i \in 1..Len(b) |-> b[place[i]]]) = ParlayMetrics(b)
      <4> HIDE DEF place
      <4> QED BY <2>1, <3>2, AnyOrderSameMetrics
    <3> HIDE DEF place
    <3> QED BY <3>3, <3>4
  <2>3. ASSUME NEW first \in Batches, NEW second \in Batches
        PROVE  AdaptAndApplySignals(AdaptAndApplySignals(b, first), second)
                 = AdaptAndApplySignals(b, first \o second)
    <3> DEFINE c == AdaptAndApplySignals(b, first)
    <3>1. Len(c) = Len(b) /\ \A i \in 1..Len(b) : c[i] = ApplyToBlock(first, b[i])
      BY <2>1 DEF AdaptAndApplySignals
    <3>2. \A i \in 1..Len(b) : ApplyToBlock(second, ApplyToBlock(first, b[i]))
                                 = ApplyToBlock(first \o second, b[i])
      BY <2>1, BatchesCompose
    <3> HIDE DEF c
    <3>3. AdaptAndApplySignals(c, second)
            = [i \in 1..Len(b) |-> ApplyToBlock(first \o second, b[i])]
      BY <3>1, <3>2 DEF AdaptAndApplySignals
    <3> QED BY <3>3 DEF AdaptAndApplySignals, c
  <2> QED BY <2>1, <2>2, <2>3
          DEF ArrangementDoesNotMatter, OrderDoesNotMatter, BatchingDoesNotMatter, b
<1> QED BY <1>1, ParlayInvariant, PTL

\* A suggestion marked compatible breaks, once taken, no rule but the tolerance.
THEOREM SuggestionsAlwaysRespectProfile == ParlaySpec => SuggestionsRespectProfile
<1> DEFINE Respected ==
      \A r \in Requests :
        /\ r.profile # None
        /\ DnaCompatible(Leg(parlay'.blocks[Len(parlay'.blocks)]),
                         Len(parlay.blocks), r.profile)
        => Violations(parlay', r.profile) \subseteq
             Violations(parlay, r.profile) \cup {"fragility_over_tolerance"}
<1>1. ParlayInv /\ [ParlayNext]_parlayVars
        => [Len(parlay'.blocks) > Len(parlay.blocks) => Respected]_parlayVars
  <2> SUFFICES ASSUME ParlayInv, ParlayNext, Len(parlay'.blocks) > Len(parlay.blocks)
               PROVE  Respected
      OBVIOUS
  <2>0. Len(parlay.blocks) \in Nat /\ parlay.blocks \in Seq(Block)
    BY DEF ParlayInv
  <2>1. ASSUME NEW id \in LegIds, AddBlock(id)
        PROVE  Respected
    <3> DEFINE b == [id |-> id, mods |-> Catalogue[id].mods]
    <3>1. PICK q : q = parlay.blocks
      OBVIOUS
    <3>2. PICK p : p = parlay'.blocks
      OBVIOUS
    <3>3. b \in Block /\ Leg(b) = Catalogue[id] /\ p = Append(q, b)
      BY <2>1, <3>1, <3>2, AddBlockIs
    <3>4. Leg(p[Len(p)]) = Catalogue[id]
      <4> HIDE DEF b
      <4>1. p[Len(p)] = b
        BY <2>0, <3>1, <3>3
      <4> QED BY <3>3, <4>1
    <3> SUFFICES ASSUME NEW r \in Requests, r.profile # None,
                        DnaCompatible(Leg(parlay'.blocks[Len(parlay'.blocks)]),
                                      Len(parlay.blocks), r.profile)
                 PROVE  Violations(parlay', r.profile) \subseteq
                          Violations(parlay, r.profile) \cup {"fragility_over_tolerance"}
        OBVIOUS
    <3>5. DnaCompatible(Catalogue[id], Len(parlay.blocks), r.profile)
      BY <3>2, <3>4
    <3>6. r.profile.max_legs \in Int
      BY RequestAssumption
    <3> QED BY <2>0, <2>1, <3>5, <3>6, CompatibleLegBreaksNoRule
  <2>2. ASSUME NEW id \in LegIds, RemoveBlock(id)
        PROVE  FALSE
    <3>1. Len(parlay'.blocks) \in Nat /\ Len(parlay'.blocks) <= Len(parlay.blocks)
      BY <2>2, RemoveIs DEF ParlayInv
    <3> QED BY <2>0, <3>1
  <2>3. ASSUME NEW batch \in Batches, ApplyContext(batch)
        PROVE  FALSE
    <3>1. Len(parlay'.blocks) = Len(parlay.blocks)
      BY <2>3, ContextIs
    <3> QED BY <2>0, <3>1
  <2>4. CASE UNCHANGED parlay
    BY <2>0, <2>4
  <2> QED BY <2>1, <2>2, <2>3, <2>4 DEF ParlayNext, EvaluateRequest
<1> QED BY <1>1, ParlayInvariant, PTL DEF ParlaySpec, SuggestionsRespectProfile
=============================================================================
