-------------------------------- MODULE Sums --------------------------------
(* Sums over finite sets, as MapThenSumSet of the community modules has them *)
(* by recursion on the set, and what a set of ledger rows moves a balance.   *)
EXTENDS Integers, FiniteSetsExt, FiniteSetTheorems, TLAPS

\* The element that the recursion takes first, its functions, and the sum.
FirstOf(s) == CHOOSE x \in s : TRUE

IsSum(g, f, S) ==
  g = [s \in SUBSET S |-> IF s = {} THEN 0 ELSE f[FirstOf(s)] + g[s \ {FirstOf(s)}]]

SumOf(f, S) == MapThenSumSet(LAMBDA x : f[x], S)

\* A sum is what the recursive function it is defined by has at the set.
LEMMA SumUnfolds ==
  ASSUME NEW f, NEW S
  PROVE  SumOf(f, S) = (CHOOSE g : IsSum(g, f, S))[S]
  BY DEF SumOf, MapThenSumSet, MapThenFoldSet, IsSum, FirstOf

\* The element that is taken from a set first is one of it.
LEMMA FirstIn == ASSUME NEW s, s # {} PROVE FirstOf(s) \in s
  BY DEF FirstOf

\* What holds of a subset of a finite set when it holds of all its proper subsets
\* holds of every subset: strict inclusion is well founded.
LEMMA SubsetInduction ==
  ASSUME NEW S, IsFiniteSet(S), NEW T \in SUBSET (SUBSET S),
         \A U \in SUBSET S : (\A V \in SUBSET U : V # U => V \in T) => U \in T
  PROVE  T = SUBSET S
  <1> SUFFICES ASSUME T # SUBSET S PROVE FALSE
    OBVIOUS
  <1>1. (SUBSET S) \ T # {} /\ (SUBSET S) \ T \subseteq SUBSET S
    OBVIOUS
  <1>2. IsWellFoundedOn(StrictSubsetOrdering(S), SUBSET S)
    <2>1. IsWellFoundedOn(StrictSubsetOrdering(S), FiniteSubsetsOf(S))
      BY FS_StrictSubsetOrderingWellFounded
    <2>2. FiniteSubsetsOf(S) = SUBSET S
      BY FS_FiniteSubsetsOfFinite
    <2> QED BY <2>1, <2>2
  <1>3. PICK U \in (SUBSET S) \ T : \A V \in (SUBSET S) \ T : <<V, U>> \notin StrictSubsetOrdering(S)
    <2> DEFINE R == StrictSubsetOrdering(S)
               N == (SUBSET S) \ T
               P == SUBSET S
    <2>1. IsWellFoundedOn(R, P) /\ N \subseteq P /\ N # {}
      BY <1>1, <1>2
    <2> HIDE DEF R, N, P
    <2>2. \E U \in N : \A V \in N : ~(<<V, U>> \in R)
      BY <2>1, WFMin
    <2> QED BY <2>2 DEF R, N
  <1>4. ASSUME NEW V \in SUBSET U, V # U PROVE V \in T
    BY <1>3, <1>4 DEF StrictSubsetOrdering
  <1> QED BY <1>3, <1>4

\* A finite set of numbers that is not empty has a least one.
LEMMA LeastOfFinite ==
  ASSUME NEW S, IsFiniteSet(S), S \subseteq Int, S # {}
  PROVE  \E m \in S : \A n \in S : m <= n
  <1> DEFINE T == {U \in SUBSET S : U # {} => \E m \in U : \A n \in U : m <= n}
  <1>1. ASSUME NEW U \in SUBSET S, \A V \in SUBSET U : V # U => V \in T
        PROVE  U \in T
    <2>1. CASE U = {}
      BY <2>1
    <2>2. ASSUME NEW x \in U PROVE \E m \in U : \A n \in U : m <= n
      <3>1. PICK V : V = U \ {x}
        OBVIOUS
      <3>2. V \in SUBSET U /\ V # U /\ \A n \in U : n = x \/ n \in V
        BY <3>1
      <3>3. V \in T /\ U \subseteq Int /\ V \subseteq Int
        BY <1>1, <3>2
      <3>4. CASE V = {}
        BY <3>2, <3>3, <3>4
      <3>5. CASE V # {}
        <4>1. PICK m \in V : \A n \in V : m <= n
          BY <3>3, <3>5
        <4>2. x \in Int /\ m \in Int /\ m \in U
          BY <3>2, <3>3
        <4>3. CASE m <= x
          BY <3>2, <4>1, <4>2, <4>3
        <4>4. CASE ~(m <= x)
          <5>1. \A n \in V : x <= n
            BY <3>3, <4>1, <4>2, <4>4
          <5> QED BY <3>2, <4>2, <5>1
        <4> QED BY <4>3, <4>4
      <3> QED BY <3>4, <3>5
    <2> QED BY <2>1, <2>2
  <1>2. T \in SUBSET (SUBSET S)
    OBVIOUS
  <1> HIDE DEF T
  <1>3. T = SUBSET S
    BY <1>1, <1>2, SubsetInduction
  <1>4. S \in T
    BY <1>3
  <1> QED BY <1>4 DEF T

\* The image of a finite set is finite.
LEMMA ImageFinite ==
  ASSUME NEW S, IsFiniteSet(S), NEW f
  PROVE  IsFiniteSet({f[x] : x \in S})
  <1>1. PICK T : T = {f[x] : x \in S}
    OBVIOUS
  <1>2. PICK g : g = [x \in S |-> f[x]]
    OBVIOUS
  <1>3. g \in Surjection(S, T)
    BY <1>1, <1>2 DEF Surjection
  <1> QED BY <1>1, <1>3, FS_Surjection

\* The two clauses of the recursion: nothing sums to zero,
LEMMA NothingSum ==
  ASSUME NEW f, NEW S, NEW g, IsSum(g, f, S)
  PROVE  g[{}] = 0
  BY DEF IsSum

\* and a set to its first element and the sum of the others.
LEMMA RestSum ==
  ASSUME NEW f, NEW S, NEW g, IsSum(g, f, S), NEW V \in SUBSET S, V # {}
  PROVE  g[V] = f[FirstOf(V)] + g[V \ {FirstOf(V)}]
  BY DEF IsSum

\* The recursion determines its function, whatever set it is begun from.
LEMMA SumsAgree ==
  ASSUME NEW f, NEW S, NEW g, IsSum(g, f, S), NEW U \in SUBSET S, IsFiniteSet(U),
         NEW h, IsSum(h, f, U)
  PROVE  g[U] = h[U]
  <1> DEFINE T == {V \in SUBSET U : g[V] = h[V]}
  <1>1. ASSUME NEW V \in SUBSET U, \A W \in SUBSET V : W # V => W \in T
        PROVE  V \in T
    <2>1. V \in SUBSET S
      OBVIOUS
    <2>2. CASE V = {}
      <3>1. g[{}] = 0
        BY NothingSum
      <3>2. h[{}] = 0
        BY NothingSum
      <3> QED BY <2>2, <3>1, <3>2
    <2>3. CASE V # {}
      <3>1. PICK W : W = V \ {FirstOf(V)}
        OBVIOUS
      <3>2. W \in SUBSET V /\ W # V
        BY <2>3, <3>1, FirstIn
      <3>3. g[W] = h[W]
        BY <1>1, <3>2
      <3>4. g[V] = f[FirstOf(V)] + g[W] /\ h[V] = f[FirstOf(V)] + h[W]
        BY <2>1, <2>3, <3>1, RestSum
      <3> QED BY <3>3, <3>4
    <2> QED BY <2>2, <2>3
  <1>2. T \in SUBSET (SUBSET U)
    OBVIOUS
  <1> HIDE DEF T
  <1>3. T = SUBSET U
    BY <1>1, <1>2, SubsetInduction
  <1>4. U \in T
    BY <1>3
  <1> QED BY <1>4 DEF T

\* The sum over a subset is read from the recursive function of the whole.
LEMMA SumIs ==
  ASSUME NEW f, NEW S, IsFiniteSet(S), NEW g, IsSum(g, f, S), NEW U \in SUBSET S
  PROVE  SumOf(f, U) = g[U]
  <1> DEFINE r == [s \in SUBSET U |-> g[s]]
  <1>1. IsSum(r, f, U)
    <2>1. ASSUME NEW s \in SUBSET U
          PROVE  r[s] = IF s = {} THEN 0 ELSE f[FirstOf(s)] + r[s \ {FirstOf(s)}]
      <3>1. s \in SUBSET S /\ r[s] = g[s]
        OBVIOUS
      <3>2. PICK q : q = s \ {FirstOf(s)}
        OBVIOUS
      <3>3. r[q] = g[q] /\ r[{}] = g[{}]
        BY <3>2
      <3> HIDE DEF r
      <3>4. CASE s = {}
        <4>1. g[{}] = 0
          BY NothingSum
        <4> QED BY <3>1, <3>4, <4>1
      <3>5. CASE s # {}
        <4>1. g[s] = f[FirstOf(s)] + g[s \ {FirstOf(s)}]
          BY <3>1, <3>5, RestSum
        <4> QED BY <3>1, <3>2, <3>3, <3>5, <4>1
      <3> QED BY <3>4, <3>5
    <2> QED BY <2>1 DEF IsSum
  <1>2. PICK h : h = CHOOSE k : IsSum(k, f, U)
    OBVIOUS
  <1>3. IsSum(h, f, U)
    BY <1>1, <1>2
  <1>4. SumOf(f, U) = h[U]
    BY <1>2, SumUnfolds
  <1>5. IsFiniteSet(U)
    BY FS_Subset
  <1> QED BY <1>3, <1>4, <1>5, SumsAgree

\* There is such a function for every finite set.
LEMMA SumExists ==
  ASSUME NEW f, NEW S, IsFiniteSet(S)
  PROVE  \E g : IsSum(g, f, S)
  <1> DEFINE T == {V \in SUBSET S : \E g : IsSum(g, f, V)}
  <1>1. ASSUME NEW V \in SUBSET S, \A W \in SUBSET V : W # V => W \in T
        PROVE  V \in T
    <2> DEFINE h == [s \in SUBSET V |->
                       IF s = {} THEN 0 ELSE f[FirstOf(s)] + SumOf(f, s \ {FirstOf(s)})]
    <2>1. ASSUME NEW W \in SUBSET V, W # V
          PROVE  h[W] = SumOf(f, W)
      <3>1. PICK g : IsSum(g, f, W)
        BY <1>1, <2>1
      <3>2. IsFiniteSet(W)
        BY FS_Subset
      <3>3. SumOf(f, W) = g[W]
        BY <3>1, <3>2, SumIs
      <3>4. CASE W = {}
        <4>1. g[{}] = 0
          BY <3>1, NothingSum
        <4>2. h[W] = 0
          BY <3>4
        <4> QED BY <3>3, <3>4, <4>1, <4>2
      <3>5. CASE W # {}
        <4>1. PICK X : X = W \ {FirstOf(W)}
          OBVIOUS
        <4>2. SumOf(f, X) = g[X]
          BY <3>1, <3>2, <4>1, SumIs
        <4>3. g[W] = f[FirstOf(W)] + g[X]
          BY <3>1, <3>5, <4>1, RestSum
        <4>4. h[W] = f[FirstOf(W)] + SumOf(f, X)
          BY <3>5, <4>1
        <4> QED BY <3>3, <4>2, <4>3, <4>4
      <3> QED BY <3>4, <3>5
    <2>2. ASSUME NEW s \in SUBSET V
          PROVE  h[s] = IF s = {} THEN 0 ELSE f[FirstOf(s)] + h[s \ {FirstOf(s)}]
      <3>1. CASE s = {}
        BY <3>1
      <3>2. CASE s # {}
        <4>1. PICK W : W = s \ {FirstOf(s)}
          OBVIOUS
        <4>2. W \in SUBSET V /\ W # V
          BY <3>2, <4>1, FirstIn
        <4>3. h[W] = SumOf(f, W)
          BY <2>1, <4>2
        <4>4. h[s] = f[FirstOf(s)] + SumOf(f, W)
          BY <3>2, <4>1
        <4> QED BY <3>2, <4>1, <4>3, <4>4
      <3> QED BY <3>1, <3>2
    <2>3. h = [s \in SUBSET V |-> h[s]]
      OBVIOUS
    <2> HIDE DEF h
    <2>4. IsSum(h, f, V)
      BY <2>2, <2>3 DEF IsSum
    <2> QED BY <2>4
  <1>2. T \in SUBSET (SUBSET S)
    OBVIOUS
  <1> HIDE DEF T
  <1>3. S \in T
    BY <1>1, <1>2, SubsetInduction
  <1> QED BY <1>3 DEF T

\* The sum over no element is zero.
LEMMA SumEmpty == ASSUME NEW f PROVE SumOf(f, {}) = 0
  <1>1. IsFiniteSet({})
    BY FS_EmptySet
  <1>2. PICK g : IsSum(g, f, {})
    BY <1>1, SumExists
  <1> QED BY <1>1, <1>2, SumIs, NothingSum

\* The sum over a set is that of its first element and of the others.
LEMMA SumRest ==
  ASSUME NEW f, NEW S, IsFiniteSet(S), S # {}
  PROVE  SumOf(f, S) = f[FirstOf(S)] + SumOf(f, S \ {FirstOf(S)})
  <1>1. PICK g : IsSum(g, f, S)
    BY SumExists
  <1>2. PICK R : R = S \ {FirstOf(S)}
    OBVIOUS
  <1>3. SumOf(f, S) = g[S]
    BY <1>1, SumIs
  <1>4. SumOf(f, R) = g[R]
    BY <1>1, <1>2, SumIs
  <1>5. g[S] = f[FirstOf(S)] + g[R]
    BY <1>1, <1>2, RestSum
  <1> QED BY <1>2, <1>3, <1>4, <1>5

\* A finite sum of integers is an integer.
LEMMA SumInt ==
  ASSUME NEW f, NEW S, IsFiniteSet(S), \A x \in S : f[x] \in Int
  PROVE  SumOf(f, S) \in Int
  <1> DEFINE T == {V \in SUBSET S : SumOf(f, V) \in Int}
  <1>1. ASSUME NEW V \in SUBSET S, \A W \in SUBSET V : W # V => W \in T
        PROVE  V \in T
    <2>1. CASE V = {}
      BY <2>1, SumEmpty
    <2>2. CASE V # {}
      <3>1. PICK W : W = V \ {FirstOf(V)}
        OBVIOUS
      <3>2. W \in SUBSET V /\ W # V /\ f[FirstOf(V)] \in Int
        BY <2>2, <3>1, FirstIn
      <3>3. SumOf(f, W) \in Int
        BY <1>1, <3>2
      <3>4. SumOf(f, V) = f[FirstOf(V)] + SumOf(f, W)
        <4>1. IsFiniteSet(V)
          BY FS_Subset
        <4> QED BY <2>2, <3>1, <4>1, SumRest
      <3> QED BY <3>2, <3>3, <3>4
    <2> QED BY <2>1, <2>2
  <1>2. T \in SUBSET (SUBSET S)
    OBVIOUS
  <1> HIDE DEF T
  <1>3. S \in T
    BY <1>1, <1>2, SubsetInduction
  <1> QED BY <1>3 DEF T

\* Any element may be taken out of a sum, not only the first.
LEMMA SumWithout ==
  ASSUME NEW f, NEW S, IsFiniteSet(S), \A x \in S : f[x] \in Int, NEW x \in S
  PROVE  SumOf(f, S) = SumOf(f, S \ {x}) + f[x]
  <1> DEFINE T == {V \in SUBSET S : \A y \in V : SumOf(f, V) = SumOf(f, V \ {y}) + f[y]}
  <1>1. ASSUME NEW V \in SUBSET S, \A W \in SUBSET V : W # V => W \in T, NEW y \in V
        PROVE  SumOf(f, V) = SumOf(f, V \ {y}) + f[y]
    <2>1. PICK c : c = FirstOf(V)
      OBVIOUS
    <2>2. PICK W : W = V \ {c}
      OBVIOUS
    <2>3. c \in V /\ IsFiniteSet(V) /\ f[c] \in Int /\ f[y] \in Int
      BY <2>1, FirstIn, FS_Subset
    <2>4. SumOf(f, V) = f[c] + SumOf(f, W)
      BY <2>1, <2>2, <2>3, SumRest
    <2>5. \A X \in SUBSET V : SumOf(f, X) \in Int
      <3> TAKE X \in SUBSET V
      <3>1. IsFiniteSet(X) /\ \A z \in X : f[z] \in Int
        BY FS_Subset
      <3> QED BY <3>1, SumInt
    <2>6. CASE y = c
      BY <2>2, <2>3, <2>4, <2>5, <2>6
    <2>7. CASE y # c
      <3>1. PICK X : X = W \ {y}
        OBVIOUS
      <3>2. PICK Y : Y = V \ {y}
        OBVIOUS
      <3>3. SumOf(f, W) = SumOf(f, X) + f[y]
        <4>1. W \in T
          BY <1>1, <2>2, <2>3
        <4>2. y \in W
          BY <2>2, <2>7
        <4> QED BY <3>1, <4>1, <4>2
      <3>4. SumOf(f, Y) = SumOf(f, X) + f[c]
        <4>1. Y \in T
          BY <1>1, <3>2
        <4>2. c \in Y /\ X = Y \ {c}
          BY <2>2, <2>3, <2>7, <3>1, <3>2
        <4> QED BY <4>1, <4>2
      <3>5. SumOf(f, X) \in Int
        BY <2>2, <2>5, <3>1
      <3> QED BY <2>3, <2>4, <3>2, <3>3, <3>4, <3>5
    <2> QED BY <2>6, <2>7
  <1>2. ASSUME NEW V \in SUBSET S, \A W \in SUBSET V : W # V => W \in T
        PROVE  V \in T
    BY <1>1, <1>2
  <1>3. T \in SUBSET (SUBSET S)
    OBVIOUS
  <1> HIDE DEF T
  <1>4. S \in T
    BY <1>2, <1>3, SubsetInduction
  <1> QED BY <1>4 DEF T

\* An element that is new adds its value.
LEMMA SumAdd ==
  ASSUME NEW f, NEW S, IsFiniteSet(S), \A s \in S : f[s] \in Int,
         NEW x, x \notin S, f[x] \in Int
  PROVE  SumOf(f, S \cup {x}) = SumOf(f, S) + f[x]
  <1>1. PICK U : U = S \cup {x}
    OBVIOUS
  <1>2. IsFiniteSet(U) /\ x \in U /\ (\A s \in U : f[s] \in Int) /\ U \ {x} = S
    BY <1>1, FS_AddElement
  <1> QED BY <1>1, <1>2, SumWithout

\* The sums of disjoint sets add up.
LEMMA SumUnion ==
  ASSUME NEW f, NEW S, NEW U, IsFiniteSet(S), IsFiniteSet(U), S \cap U = {},
         \A s \in S \cup U : f[s] \in Int
  PROVE  SumOf(f, S \cup U) = SumOf(f, S) + SumOf(f, U)
  <1> DEFINE T == {V \in SUBSET U : SumOf(f, S \cup V) = SumOf(f, S) + SumOf(f, V)}
  <1>1. SumOf(f, S) \in Int
    BY SumInt
  <1>2. ASSUME NEW V \in SUBSET U, \A W \in SUBSET V : W # V => W \in T
        PROVE  V \in T
    <2>1. CASE V = {}
      <3>1. S \cup V = S /\ SumOf(f, V) = 0
        BY <2>1, SumEmpty
      <3>2. SumOf(f, S \cup V) = SumOf(f, S)
        BY <3>1
      <3> QED BY <1>1, <3>1, <3>2
    <2>2. CASE V # {}
      <3>1. PICK c : c \in V
        BY <2>2
      <3>2. PICK W : W = V \ {c}
        OBVIOUS
      <3>3. W \in SUBSET V /\ W # V /\ IsFiniteSet(V) /\ IsFiniteSet(W)
        BY <3>1, <3>2, FS_Subset
      <3>4. SumOf(f, S \cup W) = SumOf(f, S) + SumOf(f, W)
        BY <1>2, <3>3
      <3>5. f[c] \in Int /\ SumOf(f, W) \in Int
        <4>1. \A s \in W : f[s] \in Int
          BY <3>2
        <4> QED BY <3>1, <3>3, <4>1, SumInt
      <3>6. SumOf(f, V) = SumOf(f, W) + f[c]
        <4>1. \A s \in V : f[s] \in Int
          OBVIOUS
        <4> QED BY <3>1, <3>2, <3>3, <4>1, SumWithout
      <3>7. PICK X : X = S \cup V
        OBVIOUS
      <3>8. IsFiniteSet(X) /\ c \in X /\ (\A s \in X : f[s] \in Int) /\ X \ {c} = S \cup W
        <4>1. IsFiniteSet(X)
          BY <3>3, <3>7, FS_Union
        <4> QED BY <3>1, <3>2, <3>7, <4>1
      <3>9. SumOf(f, X) = SumOf(f, S \cup W) + f[c]
        BY <3>8, SumWithout
      <3> QED BY <1>1, <3>4, <3>5, <3>6, <3>7, <3>9
    <2> QED BY <2>1, <2>2
  <1>3. T \in SUBSET (SUBSET U)
    OBVIOUS
  <1> HIDE DEF T
  <1>4. U \in T
    BY <1>2, <1>3, SubsetInduction
  <1> QED BY <1>4 DEF T

\* A sum depends on the values at its elements only.
LEMMA SumSame ==
  ASSUME NEW f, NEW g, NEW S, IsFiniteSet(S), \A x \in S : f[x] = g[x]
  PROVE  SumOf(f, S) = SumOf(g, S)
  <1> DEFINE T == {V \in SUBSET S : SumOf(f, V) = SumOf(g, V)}
  <1>1. ASSUME NEW V \in SUBSET S, \A W \in SUBSET V : W # V => W \in T
        PROVE  V \in T
    <2>1. CASE V = {}
      BY <2>1, SumEmpty
    <2>2. CASE V # {}
      <3>1. PICK W : W = V \ {FirstOf(V)}
        OBVIOUS
      <3>2. W \in SUBSET V /\ W # V /\ f[FirstOf(V)] = g[FirstOf(V)] /\ IsFiniteSet(V)
        BY <2>2, <3>1, FirstIn, FS_Subset
      <3>3. SumOf(f, W) = SumOf(g, W)
        BY <1>1, <3>2
      <3>4. SumOf(f, V) = f[FirstOf(V)] + SumOf(f, W) /\ SumOf(g, V) = g[FirstOf(V)] + SumOf(g, W)
        BY <2>2, <3>1, <3>2, SumRest
      <3> QED BY <3>2, <3>3, <3>4
    <2> QED BY <2>1, <2>2
  <1>2. T \in SUBSET (SUBSET S)
    OBVIOUS
  <1> HIDE DEF T
  <1>3. S \in T
    BY <1>1, <1>2, SubsetInduction
  <1> QED BY <1>3 DEF T

\* The sum of differences is the difference of the sums.
LEMMA SumMinus ==
  ASSUME NEW f, NEW g, NEW h, NEW S, IsFiniteSet(S),
         \A x \in S : f[x] \in Int /\ g[x] \in Int /\ h[x] = f[x] - g[x]
  PROVE  SumOf(h, S) = SumOf(f, S) - SumOf(g, S)
  <1> DEFINE T == {V \in SUBSET S : SumOf(h, V) = SumOf(f, V) - SumOf(g, V)}
  <1>1. ASSUME NEW V \in SUBSET S, \A W \in SUBSET V : W # V => W \in T
        PROVE  V \in T
    <2>1. CASE V = {}
      BY <2>1, SumEmpty
    <2>2. CASE V # {}
      <3>1. PICK c : c = FirstOf(V)
        OBVIOUS
      <3>2. PICK W : W = V \ {c}
        OBVIOUS
      <3>3. W \in SUBSET V /\ W # V /\ c \in S /\ IsFiniteSet(V) /\ IsFiniteSet(W)
        BY <2>2, <3>1, <3>2, FirstIn, FS_Subset
      <3>4. SumOf(h, W) = SumOf(f, W) - SumOf(g, W)
        BY <1>1, <3>3
      <3>5. /\ SumOf(h, V) = h[c] + SumOf(h, W)
            /\ SumOf(f, V) = f[c] + SumOf(f, W) /\ SumOf(g, V) = g[c] + SumOf(g, W)
        BY <2>2, <3>1, <3>2, <3>3, SumRest
      <3>6. SumOf(f, W) \in Int /\ SumOf(g, W) \in Int
        BY <3>3, SumInt
      <3>7. f[c] \in Int /\ g[c] \in Int /\ h[c] = f[c] - g[c]
        BY <3>3
      <3>8. SumOf(h, V) = SumOf(f, V) - SumOf(g, V)
        BY <3>4, <3>5, <3>6, <3>7
      <3> QED BY <3>8
    <2> QED BY <2>1, <2>2
  <1>2. T \in SUBSET (SUBSET S)
    OBVIOUS
  <1> HIDE DEF T
  <1>3. S \in T
    BY <1>1, <1>2, SubsetInduction
  <1> QED BY <1>3 DEF T

\* A finite union of finite sets is finite.
LEMMA UnionFinite ==
  ASSUME NEW R, IsFiniteSet(R), NEW of, \A r \in R : IsFiniteSet(of[r])
  PROVE  IsFiniteSet(UNION {of[r] : r \in R})
  <1>1. PICK T : T = {of[r] : r \in R}
    OBVIOUS
  <1>2. IsFiniteSet(T) /\ \A t \in T : IsFiniteSet(t)
    BY <1>1, ImageFinite
  <1>3. IsFiniteSet(UNION T)
    BY <1>2, FS_UNION
  <1> QED BY <1>1, <1>3

\* The set U falls into finite sets of[r], and g[r] is the sum of f over of[r].
Fibers(U, R, of, f, g) ==
  /\ U = UNION {of[r] : r \in R}
  /\ \A r \in R : IsFiniteSet(of[r]) /\ g[r] = SumOf(f, of[r])
  /\ \A r \in R : \A x \in of[r] : f[x] \in Int
  /\ \A r, q \in R : r # q => of[r] \cap of[q] = {}

\* The sum over a union of sets apart from one another is the sum of their sums.
LEMMA SumFibers ==
  ASSUME NEW U, NEW R, IsFiniteSet(R), NEW of, NEW f, NEW g, Fibers(U, R, of, f, g)
  PROVE  IsFiniteSet(U) /\ SumOf(f, U) = SumOf(g, R)
  <1> USE DEF Fibers
  <1> DEFINE T == {V \in SUBSET R : SumOf(f, UNION {of[r] : r \in V}) = SumOf(g, V)}
  <1>1. \A r \in R : g[r] \in Int
    BY SumInt
  <1>2. ASSUME NEW V \in SUBSET R, \A W \in SUBSET V : W # V => W \in T
        PROVE  V \in T
    <2>1. CASE V = {}
      <3>1. UNION {of[r] : r \in V} = {}
        BY <2>1
      <3> QED BY <2>1, <3>1, SumEmpty
    <2>2. CASE V # {}
      <3>1. PICK c : c \in V
        BY <2>2
      <3>2. PICK W : W = V \ {c}
        OBVIOUS
      <3>3. PICK X : X = UNION {of[r] : r \in W}
        OBVIOUS
      <3>4. W \in SUBSET V /\ W # V /\ IsFiniteSet(V) /\ IsFiniteSet(W)
        BY <3>1, <3>2, FS_Subset
      <3>5. SumOf(f, X) = SumOf(g, W)
        BY <1>2, <3>3, <3>4
      <3>6. UNION {of[r] : r \in V} = X \cup of[c]
        BY <3>1, <3>2, <3>3
      <3>7. IsFiniteSet(X)
        <4>1. \A r \in W : IsFiniteSet(of[r])
          BY <3>2
        <4> QED BY <3>3, <3>4, <4>1, UnionFinite
      <3>8. X \cap of[c] = {}
        BY <3>1, <3>2, <3>3
      <3>9. \A x \in X \cup of[c] : f[x] \in Int
        BY <3>1, <3>2, <3>3
      <3>10. SumOf(f, X \cup of[c]) = SumOf(f, X) + SumOf(f, of[c])
        BY <3>1, <3>7, <3>8, <3>9, SumUnion
      <3>11. SumOf(g, V) = SumOf(g, W) + g[c]
        <4>1. \A r \in V : g[r] \in Int
          BY <1>1
        <4> QED BY <3>1, <3>2, <3>4, <4>1, SumWithout
      <3> QED BY <3>1, <3>5, <3>6, <3>10, <3>11
    <2> QED BY <2>1, <2>2
  <1>3. T \in SUBSET (SUBSET R)
    OBVIOUS
  <1> HIDE DEF T
  <1>4. R \in T
    BY <1>2, <1>3, SubsetInduction
  <1> QED BY <1>4, UnionFinite DEF T

\* Zeros sum to zero.
LEMMA SumZero ==
  ASSUME NEW f, NEW S, IsFiniteSet(S), \A x \in S : f[x] = 0
  PROVE  SumOf(f, S) = 0
  <1> DEFINE T == {V \in SUBSET S : SumOf(f, V) = 0}
  <1>1. ASSUME NEW V \in SUBSET S, \A W \in SUBSET V : W # V => W \in T
        PROVE  V \in T
    <2>1. CASE V = {}
      BY <2>1, SumEmpty
    <2>2. CASE V # {}
      <3>1. PICK W : W = V \ {FirstOf(V)}
        OBVIOUS
      <3>2. W \in SUBSET V /\ W # V /\ f[FirstOf(V)] = 0 /\ IsFiniteSet(V)
        BY <2>2, <3>1, FirstIn, FS_Subset
      <3>3. SumOf(f, W) = 0
        BY <1>1, <3>2
      <3>4. SumOf(f, V) = f[FirstOf(V)] + SumOf(f, W)
        BY <2>2, <3>1, <3>2, SumRest
      <3> QED BY <3>2, <3>3, <3>4
    <2> QED BY <2>1, <2>2
  <1>2. T \in SUBSET (SUBSET S)
    OBVIOUS
  <1> HIDE DEF T
  <1>3. S \in T
    BY <1>1, <1>2, SubsetInduction
  <1> QED BY <1>3 DEF T

\* A sum in which only the elements of K count.
LEMMA SumWhere ==
  ASSUME NEW S, IsFiniteSet(S), NEW K \in SUBSET S, NEW f, NEW g,
         \A x \in S : g[x] = IF x \in K THEN f[x] ELSE 0,
         \A x \in K : f[x] \in Int
  PROVE  SumOf(g, S) = SumOf(f, K)
  <1>1. PICK L : L = S \ K
    OBVIOUS
  <1>2. IsFiniteSet(K) /\ IsFiniteSet(L) /\ K \cap L = {} /\ S = K \cup L
    BY <1>1, FS_Subset
  <1>3. \A x \in K \cup L : g[x] \in Int
    BY <1>1
  <1>4. SumOf(g, S) = SumOf(g, K) + SumOf(g, L)
    BY <1>2, <1>3, SumUnion
  <1>5. \A x \in L : g[x] = 0
    BY <1>1
  <1>6. SumOf(g, L) = 0
    BY <1>2, <1>5, SumZero
  <1>7. \A x \in K : g[x] = f[x]
    OBVIOUS
  <1>8. SumOf(g, K) = SumOf(f, K)
    BY <1>2, <1>7, SumSame
  <1>9. SumOf(f, K) \in Int
    BY <1>2, SumInt
  <1> QED BY <1>4, <1>6, <1>8, <1>9

\* Ones sum to the number of elements.
LEMMA SumOnes ==
  ASSUME NEW f, NEW S, IsFiniteSet(S), \A x \in S : f[x] = 1
  PROVE  SumOf(f, S) = Cardinality(S)
  <1> DEFINE T == {V \in SUBSET S : SumOf(f, V) = Cardinality(V)}
  <1>1. ASSUME NEW V \in SUBSET S, \A W \in SUBSET V : W # V => W \in T
        PROVE  V \in T
    <2>1. CASE V = {}
      BY <2>1, SumEmpty, FS_EmptySet
    <2>2. CASE V # {}
      <3>1. PICK W : W = V \ {FirstOf(V)}
        OBVIOUS
      <3>2. /\ W \in SUBSET V /\ W # V /\ f[FirstOf(V)] = 1 /\ IsFiniteSet(V)
            /\ FirstOf(V) \in V
        BY <2>2, <3>1, FirstIn, FS_Subset
      <3>3. SumOf(f, W) = Cardinality(W)
        BY <1>1, <3>2
      <3>4. SumOf(f, V) = f[FirstOf(V)] + SumOf(f, W)
        BY <2>2, <3>1, <3>2, SumRest
      <3>5. Cardinality(W) = Cardinality(V) - 1 /\ Cardinality(V) \in Nat
        BY <3>1, <3>2, FS_RemoveElement, FS_CardinalityType
      <3> QED BY <3>2, <3>3, <3>4, <3>5
    <2> QED BY <2>1, <2>2
  <1>2. T \in SUBSET (SUBSET S)
    OBVIOUS
  <1> HIDE DEF T
  <1>3. S \in T
    BY <1>1, <1>2, SubsetInduction
  <1> QED BY <1>3 DEF T

\* The sum of one element, and of two.
LEMMA SumOne == ASSUME NEW f, NEW x, f[x] \in Int PROVE SumOf(f, {x}) = f[x]
  <1>1. PICK none : none = {}
    OBVIOUS
  <1>2. IsFiniteSet(none) /\ x \notin none /\ none \cup {x} = {x}
    BY <1>1, FS_EmptySet
  <1>3. SumOf(f, none \cup {x}) = SumOf(f, none) + f[x]
    BY <1>1, <1>2, SumAdd
  <1> QED BY <1>1, <1>2, <1>3, SumEmpty

\* The sum over two elements.
LEMMA SumTwo ==
  ASSUME NEW f, NEW x, NEW y, x # y, f[x] \in Int, f[y] \in Int
  PROVE  SumOf(f, {x, y}) = f[x] + f[y]
  <1>1. PICK one : one = {x}
    OBVIOUS
  <1>2. IsFiniteSet(one) /\ y \notin one /\ one \cup {y} = {x, y}
    BY <1>1, FS_Singleton
  <1>3. SumOf(f, one \cup {y}) = SumOf(f, one) + f[y]
    BY <1>1, <1>2, SumAdd
  <1> QED BY <1>1, <1>2, <1>3, SumOne

\* The sum of the field delta is the sum of the function that gives it.
LEMMA DeltaSums ==
  ASSUME NEW S, IsFiniteSet(S)
  PROVE  MapThenSumSet(LAMBDA r : r.delta, S) = SumOf([r \in S |-> r.delta], S)
  <1> DEFINE F == [r \in S |-> r.delta]
             Is(g) == g = [s \in SUBSET S |->
                             IF s = {} THEN 0 ELSE FirstOf(s).delta + g[s \ {FirstOf(s)}]]
  <1>1. MapThenSumSet(LAMBDA r : r.delta, S) = (CHOOSE g : Is(g))[S]
    BY DEF MapThenSumSet, MapThenFoldSet, FirstOf
  <1>2. \A g : Is(g) <=> IsSum(g, F, S)
    BY FirstIn DEF IsSum
  <1>3. PICK g : g = CHOOSE k : Is(k)
    OBVIOUS
  <1> HIDE DEF Is, F
  <1>4. IsSum(g, F, S)
    BY <1>2, <1>3, SumExists
  <1> QED BY <1>1, <1>3, <1>4, SumIs DEF F

\* What a set of ledger rows moved.
Moved(S) == MapThenSumSet(LAMBDA r : r.delta, S)

\* What a set of rows moved, as a sum.
LEMMA MovedIs ==
  ASSUME NEW S, IsFiniteSet(S), NEW f, \A r \in S : f[r] = r.delta
  PROVE  Moved(S) = SumOf(f, S)
  <1>1. PICK g : g = [r \in S |-> r.delta]
    OBVIOUS
  <1>2. Moved(S) = SumOf(g, S)
    BY <1>1, DeltaSums DEF Moved
  <1>3. \A r \in S : g[r] = f[r]
    BY <1>1
  <1> QED BY <1>2, <1>3, SumSame

\* No row moves nothing.
LEMMA MovedNothing == Moved({}) = 0
  <1>1. PICK f : f = [r \in {} |-> r.delta]
    OBVIOUS
  <1>2. IsFiniteSet({})
    BY FS_EmptySet
  <1> QED BY <1>1, <1>2, MovedIs, SumEmpty

\* What a finite set of rows moved is an integer.
LEMMA MovedInt ==
  ASSUME NEW S, IsFiniteSet(S), \A r \in S : r.delta \in Int
  PROVE  Moved(S) \in Int
  <1>1. PICK f : f = [r \in S |-> r.delta]
    OBVIOUS
  <1>2. \A r \in S : f[r] = r.delta /\ f[r] \in Int
    BY <1>1
  <1> QED BY <1>2, MovedIs, SumInt

\* What two disjoint sets of rows moved adds up.
LEMMA MovedUnion ==
  ASSUME NEW S, NEW U, IsFiniteSet(S), IsFiniteSet(U), S \cap U = {},
         \A r \in S \cup U : r.delta \in Int
  PROVE  Moved(S \cup U) = Moved(S) + Moved(U)
  <1>1. PICK V : V = S \cup U
    OBVIOUS
  <1>2. PICK f : f = [r \in V |-> r.delta]
    OBVIOUS
  <1>3. \A r \in V : f[r] = r.delta /\ f[r] \in Int
    BY <1>1, <1>2
  <1>4. IsFiniteSet(V)
    BY <1>1, FS_Union
  <1>5. Moved(S) = SumOf(f, S) /\ Moved(U) = SumOf(f, U) /\ Moved(V) = SumOf(f, V)
    BY <1>1, <1>3, <1>4, MovedIs
  <1>6. SumOf(f, S \cup U) = SumOf(f, S) + SumOf(f, U)
    BY <1>1, <1>3, SumUnion
  <1> QED BY <1>1, <1>5, <1>6

\* A new row moves its delta.
LEMMA MovedAdd ==
  ASSUME NEW S, IsFiniteSet(S), \A r \in S : r.delta \in Int,
         NEW x, x \notin S, x.delta \in Int
  PROVE  Moved(S \cup {x}) = Moved(S) + x.delta
  <1>1. PICK V : V = S \cup {x}
    OBVIOUS
  <1>2. PICK f : f = [r \in V |-> r.delta]
    OBVIOUS
  <1>3. \A r \in V : f[r] = r.delta /\ f[r] \in Int
    BY <1>1, <1>2
  <1>4. IsFiniteSet(V)
    BY <1>1, FS_AddElement
  <1>5. Moved(S) = SumOf(f, S) /\ Moved(V) = SumOf(f, V)
    BY <1>1, <1>3, <1>4, MovedIs
  <1>6. SumOf(f, S \cup {x}) = SumOf(f, S) + f[x]
    BY <1>1, <1>3, SumAdd
  <1> QED BY <1>1, <1>3, <1>5, <1>6

=============================================================================
