---------------------------- MODULE DataTheorems ----------------------------
(***************************************************************************)
(* Facts about data that the proofs of several components cite: sums over  *)
(* finite sets, the kth of a set of numbers, the words of a text and the   *)
(* cells of a line.                                                        *)
(*                                                                         *)
(* The sums are those of the community modules, SumFunctionOnSet and       *)
(* SumFunction.  A sum is a recursive function on the subsets of a set.    *)
(* The library's induction theorems have an operator parameter; here the   *)
(* induction is over a set P of subsets, by well-foundedness: a smallest   *)
(* subset outside of P would have all its strict subsets in P.  In the     *)
(* same way UpTo is over a set of numbers.                                 *)
(*                                                                         *)
(* A text is read piece by piece: ReadsAs says which words a text is so    *)
(* far and which one is being written, and what another piece does to      *)
(* them.  The cells of a line are counted from its end: what get_cells()   *)
(* finds from the kth separator on are the fields from k + 1 on.           *)
(***************************************************************************)
EXTENDS SqlWords, CsvLoader, SequenceTheorems, FiniteSetTheorems, TLAPS

\* The element a fold takes out first.
First(s) == CHOOSE x \in s : TRUE

Rest(s) == s \ {First(s)}

\* The equation of the sum's recursive function, and its solution.
Sums(f, S, g) ==
  g = [s \in SUBSET S |-> IF s = {} THEN 0 ELSE f[First(s)] + g[Rest(s)]]

TheSums(f, S) == CHOOSE g : Sums(f, S, g)

\* A property of the empty set that passes from all strict subsets to a set
\* holds of every subset of a finite set.
LEMMA SubsetInduction ==
  ASSUME NEW S, IsFiniteSet(S), NEW P,
         \A T \in SUBSET S : (\A U \in SUBSET T : U # T => U \in P) => T \in P
  PROVE  \A T \in SUBSET S : T \in P
<1> DEFINE Bad == (SUBSET S) \ P
           R   == StrictSubsetOrdering(S)
<1>1. IsWellFoundedOn(R, SUBSET S)
  BY FS_StrictSubsetOrderingWellFounded, FS_FiniteSubsetsOfFinite
<1>2. SUFFICES ASSUME Bad # {} PROVE FALSE
  OBVIOUS
<1>3. PICK T \in Bad : \A U \in Bad : <<U, T>> \notin R
  <2>1. Bad \subseteq SUBSET S
    OBVIOUS
  <2> HIDE DEF Bad, R
  <2>2. QED
    BY <1>1, <1>2, <2>1, WFMin
<1>4. \A U \in SUBSET T : U # T => U \in P
  BY <1>3 DEF StrictSubsetOrdering
<1>5. QED  BY <1>3, <1>4

LEMMA FirstRest ==
  ASSUME NEW s, s # {}
  PROVE  First(s) \in s /\ Rest(s) \subseteq s /\ Rest(s) # s
  BY DEF First, Rest

\* Solutions agree where both are defined ...
LEMMA SumsUnique ==
  ASSUME NEW f, NEW A, IsFiniteSet(A), NEW B,
         NEW g, NEW h, Sums(f, A, g), Sums(f, B, h)
  PROVE  \A T \in SUBSET A : T \subseteq B => g[T] = h[T]
<1> DEFINE P == {T \in SUBSET A : T \subseteq B => g[T] = h[T]}
<1>1. ASSUME NEW T \in SUBSET A, \A U \in SUBSET T : U # T => U \in P
      PROVE  T \in P
  <2>1. SUFFICES ASSUME T \subseteq B PROVE g[T] = h[T]
    OBVIOUS
  <2>2. CASE T = {}
    BY <2>1, <2>2 DEF Sums
  <2>3. CASE T # {}
    <3>1. g[Rest(T)] = h[Rest(T)]
      BY <1>1, <2>1, <2>3, FirstRest
    <3>2. g[T] = f[First(T)] + g[Rest(T)] /\ h[T] = f[First(T)] + h[Rest(T)]
      BY <2>1, <2>3 DEF Sums
    <3>3. QED  BY <3>1, <3>2
  <2>4. QED  BY <2>2, <2>3
<1>2. \A T \in SUBSET A : T \in P
  <2> HIDE DEF P
  <2>1. QED  BY <1>1, SubsetInduction
<1>3. QED  BY <1>2

\* ... and there is one for every finite set.
LEMMA SumsExist ==
  ASSUME NEW f, NEW S, IsFiniteSet(S)
  PROVE  \A T \in SUBSET S : Sums(f, T, TheSums(f, T))
<1> DEFINE P == {T \in SUBSET S : Sums(f, T, TheSums(f, T))}
<1>1. ASSUME NEW T \in SUBSET S, \A U \in SUBSET T : U # T => U \in P
      PROVE  T \in P
  <2> DEFINE g == [s \in SUBSET T |->
                     IF s = {} THEN 0
                     ELSE f[First(s)] + TheSums(f, Rest(s))[Rest(s)]]
  <2>1. ASSUME NEW s \in SUBSET T, s # {}
        PROVE  g[Rest(s)] = TheSums(f, Rest(s))[Rest(s)]
    <3> DEFINE U == Rest(s)
    <3>1. U \in SUBSET T /\ U \in SUBSET S /\ Sums(f, U, TheSums(f, U))
      <4>1. U \in SUBSET T /\ U # T
        BY <2>1, FirstRest
      <4>2. U \in P
        BY <1>1, <4>1
      <4>3. QED  BY <4>1, <4>2
    <3>2. CASE U = {}
      BY <3>1, <3>2 DEF Sums
    <3>3. CASE U # {}
      <4>1. Rest(U) \in SUBSET U /\ Rest(U) # U
        BY <3>3, FirstRest
      <4>2. TheSums(f, U)[Rest(U)] = TheSums(f, Rest(U))[Rest(U)]
        <5>1. Rest(U) \in P
          BY <1>1, <3>1, <4>1
        <5>2. /\ IsFiniteSet(U)
              /\ Sums(f, Rest(U), TheSums(f, Rest(U)))
          BY <3>1, <5>1, FS_Subset
        <5> HIDE DEF U
        <5>3. \A V \in SUBSET U : V \subseteq Rest(U) =>
                TheSums(f, U)[V] = TheSums(f, Rest(U))[V]
          BY <3>1, <5>2, SumsUnique
        <5>4. QED  BY <4>1, <5>2, <5>3
      <4>3. TheSums(f, U)[U] = f[First(U)] + TheSums(f, U)[Rest(U)]
        BY <3>1, <3>3 DEF Sums
      <4>4. g[U] = f[First(U)] + TheSums(f, Rest(U))[Rest(U)]
        BY <3>1, <3>3
      <4>5. QED  BY <4>2, <4>3, <4>4
    <3>4. QED  BY <3>2, <3>3
  <2>2. Sums(f, T, g)
    BY <2>1 DEF Sums
  <2>3. Sums(f, T, TheSums(f, T))
    <3> HIDE DEF g
    <3>1. QED  BY <2>2 DEF TheSums
  <2>4. QED  BY <2>3
<1>2. \A T \in SUBSET S : T \in P
  <2> HIDE DEF P
  <2>1. QED  BY <1>1, SubsetInduction
<1>3. QED  BY <1>2

LEMMA SumIsTheSums ==
  ASSUME NEW f, NEW S
  PROVE  SumFunctionOnSet(f, S) = TheSums(f, S)[S]
  BY DEF SumFunctionOnSet, FoldFunctionOnSet, MapThenFoldSet, TheSums, Sums,
         First, Rest

LEMMA SumOfPart ==
  ASSUME NEW f, NEW S, IsFiniteSet(S), NEW T \in SUBSET S
  PROVE  TheSums(f, S)[T] = SumFunctionOnSet(f, T)
<1> DEFINE g == TheSums(f, S)
           h == TheSums(f, T)
<1>1. S \in SUBSET S /\ T \subseteq T
  OBVIOUS
<1>2. Sums(f, S, g) /\ Sums(f, T, h)
  BY <1>1, SumsExist
<1> HIDE DEF g, h
<1>3. \A U \in SUBSET S : U \subseteq T => g[U] = h[U]
  BY <1>1, <1>2, SumsUnique
<1>4. QED  BY <1>1, <1>3, SumIsTheSums DEF g, h

-------------------------------------------------------------------------------
\* Nothing adds up to 0.
LEMMA SumOfNone == ASSUME NEW f PROVE SumFunctionOnSet(f, {}) = 0
<1>1. Sums(f, {}, TheSums(f, {}))
  BY SumsExist, FS_EmptySet
<1>2. QED  BY <1>1, SumIsTheSums DEF Sums

LEMMA SumUnfolds ==
  ASSUME NEW f, NEW S, IsFiniteSet(S), S # {}
  PROVE  SumFunctionOnSet(f, S) = f[First(S)] + SumFunctionOnSet(f, Rest(S))
<1>1. Sums(f, S, TheSums(f, S))
  BY SumsExist
<1>2. TheSums(f, S)[S] = f[First(S)] + TheSums(f, S)[Rest(S)]
  BY <1>1 DEF Sums
<1>3. Rest(S) \in SUBSET S
  BY FirstRest
<1>4. QED  BY <1>2, <1>3, SumIsTheSums, SumOfPart

\* A sum of integers is an integer.
LEMMA SumType ==
  ASSUME NEW f, NEW S, IsFiniteSet(S), \A x \in S : f[x] \in Int
  PROVE  SumFunctionOnSet(f, S) \in Int
<1> DEFINE P == {T \in SUBSET S : SumFunctionOnSet(f, T) \in Int}
<1>1. ASSUME NEW T \in SUBSET S, \A U \in SUBSET T : U # T => U \in P
      PROVE  T \in P
  <2>1. CASE T = {}
    BY <2>1, SumOfNone
  <2>2. CASE T # {}
    <3>1. Rest(T) \in P /\ First(T) \in S
      BY <1>1, <2>2, FirstRest
    <3>2. SumFunctionOnSet(f, T) = f[First(T)] + SumFunctionOnSet(f, Rest(T))
      BY <2>2, FS_Subset, SumUnfolds
    <3>3. QED  BY <3>1, <3>2
  <2>3. QED  BY <2>1, <2>2
<1>2. \A T \in SUBSET S : T \in P
  <2> HIDE DEF P
  <2>1. QED  BY <1>1, SubsetInduction
<1>3. QED  BY <1>2

\* Any element may be taken out first.
LEMMA SumTakesOut ==
  ASSUME NEW f, NEW S, IsFiniteSet(S), \A x \in S : f[x] \in Int, NEW x \in S
  PROVE  SumFunctionOnSet(f, S) = f[x] + SumFunctionOnSet(f, S \ {x})
<1> DEFINE P == {T \in SUBSET S : \A y \in T :
                   SumFunctionOnSet(f, T) = f[y] + SumFunctionOnSet(f, T \ {y})}
<1>1. ASSUME NEW T \in SUBSET S, \A U \in SUBSET T : U # T => U \in P
      PROVE  T \in P
  <2>1. SUFFICES ASSUME NEW y \in T
                 PROVE  SumFunctionOnSet(f, T)
                          = f[y] + SumFunctionOnSet(f, T \ {y})
    OBVIOUS
  <2>2. IsFiniteSet(T) /\ IsFiniteSet(T \ {y})
    BY FS_Subset, FS_RemoveElement
  <2>3. SumFunctionOnSet(f, T) = f[First(T)] + SumFunctionOnSet(f, Rest(T))
    BY <2>2, SumUnfolds
  <2>4. CASE y = First(T)
    BY <2>3, <2>4 DEF Rest
  <2>5. CASE y # First(T)
    <3> DEFINE z == First(T)
               V == (T \ {y}) \ {z}
    <3>1. z \in T /\ Rest(T) \in P /\ T \ {y} \in P
      BY <1>1, FirstRest
    <3>2. Rest(T) \ {y} = V /\ y \in Rest(T) /\ z \in T \ {y}
      BY <2>5, <3>1 DEF Rest
    <3>3. SumFunctionOnSet(f, Rest(T)) = f[y] + SumFunctionOnSet(f, V)
      BY <3>1, <3>2
    <3>4. SumFunctionOnSet(f, T \ {y}) = f[z] + SumFunctionOnSet(f, V)
      BY <3>1, <3>2
    <3>5. /\ f[y] \in Int /\ f[z] \in Int /\ SumFunctionOnSet(f, V) \in Int
      <4>1. IsFiniteSet(V) /\ V \subseteq S
        BY <2>2, FS_RemoveElement
      <4>2. QED  BY <3>1, <4>1, SumType
    <3> HIDE DEF V, z
    <3>6. f[z] + (f[y] + SumFunctionOnSet(f, V))
            = f[y] + (f[z] + SumFunctionOnSet(f, V))
      BY <3>5
    <3>7. QED  BY <2>3, <3>3, <3>4, <3>6 DEF z
  <2>6. QED  BY <2>4, <2>5
<1>2. \A T \in SUBSET S : T \in P
  <2> HIDE DEF P
  <2>1. QED  BY <1>1, SubsetInduction
<1>3. QED  BY <1>2

\* The sum depends on the values on the set alone.
LEMMA SumAgrees ==
  ASSUME NEW f, NEW g, NEW S, IsFiniteSet(S), \A x \in S : f[x] = g[x]
  PROVE  SumFunctionOnSet(f, S) = SumFunctionOnSet(g, S)
<1> DEFINE P == {T \in SUBSET S : SumFunctionOnSet(f, T) = SumFunctionOnSet(g, T)}
<1>1. ASSUME NEW T \in SUBSET S, \A U \in SUBSET T : U # T => U \in P
      PROVE  T \in P
  <2>1. CASE T = {}
    BY <2>1, SumOfNone
  <2>2. CASE T # {}
    <3>1. Rest(T) \in P /\ First(T) \in S
      BY <1>1, <2>2, FirstRest
    <3>2. /\ SumFunctionOnSet(f, T) = f[First(T)] + SumFunctionOnSet(f, Rest(T))
          /\ SumFunctionOnSet(g, T) = g[First(T)] + SumFunctionOnSet(g, Rest(T))
      BY <2>2, FS_Subset, SumUnfolds
    <3>3. QED  BY <3>1, <3>2
  <2>3. QED  BY <2>1, <2>2
<1>2. \A T \in SUBSET S : T \in P
  <2> HIDE DEF P
  <2>1. QED  BY <1>1, SubsetInduction
<1>3. QED  BY <1>2

\* Equal terms add up to a product.
LEMMA SumOfEqualTerms ==
  ASSUME NEW f, NEW S, IsFiniteSet(S), NEW k \in Int, \A x \in S : f[x] = k
  PROVE  SumFunctionOnSet(f, S) = k * Cardinality(S)
<1> DEFINE P == {T \in SUBSET S : SumFunctionOnSet(f, T) = k * Cardinality(T)}
<1>1. ASSUME NEW T \in SUBSET S, \A U \in SUBSET T : U # T => U \in P
      PROVE  T \in P
  <2>1. CASE T = {}
    BY <2>1, SumOfNone, FS_EmptySet
  <2>2. CASE T # {}
    <3>1. Rest(T) \in P /\ First(T) \in T
      BY <1>1, <2>2, FirstRest
    <3>2. IsFiniteSet(T)
      BY FS_Subset
    <3>3. SumFunctionOnSet(f, T) = k + SumFunctionOnSet(f, Rest(T))
      BY <2>2, <3>1, <3>2, SumUnfolds
    <3>4. /\ Cardinality(Rest(T)) = Cardinality(T) - 1
          /\ Cardinality(T) \in Nat
      BY <3>1, <3>2, FS_RemoveElement, FS_CardinalityType DEF Rest
    <3>5. k + k * (Cardinality(T) - 1) = k * Cardinality(T)
      BY <3>4
    <3>6. QED  BY <3>1, <3>3, <3>4, <3>5
  <2>3. QED  BY <2>1, <2>2
<1>2. \A T \in SUBSET S : T \in P
  <2> HIDE DEF P
  <2>1. QED  BY <1>1, SubsetInduction
<1>3. QED  BY <1>2

-------------------------------------------------------------------------------
(* The same for the sum of all values of a function.                       *)

\* A total of integers is an integer.
LEMMA TotalType ==
  ASSUME NEW S, IsFiniteSet(S), NEW f \in [S -> Int]
  PROVE  SumFunction(f) \in Int
  BY SumType DEF SumFunction

\* One value that changes changes the total by the same amount.
LEMMA TotalChanges ==
  ASSUME NEW S, IsFiniteSet(S), NEW f \in [S -> Int], NEW g \in [S -> Int],
         NEW x \in S, \A y \in S \ {x} : g[y] = f[y]
  PROVE  SumFunction(g) = SumFunction(f) + g[x] - f[x]
<1>1. /\ SumFunctionOnSet(f, S) = f[x] + SumFunctionOnSet(f, S \ {x})
      /\ SumFunctionOnSet(g, S) = g[x] + SumFunctionOnSet(g, S \ {x})
  BY SumTakesOut
<1>2. IsFiniteSet(S \ {x})
  BY FS_RemoveElement
<1>3. SumFunctionOnSet(f, S \ {x}) = SumFunctionOnSet(g, S \ {x})
  BY <1>2, SumAgrees
<1>4. SumFunctionOnSet(f, S \ {x}) \in Int /\ f[x] \in Int /\ g[x] \in Int
  BY <1>2, SumType
<1>5. QED  BY <1>1, <1>3, <1>4 DEF SumFunction

\* A function with one value everywhere totals that value times its domain.
LEMMA TotalOfEqualTerms ==
  ASSUME NEW S, IsFiniteSet(S), NEW k \in Int, NEW f \in [S -> Int],
         \A x \in S : f[x] = k
  PROVE  SumFunction(f) = k * Cardinality(S)
  BY SumOfEqualTerms DEF SumFunction

-------------------------------------------------------------------------------
(* The kth of a set of numbers *)

Rank(S, r) == Cardinality({s \in S : s <= r})

LEMMA RankGrows ==
  ASSUME NEW S \in SUBSET Int, IsFiniteSet(S)
  PROVE  /\ \A r \in S : Rank(S, r) \in 1 .. Cardinality(S)
         /\ \A r, t \in S : r < t => Rank(S, r) < Rank(S, t)
<1> DEFINE Below(r) == {s \in S : s <= r}
<1>0. Cardinality(S) \in Nat
  BY FS_CardinalityType
<1>1. ASSUME NEW r \in S
      PROVE  /\ IsFiniteSet(Below(r)) /\ Cardinality(Below(r)) \in 1 .. Cardinality(S)
  <2>1. Below(r) \in SUBSET S /\ r \in Below(r)
    OBVIOUS
  <2> HIDE DEF Below
  <2>2. IsFiniteSet(Below(r)) /\ Cardinality(Below(r)) <= Cardinality(S)
    BY <2>1, FS_Subset
  <2>3. Cardinality(Below(r)) \in Nat /\ Cardinality(Below(r)) # 0
    BY <2>1, <2>2, FS_CardinalityType, FS_EmptySet
  <2>4. QED  BY <1>0, <2>2, <2>3
<1>2. ASSUME NEW r \in S, NEW t \in S, r < t
      PROVE  Cardinality(Below(r)) < Cardinality(Below(t))
  <2>1. Below(r) \in SUBSET Below(t) /\ Below(r) # Below(t)
    <3>1. t \in Below(t) /\ t \notin Below(r)
      BY <1>2
    <3>2. ASSUME NEW s \in S, s <= r PROVE s <= t
      <4>1. s \in Int /\ r \in Int /\ t \in Int
        BY <1>2
      <4>2. QED  BY <1>2, <3>2, <4>1
    <3>3. QED  BY <3>1, <3>2
  <2>2. /\ IsFiniteSet(Below(t))
        /\ Cardinality(Below(r)) \in Nat /\ Cardinality(Below(t)) \in Nat
    BY <1>1
  <2> HIDE DEF Below
  <2>3. /\ Cardinality(Below(r)) <= Cardinality(Below(t))
        /\ Cardinality(Below(r)) # Cardinality(Below(t))
    BY <2>1, <2>2, FS_Subset
  <2>4. QED  BY <2>2, <2>3
<1>3. QED  BY <1>1, <1>2 DEF Rank

LEMMA RanksAreTaken ==
  ASSUME NEW S \in SUBSET Int, IsFiniteSet(S)
  PROVE  \A k \in 1 .. Cardinality(S) : \E r \in S : Rank(S, r) = k
<1> DEFINE n == Cardinality(S)
           f == [r \in S |-> Rank(S, r)]
<1>0. n \in Nat
  BY FS_CardinalityType
<1>1. IsFiniteSet(1 .. n) /\ Cardinality(1 .. n) = n
  BY <1>0, FS_Interval
<1>2. f \in Injection(S, 1 .. n)
  <2>1. f \in [S -> 1 .. n]
    BY RankGrows
  <2>2. ASSUME NEW r \in S, NEW t \in S, f[r] = f[t] PROVE r = t
    <3>1. Rank(S, r) = Rank(S, t) /\ Rank(S, r) \in Int
      BY <2>2, RankGrows
    <3>2. ~ (r < t) /\ ~ (t < r)
      BY <3>1, RankGrows
    <3>3. QED  BY <3>2
  <2>3. QED  BY <2>1, <2>2 DEF Injection, IsInjective
<1> HIDE DEF f, n
<1>3. f \in Surjection(S, 1 .. n)
  BY <1>1, <1>2, FS_Injection DEF n
<1>4. \A k \in 1 .. n : \E r \in S : f[r] = k
  BY <1>3 DEF Surjection
<1>5. QED  BY <1>4 DEF f, n

\* Nth counts through the set in increasing order.
LEMMA NthCounts ==
  ASSUME NEW S \in SUBSET Int, IsFiniteSet(S)
  PROVE  /\ Cardinality(S) \in Nat
         /\ \A k \in 1 .. Cardinality(S) : Nth(S, k) \in S
         /\ \A r \in S : \E k \in 1 .. Cardinality(S) : Nth(S, k) = r
         /\ \A k, l \in 1 .. Cardinality(S) : k < l => Nth(S, k) < Nth(S, l)
<1>0. Cardinality(S) \in Nat
  BY FS_CardinalityType
<1>1. ASSUME NEW k \in 1 .. Cardinality(S)
      PROVE  Nth(S, k) \in S /\ Rank(S, Nth(S, k)) = k
  <2>1. \E r \in S : Rank(S, r) = k
    BY RanksAreTaken
  <2>2. QED  BY <2>1 DEF Nth, Rank
<1>2. ASSUME NEW k \in 1 .. Cardinality(S), NEW l \in 1 .. Cardinality(S), k < l
      PROVE  Nth(S, k) < Nth(S, l)
  <2>1. /\ Nth(S, k) \in S /\ Nth(S, l) \in S /\ Nth(S, k) \in Int /\ Nth(S, l) \in Int
        /\ Rank(S, Nth(S, k)) = k /\ Rank(S, Nth(S, l)) = l
    BY <1>1
  <2>2. ~ (Rank(S, Nth(S, l)) < Rank(S, Nth(S, k)))
        /\ Rank(S, Nth(S, k)) # Rank(S, Nth(S, l))
    BY <1>2, <2>1
  <2>3. ~ (Nth(S, l) < Nth(S, k)) /\ Nth(S, k) # Nth(S, l)
    BY <2>1, <2>2, RankGrows
  <2>4. QED  BY <2>1, <2>3
<1>3. ASSUME NEW r \in S PROVE \E k \in 1 .. Cardinality(S) : Nth(S, k) = r
  <2>1. Rank(S, r) \in 1 .. Cardinality(S)
    BY RankGrows
  <2>2. PICK k \in 1 .. Cardinality(S) : k = Rank(S, r)
    BY <2>1
  <2>3. Nth(S, k) \in S /\ Rank(S, Nth(S, k)) = Rank(S, r)
    BY <1>1, <2>2
  <2>4. /\ Nth(S, k) \in Int /\ r \in Int
        /\ Rank(S, r) \in Int /\ Rank(S, Nth(S, k)) \in Int
    <3>1. Rank(S, r) \in Int
      BY <1>0, <2>1
    <3>2. QED  BY <2>3, <3>1
  <2>5. ~ (Nth(S, k) < r) /\ ~ (r < Nth(S, k))
    BY <2>3, <2>4, RankGrows
  <2>6. QED  BY <2>4, <2>5
<1>4. QED  BY <1>0, <1>1, <1>2, <1>3

\* Nth is the inverse of the rank.
LEMMA NthIs ==
  ASSUME NEW S \in SUBSET Int, IsFiniteSet(S), NEW r \in S
  PROVE  Nth(S, Rank(S, r)) = r
<1>1. /\ \A t \in S : Rank(S, t) \in 1 .. Cardinality(S)
      /\ \A t, u \in S : t < u => Rank(S, t) < Rank(S, u)
  BY RankGrows
<1>2. ASSUME NEW t \in S, Rank(S, t) = Rank(S, r) PROVE t = r
  <2>1. t \in Int /\ r \in Int /\ Rank(S, t) \in Int /\ Rank(S, r) \in Int
    <3>1. \A k \in 1 .. Cardinality(S) : k \in Int
      BY FS_CardinalityType
    <3>2. QED  BY <1>1, <3>1
  <2>2. ~ (t < r) /\ ~ (r < t)
    BY <1>1, <1>2, <2>1
  <2>3. QED  BY <2>1, <2>2
<1>3. QED  BY <1>2 DEF Nth, Rank

\* A finite set of numbers has a least.
LEMMA Smallest ==
  ASSUME NEW S \in SUBSET Int, IsFiniteSet(S), S # {}
  PROVE  \E r \in S : \A t \in S : r <= t
<1>1. Cardinality(S) \in Nat /\ Cardinality(S) # 0
  BY FS_CardinalityType, FS_EmptySet
<1>2. 1 \in 1 .. Cardinality(S)
  BY <1>1
<1>3. Nth(S, 1) \in S
  BY <1>2, NthCounts
<1>4. ASSUME NEW t \in S PROVE Nth(S, 1) <= t
  <2>1. PICK k \in 1 .. Cardinality(S) : Nth(S, k) = t
    BY NthCounts
  <2>2. Nth(S, 1) \in Int /\ t \in Int
    BY <1>3
  <2>3. CASE k = 1
    BY <2>1, <2>2, <2>3
  <2>4. CASE k # 1
    <3>1. 1 < k
      BY <1>1, <2>4
    <3>2. Nth(S, 1) < Nth(S, k)
      BY <1>2, <3>1, NthCounts
    <3>3. QED  BY <2>1, <2>2, <3>2
  <2>5. QED  BY <2>3, <2>4
<1>5. QED  BY <1>3, <1>4

\* What holds of 0 and passes from each number to the next holds up to n.
LEMMA UpTo ==
  ASSUME NEW n \in Nat, NEW P, 0 \in P, \A k \in 0 .. n - 1 : k \in P => k + 1 \in P
  PROVE  \A k \in 0 .. n : k \in P
<1> DEFINE Bad == (0 .. n) \ P
<1>1. SUFFICES ASSUME Bad # {} PROVE FALSE
  OBVIOUS
<1>2. Bad \in SUBSET Int /\ IsFiniteSet(Bad)
  <2>1. IsFiniteSet(0 .. n)
    BY FS_Interval
  <2>2. QED  BY <2>1, FS_Subset
<1>3. PICK m \in Bad : \A k \in Bad : m <= k
  <2> HIDE DEF Bad
  <2>1. QED  BY <1>1, <1>2, Smallest
<1>4. m \in 1 .. n /\ m - 1 \in 0 .. n - 1 /\ m - 1 \in 0 .. n /\ (m - 1) + 1 = m
  OBVIOUS
<1>5. ~ (m <= m - 1)
  BY <1>4
<1>6. m - 1 \in P
  BY <1>3, <1>4, <1>5
<1>7. QED  BY <1>4, <1>6

-------------------------------------------------------------------------------
(* Sequences that are taken apart *)

\* What is below a new greatest number keeps its rank.
LEMMA NthBelow ==
  ASSUME NEW S \in SUBSET Int, IsFiniteSet(S), NEW b \in Int, \A s \in S : s < b
  PROVE  /\ Cardinality(S) \in Nat
         /\ IsFiniteSet(S \cup {b}) /\ Cardinality(S \cup {b}) = Cardinality(S) + 1
         /\ \A k \in 1 .. Cardinality(S) : Nth(S \cup {b}, k) = Nth(S, k)
         /\ Nth(S \cup {b}, Cardinality(S) + 1) = b
<1> DEFINE T == S \cup {b}
           n == Cardinality(S)
<1>1. n \in Nat /\ b \notin S
  BY FS_CardinalityType
<1>2. IsFiniteSet(T) /\ Cardinality(T) = n + 1 /\ T \in SUBSET Int
  BY <1>1, FS_AddElement
<1>3. ASSUME NEW k \in 1 .. n PROVE Nth(T, k) = Nth(S, k)
  <2>1. PICK r \in S : Rank(S, r) = k
    BY RanksAreTaken
  <2>2. {s \in T : s <= r} = {s \in S : s <= r}
    OBVIOUS
  <2>3. Rank(T, r) = k
    BY <2>1, <2>2 DEF Rank
  <2>4. Nth(S, k) = r
    BY <2>1, NthIs
  <2>5. Nth(T, k) = r
    <3>1. r \in T
      OBVIOUS
    <3> HIDE DEF T
    <3>2. QED  BY <1>2, <2>3, <3>1, NthIs
  <2>6. QED  BY <2>4, <2>5
<1>4. Nth(T, n + 1) = b
  <2>1. {s \in T : s <= b} = T /\ b \in T
    <3>1. \A s \in T : s <= b
      OBVIOUS
    <3>2. QED  BY <3>1
  <2>2. Rank(T, b) = n + 1
    BY <1>2, <2>1 DEF Rank
  <2> HIDE DEF T
  <2>3. QED  BY <1>2, <2>1, <2>2, NthIs
<1>5. QED  BY <1>1, <1>2, <1>3, <1>4

\* The numbers up to n are counted by themselves.
LEMMA NthOfAll ==
  ASSUME NEW n \in Nat, NEW k \in 1 .. n
  PROVE  Nth(1 .. n, k) = k
<1>1. {s \in 1 .. n : s <= k} = 1 .. k
  OBVIOUS
<1>2. Rank(1 .. n, k) = k
  <2>1. Cardinality(1 .. k) = k
    BY FS_Interval
  <2>2. QED  BY <1>1, <2>1 DEF Rank
<1>3. IsFiniteSet(1 .. n) /\ (1 .. n) \in SUBSET Int
  BY FS_Interval
<1>4. QED
  <2> DEFINE S == 1 .. n
  <2>1. IsFiniteSet(S) /\ S \in SUBSET Int /\ k \in S /\ Rank(S, k) = k
    BY <1>2, <1>3
  <2> HIDE DEF S
  <2>2. Nth(S, k) = k
    BY <2>1, NthIs
  <2>3. QED  BY <2>2 DEF S

\* Where the kth part of a sequence of n elements ends: before a place of B, or
\* at its end.
End(B, n, k) == IF k = 0 THEN 0
                ELSE IF k <= Cardinality(B) THEN Nth(B, k) ELSE n + 1

\* The ends are the places of B in their order, between 0 and n + 1.
LEMMA EndsAre ==
  ASSUME NEW n \in Nat, NEW B \in SUBSET (1 .. n)
  PROVE  /\ IsFiniteSet(B) /\ Cardinality(B) \in Nat
         /\ \A k \in 0 .. Cardinality(B) + 1 : End(B, n, k) \in 0 .. n + 1
         /\ \A k \in 1 .. Cardinality(B) : End(B, n, k) \in B
         /\ \A b \in B : \E k \in 1 .. Cardinality(B) : End(B, n, k) = b
         /\ \A k, l \in 0 .. Cardinality(B) + 1 : k < l => End(B, n, k) < End(B, n, l)
         /\ End(B, n, 0) = 0 /\ End(B, n, Cardinality(B) + 1) = n + 1
<1> DEFINE m == Cardinality(B)
<1>1. IsFiniteSet(B) /\ m \in Nat /\ B \in SUBSET Int
  <2>1. IsFiniteSet(1 .. n)
    BY FS_Interval
  <2>2. IsFiniteSet(B)
    BY <2>1, FS_Subset
  <2>3. QED  BY <2>2, FS_CardinalityType
<1>2. /\ \A k \in 1 .. m : Nth(B, k) \in B
      /\ \A b \in B : \E k \in 1 .. m : Nth(B, k) = b
      /\ \A k, l \in 1 .. m : k < l => Nth(B, k) < Nth(B, l)
  BY <1>1, NthCounts
<1> HIDE DEF m
<1>3. \A k \in 1 .. m : End(B, n, k) = Nth(B, k)
  BY <1>1 DEF End, m
<1>4. End(B, n, 0) = 0 /\ End(B, n, m + 1) = n + 1
  BY <1>1 DEF End, m
<1>5. \A k \in 1 .. m : End(B, n, k) \in B /\ End(B, n, k) \in 1 .. n
  BY <1>2, <1>3
<1>6. \A k \in 0 .. m + 1 : k = 0 \/ k \in 1 .. m \/ k = m + 1
  BY <1>1
<1>7. \A k \in 0 .. m + 1 : End(B, n, k) \in 0 .. n + 1
  BY <1>4, <1>5, <1>6
<1>8. ASSUME NEW k \in 0 .. m + 1, NEW l \in 0 .. m + 1, k < l
      PROVE  End(B, n, k) < End(B, n, l)
  <2>1. CASE k \in 1 .. m /\ l \in 1 .. m
    BY <1>2, <1>3, <1>8, <2>1
  <2>2. CASE k = 0 /\ l \in 1 .. m
    BY <1>4, <1>5, <2>2
  <2>3. CASE k \in 1 .. m /\ l = m + 1
    BY <1>4, <1>5, <2>3
  <2>4. CASE k = 0 /\ l = m + 1
    BY <1>4, <2>4
  <2>5. QED  BY <1>1, <1>6, <1>8, <2>1, <2>2, <2>3, <2>4
<1>9. \A b \in B : \E k \in 1 .. m : End(B, n, k) = b
  BY <1>2, <1>3
<1>10. QED  BY <1>1, <1>4, <1>5, <1>7, <1>8, <1>9 DEF m

\* No place of B is within a part.
LEMMA NoneWithin ==
  ASSUME NEW n \in Nat, NEW B \in SUBSET (1 .. n), NEW k \in 1 .. Cardinality(B) + 1,
         NEW i \in B, End(B, n, k - 1) < i
  PROVE  End(B, n, k) <= i
<1>1. Cardinality(B) \in Nat
  BY EndsAre
<1>2. PICK l \in 1 .. Cardinality(B) : End(B, n, l) = i
  BY EndsAre
<1>3. k \in 0 .. Cardinality(B) + 1 /\ k - 1 \in 0 .. Cardinality(B) + 1
      /\ l \in 0 .. Cardinality(B) + 1
  BY <1>1
<1>4. End(B, n, k) \in Int /\ End(B, n, k - 1) \in Int /\ i \in Int
  BY <1>3, EndsAre
<1>5. ~ (l <= k - 1)
  <2>1. l < k - 1 => i < End(B, n, k - 1)
    BY <1>2, <1>3, EndsAre
  <2>2. l # k - 1
    BY <1>2, <1>4
  <2>3. l <= k - 1 => l < k - 1
    BY <1>1, <2>2
  <2>4. QED  BY <1>4, <2>1, <2>3
<1>6. l = k \/ k < l
  BY <1>1, <1>5
<1>7. QED  BY <1>2, <1>3, <1>4, <1>6, EndsAre

LEMMA SplitIs ==
  ASSUME NEW s, NEW n \in Nat, Len(s) = n, NEW B \in SUBSET (1 .. n)
  PROVE  Split(s, B) = [k \in 1 .. Cardinality(B) + 1 |->
                          SubSeq(s, End(B, n, k - 1) + 1, End(B, n, k) - 1)]
<1> DEFINE m == Cardinality(B)
           end(k) == IF k = 0 THEN 0 ELSE Nth(B \cup {n + 1}, k)
<1>1. /\ IsFiniteSet(B) /\ B \in SUBSET Int /\ n + 1 \in Int /\ \A b \in B : b < n + 1
  BY EndsAre
<1>2. /\ m \in Nat
      /\ \A k \in 1 .. m : Nth(B \cup {n + 1}, k) = Nth(B, k)
      /\ Nth(B \cup {n + 1}, m + 1) = n + 1
  BY <1>1, NthBelow
<1>3. ASSUME NEW k \in 0 .. m + 1 PROVE end(k) = End(B, n, k)
  <2>1. CASE k = 0
    BY <2>1 DEF End
  <2>2. CASE k # 0 /\ k <= m
    <3>1. k \in 1 .. m
      BY <1>2, <2>2
    <3>2. QED  BY <1>2, <2>2, <3>1 DEF End
  <2>3. CASE k # 0 /\ ~ (k <= m)
    <3>1. k = m + 1
      BY <1>2, <2>3
    <3>2. QED  BY <1>2, <2>3, <3>1 DEF End
  <2>4. QED  BY <2>1, <2>2, <2>3
<1>4. Split(s, B) = [k \in 1 .. m + 1 |-> SubSeq(s, end(k - 1) + 1, end(k) - 1)]
  BY DEF Split
<1> HIDE DEF end, m
<1>5. \A k \in 1 .. m + 1 : k \in 0 .. m + 1 /\ k - 1 \in 0 .. m + 1
  BY <1>2
<1>6. \A k \in 1 .. m + 1 : end(k) = End(B, n, k) /\ end(k - 1) = End(B, n, k - 1)
  BY <1>3, <1>5
<1>7. QED  BY <1>4, <1>6 DEF m

\* The first of some places.
LEMMA NextOfIs ==
  ASSUME NEW s, NEW n \in Nat, Len(s) = n, NEW i \in 1 .. n + 1, NEW stops
  PROVE  /\ NextOf(s, i, stops) \in i .. n + 1
         /\ NextOf(s, i, stops) <= n => s[NextOf(s, i, stops)] \in stops
         /\ \A k \in i .. n : k < NextOf(s, i, stops) => s[k] \notin stops
<1> DEFINE there == {k \in i .. n : s[k] \in stops}
           next  == CHOOSE k \in there : \A l \in there : k <= l
<1>1. NextOf(s, i, stops) = IF there = {} THEN n + 1 ELSE next
  BY DEF NextOf
<1>2. CASE there = {}
  BY <1>1, <1>2
<1>3. CASE there # {}
  <2>1. there \in SUBSET Int /\ IsFiniteSet(there)
    <3>1. IsFiniteSet(i .. n)
      BY FS_Interval
    <3>2. QED  BY <3>1, FS_Subset
  <2>2. next \in there /\ \A l \in there : next <= l
    <3> HIDE DEF there
    <3>1. \E k \in there : \A l \in there : k <= l
      BY <1>3, <2>1, Smallest
    <3>2. QED  BY <3>1
  <2>3. next \in i .. n /\ s[next] \in stops
    BY <2>2
  <2>4. NextOf(s, i, stops) = next
    BY <1>1, <1>3
  <2>5. ASSUME NEW k \in i .. n, k < next PROVE s[k] \notin stops
    <3>1. next \in Int
      BY <2>3
    <3>2. k \notin there
      <4> HIDE DEF next
      <4>1. ~ (next <= k)
        BY <2>5, <3>1
      <4>2. QED  BY <2>2, <4>1
    <3>3. QED  BY <3>2
  <2> HIDE DEF next, there
  <2>6. QED  BY <2>3, <2>4, <2>5
<1>4. QED  BY <1>2, <1>3

\* A place that is the first to have one of stops is the next of them.
LEMMA NextOfUnique ==
  ASSUME NEW s, NEW n \in Nat, Len(s) = n, NEW i \in 1 .. n + 1, NEW stops,
         NEW j \in i .. n + 1, j <= n => s[j] \in stops,
         \A k \in i .. n : k < j => s[k] \notin stops
  PROVE  NextOf(s, i, stops) = j
<1> DEFINE next == NextOf(s, i, stops)
<1>1. /\ next \in i .. n + 1
      /\ next <= n => s[next] \in stops
      /\ \A k \in i .. n : k < next => s[k] \notin stops
  BY NextOfIs
<1> HIDE DEF next
<1>2. ~ (next < j) /\ ~ (j < next)
  BY <1>1
<1>3. next = j
  BY <1>1, <1>2
<1>4. QED  BY <1>3 DEF next

-------------------------------------------------------------------------------
(* Lists *)

\* A sequence of a given length, whatever its elements are.
List(s) == Len(s) \in Nat /\ s = [j \in 1 .. Len(s) |-> s[j]]

LEMMA ListLength ==
  ASSUME NEW n \in Nat, NEW a, a = [k \in 1 .. n |-> a[k]]
  PROVE  Len(a) = n /\ \E S : a \in Seq(S)
<1> DEFINE S == {a[k] : k \in 1 .. n}
<1>1. a \in [1 .. n -> S]
  OBVIOUS
<1> HIDE DEF S
<1>2. a \in Seq(S) /\ DOMAIN a = 1 .. n
  BY <1>1
<1>3. DOMAIN a = 1 .. Len(a) /\ Len(a) \in Nat
  BY <1>2
<1>4. QED  BY <1>2, <1>3

-------------------------------------------------------------------------------
(* Parts of sequences *)

\* The elements of two sequences one behind the other.
LEMMA Joined ==
  ASSUME NEW S, NEW s \in Seq(S), NEW t \in Seq(S), NEW a \in Nat, NEW b \in Nat,
         Len(s) = a, Len(t) = b
  PROVE  /\ s \o t \in Seq(S) /\ Len(s \o t) = a + b
         /\ \A i \in 1 .. a : (s \o t)[i] = s[i]
         /\ \A i \in 1 .. b : (s \o t)[a + i] = t[i]
  OBVIOUS

LEMMA WithLast ==
  ASSUME NEW S, NEW s \in Seq(S), NEW x \in S, NEW a \in Nat, Len(s) = a
  PROVE  /\ Append(s, x) \in Seq(S) /\ Len(Append(s, x)) = a + 1
         /\ \A i \in 1 .. a : Append(s, x)[i] = s[i]
         /\ Append(s, x)[a + 1] = x
<1> DEFINE u == Append(s, x)
<1>1. /\ u \in Seq(S) /\ Len(u) = a + 1
      /\ \A i \in 1 .. a : u[i] = s[i]
      /\ u[a + 1] = x
  BY AppendProperties
<1>2. QED  BY <1>1

LEMMA OnePiece ==
  ASSUME NEW S, NEW x \in S
  PROVE  <<x>> \in Seq(S) /\ Len(<<x>>) = 1 /\ <<x>>[1] = x /\ Range(<<x>>) = {x}
  BY DEF Range

LEMMA PartOfLeft ==
  ASSUME NEW S, NEW s \in Seq(S), NEW t \in Seq(S),
         NEW i \in 1 .. Len(s) + 1, NEW j \in 0 .. Len(s)
  PROVE  SubSeq(s \o t, i, j) = SubSeq(s, i, j)
<1>1. /\ s \o t \in Seq(S)
      /\ \A k \in 1 .. Len(s) : (s \o t)[k] = s[k] /\ s[k] \in S
      /\ Len(s) \in Nat
  BY ConcatProperties, ElementOfSeq, LenProperties
<1>2. \A k \in i .. j : k \in 1 .. Len(s)
  BY <1>1
<1>3. \A k \in i .. j : s[k] \in S /\ (s \o t)[k] \in S
  BY <1>1, <1>2
<1> DEFINE a == SubSeq(s \o t, i, j)
           b == SubSeq(s, i, j)
<1>4. /\ a \in Seq(S) /\ b \in Seq(S) /\ i \in Int /\ j \in Int
      /\ Len(a) = (IF i <= j THEN j - i + 1 ELSE 0)
      /\ Len(b) = (IF i <= j THEN j - i + 1 ELSE 0)
      /\ \A k \in 1 .. j - i + 1 : a[k] = (s \o t)[i + k - 1] /\ b[k] = s[i + k - 1]
  BY <1>3, SubSeqProperties
<1>5. \A k \in 1 .. j - i + 1 : i + k - 1 \in 1 .. Len(s)
  BY <1>1
<1> HIDE DEF a, b
<1>6. \A k \in 1 .. j - i + 1 : a[k] = b[k]
  BY <1>1, <1>4, <1>5
<1>7. Len(a) = Len(b) /\ \A k \in 1 .. Len(a) : a[k] = b[k]
  BY <1>4, <1>6
<1>8. a = b
  BY <1>4, <1>7, SeqEqual
<1>9. QED  BY <1>8 DEF a, b

\* Names for a part and for two sequences in one, which the provers do not
\* take apart.
Cut(s, i, j) == SubSeq(s, i, j)

Glued(s, t)  == s \o t

LEMMA ThreeGlued ==
  ASSUME NEW S, NEW s \in Seq(S), NEW t \in Seq(S), NEW u \in Seq(S)
  PROVE  Glued(s, t) \in Seq(S) /\ Glued(s, Glued(t, u)) = Glued(Glued(s, t), u)
<1>1. s \o t \in Seq(S) /\ s \o (t \o u) = (s \o t) \o u
  OBVIOUS
<1>2. QED  BY ONLY <1>1 DEF Glued

LEMMA Regrouped ==
  ASSUME NEW S, NEW t \in Seq(S), NEW x \in Seq(S), NEW y \in Seq(S), NEW z \in Seq(S)
  PROVE  Glued(t, Glued(Glued(x, y), z)) = Glued(Glued(Glued(t, x), y), z)
<1>1. PICK n \in Seq(S) : n = Glued(x, y)
  BY ThreeGlued
<1>2. Glued(t, Glued(n, z)) = Glued(Glued(t, n), z)
  BY ONLY ThreeGlued
<1>3. Glued(t, n) = Glued(Glued(t, x), y)
  <2>1. Glued(t, Glued(x, y)) = Glued(Glued(t, x), y)
    BY ONLY ThreeGlued
  <2>2. QED  BY <1>1, <2>1
<1>4. QED  BY <1>1, <1>2, <1>3

LEMMA PartToEnd ==
  ASSUME NEW S, NEW s \in Seq(S), NEW t \in Seq(S), NEW n \in Nat, NEW p \in Nat,
         Len(s) = n, Len(t) = p, NEW i \in 1 .. n + 1
  PROVE  Cut(Glued(s, t), i, n + p) = Glued(Cut(s, i, n), t)
<1> DEFINE a == SubSeq(s \o t, i, n + p)
           b == SubSeq(s, i, n)
<1>1. /\ s \o t \in Seq(S) /\ Len(s \o t) = n + p
      /\ \A k \in 1 .. n : s[k] \in S
      /\ \A k \in 1 .. n + p : (s \o t)[k] = IF k <= n THEN s[k] ELSE t[k - n]
  BY ConcatProperties, ElementOfSeq
<1>2. \A k \in 1 .. n + p : (s \o t)[k] \in S
  BY <1>1, ElementOfSeq
<1>3. /\ \A k \in i .. n + p : k \in 1 .. n + p
      /\ \A k \in i .. n : k \in 1 .. n
      /\ i \in Int /\ n \in Int /\ n + p \in Int
  OBVIOUS
<1> DEFINE u == s \o t
<1> HIDE DEF u
<1>4. /\ a \in Seq(S)
      /\ Len(a) = (IF i <= n + p THEN (n + p) - i + 1 ELSE 0)
      /\ \A k \in 1 .. (n + p) - i + 1 : a[k] = (s \o t)[i + k - 1]
  <2>1. \A k \in i .. n + p : u[k] \in S
    BY <1>2, <1>3 DEF u
  <2>2. /\ SubSeq(u, i, n + p) \in Seq(S)
        /\ Len(SubSeq(u, i, n + p)) = (IF i <= n + p THEN (n + p) - i + 1 ELSE 0)
        /\ \A k \in 1 .. (n + p) - i + 1 : SubSeq(u, i, n + p)[k] = u[i + k - 1]
    BY <1>3, <2>1, SubSeqProperties
  <2>3. QED  BY <2>2 DEF u
<1>5. /\ b \in Seq(S)
      /\ Len(b) = (IF i <= n THEN n - i + 1 ELSE 0)
      /\ \A k \in 1 .. n - i + 1 : b[k] = s[i + k - 1]
  <2>1. \A k \in i .. n : s[k] \in S
    BY <1>1, <1>3
  <2>2. QED  BY <1>3, <2>1, SubSeqProperties
<1> HIDE DEF a, b
<1>6. PICK l \in Nat : l = n - i + 1
  <2>1. n - i + 1 \in Nat
    OBVIOUS
  <2>2. QED  BY <2>1
<1>7. n = l + i - 1 /\ (n + p) - i + 1 = l + p /\ i \in Int /\ i >= 1
  BY <1>6
<1>8. Len(b) = l /\ Len(a) = l + p
  <2>1. i <= n <=> l # 0
    BY <1>6
  <2>2. i <= n + p <=> l + p # 0
    BY <1>6
  <2>3. Len(b) = IF l # 0 THEN l ELSE 0
    BY <1>5, <1>6, <2>1
  <2>4. Len(a) = IF l + p # 0 THEN l + p ELSE 0
    BY <1>4, <1>7, <2>2
  <2>5. QED  BY <2>3, <2>4
<1>9. /\ b \o t \in Seq(S) /\ Len(b \o t) = l + p
      /\ \A k \in 1 .. l + p : (b \o t)[k] = IF k <= l THEN b[k] ELSE t[k - l]
  BY <1>5, <1>8, ConcatProperties
<1>10. ASSUME NEW k \in 1 .. l + p PROVE a[k] = (b \o t)[k]
  <2>1. a[k] = (s \o t)[i + k - 1]
    BY <1>4, <1>7
  <2>2. i + k - 1 \in 1 .. n + p
    BY <1>7
  <2>3. CASE k <= l
    <3>1. k \in 1 .. l /\ i + k - 1 <= n
      BY <1>7, <2>3
    <3>2. b[k] = s[i + k - 1]
      BY <1>5, <1>6, <3>1
    <3>3. (s \o t)[i + k - 1] = s[i + k - 1]
      BY <1>1, <2>2, <3>1
    <3>4. QED  BY <1>9, <2>1, <2>3, <3>2, <3>3
  <2>4. CASE ~ (k <= l)
    <3>1. ~ (i + k - 1 <= n) /\ (i + k - 1) - n = k - l
      BY <1>7, <2>4
    <3>2. (s \o t)[i + k - 1] = t[(i + k - 1) - n]
      BY <1>1, <2>2, <3>1
    <3>3. QED  BY <1>9, <2>1, <2>4, <3>1, <3>2
  <2>5. QED  BY <2>3, <2>4
<1>11. a = b \o t
  BY <1>4, <1>8, <1>9, <1>10, SeqEqual
<1>12. QED  BY <1>11 DEF a, b, Cut, Glued

-------------------------------------------------------------------------------
(* The words of a text *)

Blanks(t) == {i \in DOMAIN t : t[i] = Blank}

\* t has the words ws, and w is what stands behind its last blank.
ReadsAs(S, t, ws, w) == /\ t \in Seq(S) /\ ws \in Seq(Seq(S)) /\ w \in Seq(S)
                        /\ parse(t) = Append(ws, w)

LEMMA ParseIs ==
  ASSUME NEW S, NEW t \in Seq(S)
  PROVE  /\ Blanks(t) \in SUBSET (1 .. Len(t)) /\ Len(t) \in Nat
         /\ parse(t) = [k \in 1 .. Cardinality(Blanks(t)) + 1 |->
                          SubSeq(t, End(Blanks(t), Len(t), k - 1) + 1,
                                    End(Blanks(t), Len(t), k) - 1)]
<1> DEFINE n == Len(t)
           B == Blanks(t)
<1>1. Blanks(t) \in SUBSET (1 .. Len(t)) /\ Len(t) \in Nat
  BY LenProperties DEF Blanks
<1>2. parse(t) = Split(t, Blanks(t))
  BY DEF parse, Blanks
<1>3. Split(t, B) = [k \in 1 .. Cardinality(B) + 1 |->
                       SubSeq(t, End(B, n, k - 1) + 1, End(B, n, k) - 1)]
  <2>1. n \in Nat /\ Len(t) = n /\ B \in SUBSET (1 .. n)
    BY <1>1
  <2> HIDE DEF n, B
  <2>2. QED  BY <2>1, SplitIs
<1>4. QED  BY <1>1, <1>2, <1>3

LEMMA NothingRead == ASSUME NEW S PROVE ReadsAs(S, <<>>, <<>>, <<>>)
<1>1. <<>> \in Seq(S) /\ Len(<<>>) = 0 /\ <<>> \in Seq(Seq(S))
  BY EmptySeq
<1>2. Blanks(<<>>) = {} /\ Cardinality({}) = 0
  BY <1>1, FS_EmptySet DEF Blanks
<1>3. parse(<<>>) = [k \in 1 .. 1 |-> SubSeq(<<>>, End({}, 0, k - 1) + 1,
                                             End({}, 0, k) - 1)]
  <2>1. parse(<<>>) = [k \in 1 .. Cardinality({}) + 1 |->
                         SubSeq(<<>>, End({}, Len(<<>>), k - 1) + 1,
                                      End({}, Len(<<>>), k) - 1)]
    BY <1>1, <1>2, ParseIs
  <2>2. Cardinality({}) + 1 = 1
    BY <1>2
  <2>3. QED  BY <1>1, <2>1, <2>2
<1>4. End({}, 0, 0) = 0 /\ End({}, 0, 1) = 1
  BY <1>2 DEF End
<1>5. SubSeq(<<>>, 1, 0) = <<>>
  BY SubSeqEmpty
<1>6. parse(<<>>) = <<<<>>>>
  <2>1. \A k \in 1 .. 1 : k = 1
    OBVIOUS
  <2>2. parse(<<>>) = [k \in 1 .. 1 |-> <<>>]
    BY <1>3, <1>4, <1>5, <2>1
  <2>3. QED  BY <2>2
<1>7. QED  BY <1>1, <1>6 DEF ReadsAs

\* What parse() has in front of and behind the last blank.
LEMMA WordsRead ==
  ASSUME NEW S, NEW t, NEW ws, NEW w, ReadsAs(S, t, ws, w)
  PROVE  LET B == Blanks(t)
             n == Len(t)
         IN /\ Len(ws) = Cardinality(B) /\ Cardinality(B) \in Nat
            /\ \A k \in 1 .. Cardinality(B) :
                  ws[k] = SubSeq(t, End(B, n, k - 1) + 1, End(B, n, k) - 1)
            /\ w = SubSeq(t, End(B, n, Cardinality(B)) + 1, n)
<1> DEFINE B == Blanks(t)
           n == Len(t)
           m == Cardinality(B)
           e(k) == End(B, n, k)
<1>1. /\ t \in Seq(S) /\ ws \in Seq(Seq(S)) /\ w \in Seq(S)
      /\ parse(t) = Append(ws, w)
  BY DEF ReadsAs
<1>2. /\ B \in SUBSET (1 .. n) /\ n \in Nat
      /\ parse(t) = [k \in 1 .. m + 1 |-> SubSeq(t, e(k - 1) + 1, e(k) - 1)]
  BY <1>1, ParseIs
<1> HIDE DEF B, n
<1>3. m \in Nat /\ e(m + 1) = n + 1
  BY <1>2, EndsAre
<1>4. /\ Len(parse(t)) = Len(ws) + 1 /\ Len(ws) \in Nat
      /\ \A k \in 1 .. Len(ws) : parse(t)[k] = ws[k]
      /\ parse(t)[Len(ws) + 1] = w
  BY <1>1
<1> HIDE DEF m, e
<1>5. DOMAIN parse(t) = 1 .. m + 1 /\ DOMAIN parse(t) = 1 .. Len(ws) + 1
  <2>1. DOMAIN parse(t) = 1 .. m + 1
    BY <1>2
  <2>2. DOMAIN parse(t) = 1 .. Len(ws) + 1
    BY <1>1
  <2>3. QED  BY <2>1, <2>2
<1>6. Len(ws) = m
  BY <1>3, <1>4, <1>5
<1>7. ASSUME NEW k \in 1 .. m PROVE ws[k] = SubSeq(t, e(k - 1) + 1, e(k) - 1)
  <2>1. k \in 1 .. m + 1
    BY <1>3
  <2>2. parse(t)[k] = SubSeq(t, e(k - 1) + 1, e(k) - 1)
    BY <1>2, <2>1
  <2>3. QED  BY <1>4, <1>6, <2>2
<1>8. w = SubSeq(t, e(m) + 1, n)
  <2>1. m + 1 \in 1 .. m + 1 /\ (m + 1) - 1 = m /\ (n + 1) - 1 = n
    BY <1>2, <1>3
  <2>2. parse(t)[m + 1] = SubSeq(t, e((m + 1) - 1) + 1, e(m + 1) - 1)
    BY <1>2, <2>1
  <2>3. parse(t)[m + 1] = SubSeq(t, e(m) + 1, n)
    BY <1>3, <2>1, <2>2
  <2>4. parse(t)[m + 1] = w
    BY <1>4, <1>6
  <2>5. QED
    <3> HIDE DEF e
    <3>1. QED  BY <2>3, <2>4
<1>9. QED  BY <1>3, <1>6, <1>7, <1>8 DEF m, e, B, n

\* A blank ends the word.
LEMMA BlankRead ==
  ASSUME NEW S, Blank \in S, NEW t, NEW ws, NEW w, ReadsAs(S, t, ws, w)
  PROVE  ReadsAs(S, t \o <<Blank>>, Append(ws, w), <<>>)
<1> DEFINE u == t \o <<Blank>>
<1>1. /\ t \in Seq(S) /\ ws \in Seq(Seq(S)) /\ w \in Seq(S)
      /\ parse(t) = Append(ws, w)
  BY DEF ReadsAs
<1>2. PICK n \in Nat : n = Len(t)
  BY <1>1
<1>3. PICK B : B = Blanks(t)
  OBVIOUS
<1>4. B \in SUBSET (1 .. n)
  BY <1>1, <1>2, <1>3, ParseIs
<1>5. /\ u \in Seq(S) /\ Len(u) = n + 1 /\ u[n + 1] = Blank
      /\ \A k \in 1 .. n : u[k] = t[k]
  <2>1. <<Blank>> \in Seq(S) /\ Len(<<Blank>>) = 1 /\ <<Blank>>[1] = Blank
    OBVIOUS
  <2>2. QED  BY <1>1, <1>2, <2>1, ConcatProperties
<1>6. Blanks(u) = B \cup {n + 1}
  <2>1. DOMAIN u = 1 .. n + 1 /\ DOMAIN t = 1 .. n
    BY <1>1, <1>2, <1>5
  <2>2. \A k \in 1 .. n + 1 : k \in 1 .. n \/ k = n + 1
    BY <1>2
  <2>3. \A k \in 1 .. n : k \in 1 .. n + 1
    BY <1>2
  <2> HIDE DEF u
  <2>4. QED  BY <1>3, <1>5, <2>1, <2>2, <2>3 DEF Blanks
<1> DEFINE C == B \cup {n + 1}
<1>7. PICK m \in Nat : m = Cardinality(B)
  BY <1>4, EndsAre
<1>8. /\ Cardinality(C) = m + 1
      /\ \A k \in 1 .. m : Nth(C, k) = Nth(B, k)
      /\ Nth(C, m + 1) = n + 1
  <2>1. IsFiniteSet(B) /\ B \in SUBSET Int /\ n + 1 \in Int /\ \A b \in B : b < n + 1
    BY <1>4, EndsAre
  <2>2. QED  BY <1>7, <2>1, NthBelow
<1> HIDE DEF C
<1>9. /\ \A k \in 0 .. m + 1 : End(C, n + 1, k) = End(B, n, k)
      /\ End(C, n + 1, m + 2) = n + 2
  <2>1. ASSUME NEW k \in 1 .. m PROVE End(C, n + 1, k) = End(B, n, k)
    BY <1>7, <1>8 DEF End
  <2>2. End(C, n + 1, 0) = End(B, n, 0)
    BY DEF End
  <2>3. End(C, n + 1, m + 1) = End(B, n, m + 1)
    BY <1>7, <1>8 DEF End
  <2>4. End(C, n + 1, m + 2) = n + 2
    BY <1>7, <1>8 DEF End
  <2>5. \A k \in 0 .. m + 1 : k = 0 \/ k \in 1 .. m \/ k = m + 1
    BY <1>7
  <2>6. QED  BY <2>1, <2>2, <2>3, <2>4, <2>5
<1>10. \A k \in 0 .. m + 1 : End(B, n, k) \in 0 .. n + 1
  BY <1>4, <1>7, EndsAre
<1>11. /\ Len(ws) = m
       /\ \A k \in 1 .. m : ws[k] = SubSeq(t, End(B, n, k - 1) + 1, End(B, n, k) - 1)
       /\ w = SubSeq(t, End(B, n, m) + 1, n)
  BY <1>2, <1>3, <1>7, WordsRead
<1>12. parse(u) = [k \in 1 .. m + 2 |->
                     SubSeq(u, End(C, n + 1, k - 1) + 1, End(C, n + 1, k) - 1)]
  <2>1. parse(u) = [k \in 1 .. Cardinality(C) + 1 |->
                     SubSeq(u, End(C, n + 1, k - 1) + 1, End(C, n + 1, k) - 1)]
    BY <1>5, <1>6, ParseIs DEF C
  <2>2. Cardinality(C) + 1 = m + 2
    BY <1>8
  <2>3. QED  BY <2>1, <2>2
<1> DEFINE p(k) == SubSeq(u, End(C, n + 1, k - 1) + 1, End(C, n + 1, k) - 1)
\* All words but the new one are as they were.
<1>13. ASSUME NEW k \in 1 .. m + 1
       PROVE  p(k) = SubSeq(t, End(B, n, k - 1) + 1, End(B, n, k) - 1)
  <2>1. k - 1 \in 0 .. m + 1 /\ k \in 0 .. m + 1 /\ k - 1 < k /\ k - 1 \in 0 .. m
    OBVIOUS
  <2>2. End(C, n + 1, k - 1) = End(B, n, k - 1) /\ End(C, n + 1, k) = End(B, n, k)
    BY <1>9, <2>1
  <2>3. PICK i \in 0 .. n + 1, j \in 0 .. n + 1 : i = End(B, n, k - 1) /\ j = End(B, n, k)
    BY <1>10, <2>1
  <2>4. i < j
    BY <1>4, <1>7, <2>1, <2>3, EndsAre
  <2>5. i + 1 \in 1 .. n + 1 /\ j - 1 \in 0 .. n
    BY <2>3, <2>4
  <2>6. SubSeq(u, i + 1, j - 1) = SubSeq(t, i + 1, j - 1)
    <3>1. <<Blank>> \in Seq(S)
      OBVIOUS
    <3>2. QED  BY <1>1, <1>2, <2>5, <3>1, PartOfLeft
  <2> HIDE DEF u
  <2>7. QED  BY <2>2, <2>3, <2>6
<1>14. p(m + 2) = <<>>
  <2>1. End(C, n + 1, m + 1) = n + 1
    <3>1. m + 1 \in 0 .. m + 1
      OBVIOUS
    <3>2. End(B, n, m + 1) = n + 1
      BY <1>4, <1>7, EndsAre
    <3>3. QED  BY <1>9, <3>1, <3>2
  <2>2. (m + 2) - 1 = m + 1 /\ (n + 2) - 1 = n + 1 /\ (n + 1) + 1 = n + 2 /\ n + 1 < n + 2
    OBVIOUS
  <2>3. SubSeq(u, n + 2, n + 1) = <<>>
    BY <2>2, SubSeqEmpty
  <2> HIDE DEF u
  <2>4. QED  BY <1>9, <2>1, <2>2, <2>3
<1>15. \A k \in 1 .. m : p(k) = ws[k]
  <2>1. \A k \in 1 .. m : k \in 1 .. m + 1
    OBVIOUS
  <2> HIDE DEF p
  <2>2. QED  BY <1>11, <1>13, <2>1
<1>16. p(m + 1) = w
  <2>1. m + 1 \in 1 .. m + 1 /\ (m + 1) - 1 = m /\ (n + 1) - 1 = n
    OBVIOUS
  <2>2. End(B, n, m + 1) = n + 1
    BY <1>4, <1>7, EndsAre
  <2>3. p(m + 1) = SubSeq(t, End(B, n, (m + 1) - 1) + 1, End(B, n, m + 1) - 1)
    BY <1>13, <2>1
  <2> HIDE DEF p
  <2>4. QED  BY <1>11, <2>1, <2>2, <2>3
<1> HIDE DEF p
<1> DEFINE vs == Append(Append(ws, w), <<>>)
<1>17. /\ <<>> \in Seq(S) /\ Append(ws, w) \in Seq(Seq(S))
       /\ vs \in Seq(Seq(S)) /\ Len(vs) = m + 2
       /\ \A k \in 1 .. m : vs[k] = ws[k]
       /\ vs[m + 1] = w /\ vs[m + 2] = <<>>
  <2>1. PICK v : v = Append(ws, w)
    OBVIOUS
  <2>2. /\ v \in Seq(Seq(S)) /\ Len(v) = m + 1 /\ v[m + 1] = w
        /\ \A k \in 1 .. m : v[k] = ws[k]
    <3>1. Len(ws) = m /\ ws \in Seq(Seq(S)) /\ w \in Seq(S)
      BY <1>1, <1>11
    <3>2. QED  BY <2>1, <3>1, AppendProperties
  <2>3. /\ Append(v, <<>>) \in Seq(Seq(S)) /\ Len(Append(v, <<>>)) = m + 2
        /\ Append(v, <<>>)[m + 2] = <<>>
        /\ \A k \in 1 .. m + 1 : Append(v, <<>>)[k] = v[k]
    BY <2>2
  <2>4. \A k \in 1 .. m : k \in 1 .. m + 1
    OBVIOUS
  <2>5. QED  BY <2>1, <2>2, <2>3, <2>4
<1>18. \A k \in 1 .. m + 2 : k \in 1 .. m \/ k = m + 1 \/ k = m + 2
  OBVIOUS
<1>19. \A k \in 1 .. m + 2 : p(k) = vs[k]
  BY <1>14, <1>15, <1>16, <1>17, <1>18
<1>20. DOMAIN vs = 1 .. m + 2
  BY <1>17
<1> HIDE DEF vs, u
<1>21. parse(u) = [k \in 1 .. m + 2 |-> p(k)]
  BY <1>12 DEF p
<1>22. vs = [k \in 1 .. m + 2 |-> vs[k]]
  <2>1. vs \in [1 .. m + 2 -> Seq(S)]
    BY <1>17, <1>20, LenProperties
  <2>2. QED  BY <2>1
<1>23. parse(u) = vs
  BY <1>19, <1>21, <1>22
<1>24. QED  BY <1>5, <1>17, <1>23 DEF ReadsAs, u, vs

\* Without a blank it goes on.
LEMMA WordRead ==
  ASSUME NEW S, NEW t, NEW ws, NEW w, ReadsAs(S, t, ws, w),
         NEW v \in Seq(S), Blank \notin Range(v)
  PROVE  ReadsAs(S, t \o v, ws, w \o v)
<1> DEFINE u == t \o v
<1>1. /\ t \in Seq(S) /\ ws \in Seq(Seq(S)) /\ w \in Seq(S)
      /\ parse(t) = Append(ws, w)
  BY DEF ReadsAs
<1>2. PICK n \in Nat, l \in Nat : n = Len(t) /\ l = Len(v)
  BY <1>1
<1>3. PICK B : B = Blanks(t)
  OBVIOUS
<1>4. B \in SUBSET (1 .. n)
  BY <1>1, <1>2, <1>3, ParseIs
<1>5. /\ u \in Seq(S) /\ Len(u) = n + l
      /\ \A k \in 1 .. n + l : u[k] = IF k <= n THEN t[k] ELSE v[k - n]
  BY <1>1, <1>2, ConcatProperties
<1>6. Blanks(u) = B
  <2>1. DOMAIN u = 1 .. n + l /\ DOMAIN t = 1 .. n /\ DOMAIN v = 1 .. l
    BY <1>1, <1>2, <1>5
  <2>2. ASSUME NEW k \in 1 .. n + l, u[k] = Blank PROVE k \in 1 .. n /\ t[k] = Blank
    <3>1. CASE k <= n
      BY <1>5, <2>2, <3>1
    <3>2. CASE ~ (k <= n)
      <4>1. k - n \in 1 .. l /\ u[k] = v[k - n]
        BY <1>5, <3>2
      <4>2. v[k - n] \in Range(v)
        BY <2>1, <4>1 DEF Range
      <4>3. QED  BY <2>2, <4>1, <4>2
    <3>3. QED  BY <3>1, <3>2
  <2>3. ASSUME NEW k \in 1 .. n, t[k] = Blank PROVE k \in 1 .. n + l /\ u[k] = Blank
    <3>1. k \in 1 .. n + l /\ k <= n
      OBVIOUS
    <3>2. QED  BY <1>5, <2>3, <3>1
  <2> HIDE DEF u
  <2>4. QED  BY <1>3, <2>1, <2>2, <2>3 DEF Blanks
<1>7. PICK m \in Nat : m = Cardinality(B)
  BY <1>4, EndsAre
<1>8. B \in SUBSET (1 .. n + l)
  BY <1>4
<1>9. /\ \A k \in 0 .. m : End(B, n + l, k) = End(B, n, k)
      /\ End(B, n + l, m + 1) = n + l + 1
  BY <1>7 DEF End
<1>10. \A k \in 0 .. m + 1 : End(B, n, k) \in 0 .. n + 1
  BY <1>4, <1>7, EndsAre
<1>11. /\ Len(ws) = m
       /\ \A k \in 1 .. m : ws[k] = SubSeq(t, End(B, n, k - 1) + 1, End(B, n, k) - 1)
       /\ w = SubSeq(t, End(B, n, m) + 1, n)
  BY <1>2, <1>3, <1>7, WordsRead
<1> DEFINE p(k) == SubSeq(u, End(B, n + l, k - 1) + 1, End(B, n + l, k) - 1)
<1>12. parse(u) = [k \in 1 .. m + 1 |-> p(k)]
  <2>1. parse(u) = [k \in 1 .. Cardinality(B) + 1 |->
                     SubSeq(u, End(B, n + l, k - 1) + 1, End(B, n + l, k) - 1)]
    <3>1. u \in Seq(S) /\ Len(u) = n + l /\ Blanks(u) = B
      BY <1>5, <1>6
    <3>2. parse(u) = [k \in 1 .. Cardinality(Blanks(u)) + 1 |->
                       SubSeq(u, End(Blanks(u), Len(u), k - 1) + 1,
                                 End(Blanks(u), Len(u), k) - 1)]
      BY ONLY <3>1, ParseIs
    <3>3. QED  BY ONLY <3>1, <3>2
  <2>2. QED  BY <1>7, <2>1
<1>13. ASSUME NEW k \in 1 .. m PROVE p(k) = ws[k]
  <2>1. k - 1 \in 0 .. m + 1 /\ k \in 0 .. m + 1 /\ k - 1 < k /\ k - 1 \in 0 .. m
        /\ k \in 0 .. m
    OBVIOUS
  <2>2. End(B, n + l, k - 1) = End(B, n, k - 1) /\ End(B, n + l, k) = End(B, n, k)
    BY <1>9, <2>1
  <2>3. PICK i \in 0 .. n + 1, j \in 0 .. n + 1 : i = End(B, n, k - 1) /\ j = End(B, n, k)
    BY <1>10, <2>1
  <2>4. i < j
    BY <1>4, <1>7, <2>1, <2>3, EndsAre
  <2>5. i + 1 \in 1 .. n + 1 /\ j - 1 \in 0 .. n
    BY <2>3, <2>4
  <2>6. SubSeq(u, i + 1, j - 1) = SubSeq(t, i + 1, j - 1)
    BY <1>1, <1>2, <2>5, PartOfLeft
  <2> HIDE DEF u
  <2>7. QED  BY <1>11, <2>2, <2>3, <2>6
<1>14. p(m + 1) = w \o v
  <2>1. PICK i \in 0 .. n + 1 : i = End(B, n, m)
    BY <1>10
  <2>2. i < n + 1
    <3>1. m \in 0 .. m + 1 /\ m + 1 \in 0 .. m + 1 /\ m < m + 1
      OBVIOUS
    <3>2. End(B, n, m + 1) = n + 1
      BY <1>4, <1>7, EndsAre
    <3>3. End(B, n, m) < End(B, n, m + 1)
      BY <1>4, <1>7, <3>1, EndsAre
    <3>4. QED  BY <2>1, <3>2, <3>3
  <2>3. i + 1 \in 1 .. n + 1
    BY <2>2
  <2>4. SubSeq(u, i + 1, n + l) = SubSeq(t, i + 1, n) \o v
    <3>1. PICK k \in 1 .. n + 1 : k = i + 1
      BY <2>3
    <3>2. Len(t) = n /\ Len(v) = l /\ t \in Seq(S) /\ v \in Seq(S)
      BY <1>1, <1>2
    <3>3. Cut(Glued(t, v), k, n + l) = Glued(Cut(t, k, n), v)
      BY ONLY <3>2, PartToEnd
    <3>4. QED  BY <3>1, <3>3 DEF Cut, Glued
  <2>5. m \in 0 .. m /\ (m + 1) - 1 = m /\ (n + l + 1) - 1 = n + l
    OBVIOUS
  <2> HIDE DEF u
  <2>6. QED  BY <1>9, <1>11, <2>1, <2>4, <2>5
<1> HIDE DEF p, u
<1> DEFINE x  == w \o v
           vs == Append(ws, x)
<1>15. /\ x \in Seq(S) /\ vs \in Seq(Seq(S)) /\ Len(vs) = m + 1
       /\ \A k \in 1 .. m : vs[k] = ws[k]
       /\ vs[m + 1] = x
  <2>1. x \in Seq(S)
    BY <1>1, ConcatProperties
  <2> HIDE DEF x
  <2>2. QED  BY <1>1, <1>11, <2>1
<1>16. \A k \in 1 .. m + 1 : k \in 1 .. m \/ k = m + 1
  OBVIOUS
<1>17. \A k \in 1 .. m + 1 : p(k) = vs[k]
  BY <1>13, <1>14, <1>15, <1>16
<1> HIDE DEF x, vs
<1>18. vs = [k \in 1 .. m + 1 |-> vs[k]]
  <2>1. vs \in [1 .. m + 1 -> Seq(S)]
    BY <1>15, LenProperties
  <2>2. QED  BY <2>1
<1>19. parse(u) = vs
  BY <1>12, <1>17, <1>18
<1>20. QED  BY <1>1, <1>5, <1>15, <1>19 DEF ReadsAs, u, vs, x

-------------------------------------------------------------------------------
(* Lists in a text *)

\* What Listed() has written after each item.
ListedUpTo(items, how) ==
  CHOOSE g : g = [k \in 0 .. Len(items) |->
                    IF k = 0 THEN <<>>
                    ELSE IF k = 1 THEN items[1]
                    ELSE g[k - 1] \o Between(how) \o items[k]]

Joint(x, how, y) == (x \o Between(how)) \o y

LEMMA ListedIs ==
  ASSUME NEW items, NEW how
  PROVE  Listed(items, how) = ListedUpTo(items, how)[Len(items)]
  BY DEF Listed, ListedUpTo

LEMMA ListedUnfolds ==
  ASSUME NEW items, NEW how, NEW n \in Nat, Len(items) = n
  PROVE  /\ ListedUpTo(items, how)[0] = <<>>
         /\ n >= 1 => ListedUpTo(items, how)[1] = items[1]
         /\ \A k \in 2 .. n : ListedUpTo(items, how)[k]
                             = Joint(ListedUpTo(items, how)[k - 1], how, items[k])
<1> DEFINE next(g, k) == IF k = 0 THEN <<>>
                         ELSE IF k = 1 THEN items[1]
                         ELSE g[k - 1] \o Between(how) \o items[k]
           Solves(g, m) == g = [k \in 0 .. m |-> next(g, k)]
           P == {m \in 0 .. n : \E g : Solves(g, m)}
<1>1. 0 \in P
  <2> DEFINE g == [k \in 0 .. 0 |-> <<>>]
  <2>1. \A k \in 0 .. 0 : next(g, k) = <<>>
    OBVIOUS
  <2>2. Solves(g, 0)
    <3> HIDE DEF next
    <3>1. QED  BY <2>1
  <2> HIDE DEF Solves
  <2>3. QED  BY <2>2
<1>2. ASSUME NEW m \in 0 .. n - 1, m \in P PROVE m + 1 \in P
  <2>1. PICK g : Solves(g, m)
    BY <1>2
  <2> DEFINE h == [k \in 0 .. m + 1 |-> IF k <= m THEN g[k] ELSE next(g, k)]
  <2>2. ASSUME NEW k \in 0 .. m + 1 PROVE h[k] = next(h, k)
    <3>1. CASE k = 0
      BY <2>1, <3>1
    <3>2. CASE k # 0
      <4>1. k - 1 \in 0 .. m + 1 /\ k - 1 <= m
        BY <3>2
      <4>2. h[k - 1] = g[k - 1]
        BY <4>1
      <4>3. next(h, k) = next(g, k)
        <5> HIDE DEF h
        <5>1. QED  BY <3>2, <4>2
      <4>4. CASE k <= m
        <5>1. k \in 0 .. m
          BY <4>4
        <5>2. g[k] = next(g, k)
          <6> HIDE DEF next
          <6>1. QED  BY <2>1, <5>1
        <5>3. h[k] = g[k]
          BY <4>4
        <5>4. QED  BY <4>3, <5>2, <5>3
      <4>5. CASE ~ (k <= m)
        <5>1. h[k] = next(g, k)
          <6> HIDE DEF next
          <6>1. QED  BY <4>5
        <5>2. QED  BY <4>3, <5>1
      <4>6. QED  BY <4>4, <4>5
    <3>3. QED  BY <3>1, <3>2
  <2>3. Solves(h, m + 1)
    <3>1. h = [k \in 0 .. m + 1 |-> h[k]]
      OBVIOUS
    <3> HIDE DEF h, next
    <3>2. QED  BY <2>2, <3>1
  <2>4. m + 1 \in 0 .. n
    OBVIOUS
  <2> HIDE DEF Solves
  <2>5. QED  BY <2>3, <2>4
<1>3. \E g : Solves(g, n)
  <2>1. n \in 0 .. n
    OBVIOUS
  <2>2. \A k \in 0 .. n : k \in P
    <3> HIDE DEF P
    <3>1. QED  BY <1>1, <1>2, UpTo
  <2>3. QED  BY <2>1, <2>2
<1> DEFINE U == ListedUpTo(items, how)
<1>4. Solves(U, n)
  <2>1. U = CHOOSE g : Solves(g, n)
    BY DEF ListedUpTo
  <2> HIDE DEF U, Solves
  <2>2. QED  BY <1>3, <2>1
<1>5. \A k \in 0 .. n : U[k] = next(U, k)
  <2> HIDE DEF U, next
  <2>1. QED  BY <1>4
<1> HIDE DEF U
<1>6. U[0] = <<>>
  BY <1>5
<1>7. n >= 1 => U[1] = items[1]
  BY <1>5
<1>8. ASSUME NEW k \in 2 .. n PROVE U[k] = Joint(U[k - 1], how, items[k])
  <2>1. k \in 0 .. n /\ k # 0 /\ k # 1
    OBVIOUS
  <2>2. QED  BY <1>5, <2>1 DEF Joint
<1>9. QED  BY <1>6, <1>7, <1>8 DEF U

LEMMA JointIs ==
  ASSUME NEW S, Blank \in S, Comma \in S, NEW t \in Seq(S), NEW x \in Seq(S), NEW how,
         NEW y \in Seq(S)
  PROVE  /\ Joint(x, how, y) \in Seq(S)
         /\ Glued(t, Joint(x, how, y)) = Glued(Glued(Glued(t, x), Between(how)), y)
<1>1. Between(how) \in Seq(S)
  <2>1. <<Comma>> \in Seq(S) /\ <<Comma, Blank>> \in Seq(S)
        /\ <<Comma, Blank, Blank>> \in Seq(S)
    OBVIOUS
  <2>2. Between(how) \in {<<Comma>>, <<Comma, Blank>>, <<Comma, Blank, Blank>>}
    BY DEF Between, Comma
  <2>3. QED  BY <2>1, <2>2
<1>2. PICK b \in Seq(S) : b = Between(how)
  BY <1>1
<1>3. (x \o b) \o y \in Seq(S)
  OBVIOUS
<1>4. Glued(t, Glued(Glued(x, b), y)) = Glued(Glued(Glued(t, x), b), y)
  BY ONLY Regrouped
<1>5. Joint(x, how, y) = (x \o b) \o y
  BY <1>2 DEF Joint
<1>6. Joint(x, how, y) = Glued(Glued(x, b), y)
  BY ONLY <1>5 DEF Glued
<1>7. QED  BY ONLY <1>2, <1>3, <1>4, <1>5, <1>6

\* A word with a comma behind it, and with a further item behind that.
WithComma(w) == w \o <<Comma>>

Tied(w, item) == WithComma(w) \o item

LEMMA TiedIs ==
  ASSUME NEW S, Comma \in S, NEW w \in Seq(S), NEW item \in Seq(S), item # <<>>
  PROVE  /\ WithComma(w) \in Seq(S) /\ Tied(w, item) \in Seq(S)
         /\ \E p \in 1 .. Len(Tied(w, item)) - 1 : Tied(w, item)[p] = Comma
<1>1. WithComma(w) \in Seq(S) /\ Tied(w, item) \in Seq(S)
  BY DEF WithComma, Tied
<1>2. PICK l \in Nat, m \in Nat : l = Len(w) /\ m = Len(item)
  OBVIOUS
<1>3. m >= 1
  BY <1>2
<1>4. PICK x \in S : x = Comma
  OBVIOUS
<1>5. Len((w \o <<x>>) \o item) = l + 1 + m /\ ((w \o <<x>>) \o item)[l + 1] = x
  BY <1>2, <1>3
<1>6. Len(Tied(w, item)) = l + 1 + m /\ Tied(w, item)[l + 1] = Comma
  BY <1>4, <1>5 DEF Tied, WithComma
<1>7. l + 1 \in 1 .. (l + 1 + m) - 1
  BY <1>3
<1>8. QED  BY <1>1, <1>6, <1>7

\* What stands between two items ends a word, but in a tight list.
LEMMA CommaRead ==
  ASSUME NEW S, Blank \in S, Comma \in S, NEW t, NEW us, NEW w, ReadsAs(S, t, us, w),
         NEW how, NEW item \in Seq(S), Blank \notin Range(item)
  PROVE  LET u == (t \o Between(how)) \o item
         IN CASE how = "tight" -> ReadsAs(S, u, us, Tied(w, item))
              [] how = "wide"  -> ReadsAs(S, u, Append(Append(us, WithComma(w)), <<>>), item)
              [] OTHER         -> ReadsAs(S, u, Append(us, WithComma(w)), item)
<1> DEFINE v == w \o <<Comma>>
           c == t \o <<Comma>>
<1>1. t \in Seq(S) /\ us \in Seq(Seq(S)) /\ w \in Seq(S)
  BY DEF ReadsAs
<1>2. ReadsAs(S, c, us, v)
  <2>1. <<Comma>> \in Seq(S) /\ Blank \notin Range(<<Comma>>)
    <3>1. Range(<<Comma>>) = {Comma}
      BY DEF Range
    <3>2. Comma # Blank
      BY DEF Comma, Blank
    <3>3. QED  BY <3>1, <3>2
  <2>2. QED  BY <2>1, WordRead
<1> HIDE DEF v
<1>3. ReadsAs(S, c \o <<Blank>>, Append(us, v), <<>>)
  BY <1>2, BlankRead
<1>4. ReadsAs(S, (c \o <<Blank>>) \o <<Blank>>, Append(Append(us, v), <<>>), <<>>)
  BY <1>3, BlankRead
<1>5. <<>> \o item = item
  BY ConcatEmptySeq
<1>6. CASE how = "tight"
  <2>1. Between(how) = <<Comma>>
    BY <1>6 DEF Between, Comma
  <2>2. ReadsAs(S, c \o item, us, v \o item)
    BY <1>2, WordRead
  <2>3. QED  BY <1>6, <2>1, <2>2 DEF v, Tied, WithComma
<1>7. CASE how = "wide"
  <2>1. Between(how) = <<Comma, Blank, Blank>>
    BY <1>7 DEF Between, Comma
  <2>2. t \o <<Comma, Blank, Blank>> = (c \o <<Blank>>) \o <<Blank>>
    BY <1>1
  <2>3. ReadsAs(S, ((c \o <<Blank>>) \o <<Blank>>) \o item, Append(Append(us, v), <<>>),
                <<>> \o item)
    BY <1>4, WordRead
  <2>4. QED  BY <1>5, <1>7, <2>1, <2>2, <2>3 DEF v, WithComma
<1>8. CASE how # "tight" /\ how # "wide"
  <2>1. Between(how) = <<Comma, Blank>>
    BY <1>8 DEF Between, Comma
  <2>2. t \o <<Comma, Blank>> = c \o <<Blank>>
    BY <1>1
  <2>3. ReadsAs(S, (c \o <<Blank>>) \o item, Append(us, v), <<>> \o item)
    BY <1>3, WordRead
  <2>4. QED  BY <1>5, <1>8, <2>1, <2>2, <2>3 DEF v, WithComma
<1>9. QED  BY <1>6, <1>7, <1>8

\* What another item makes of the words cs and of the piece of a word behind.
NextWords(how, cs, w) == CASE how = "tight" -> cs
                           [] how = "wide"  -> Append(Append(cs, WithComma(w)), <<>>)
                           [] OTHER         -> Append(cs, WithComma(w))

NextLast(how, w, item) == IF how = "tight" THEN Tied(w, item) ELSE item

LEMMA JointRead ==
  ASSUME NEW S, Blank \in S, Comma \in S, NEW t \in Seq(S), NEW x \in Seq(S), NEW us, NEW w,
         ReadsAs(S, Glued(t, x), us, w),
         NEW how, NEW item \in Seq(S), Blank \notin Range(item)
  PROVE  /\ Joint(x, how, item) \in Seq(S)
         /\ ReadsAs(S, Glued(t, Joint(x, how, item)), NextWords(how, us, w),
                    NextLast(how, w, item))
<1>1. /\ Joint(x, how, item) \in Seq(S)
      /\ Glued(t, Joint(x, how, item)) = Glued(Glued(Glued(t, x), Between(how)), item)
  <2>1. Blank \in S /\ Comma \in S
    OBVIOUS
  <2>2. QED  BY ONLY <2>1, JointIs
<1> DEFINE u == ((t \o x) \o Between(how)) \o item
<1>2. /\ how = "tight" => ReadsAs(S, u, us, Tied(w, item))
      /\ how = "wide"  => ReadsAs(S, u, Append(Append(us, WithComma(w)), <<>>), item)
      /\ how \notin {"tight", "wide"} => ReadsAs(S, u, Append(us, WithComma(w)), item)
  <2>1. ReadsAs(S, t \o x, us, w)
    BY DEF Glued
  <2>2. QED  BY <2>1, CommaRead
<1> HIDE DEF u
<1>3. ReadsAs(S, u, NextWords(how, us, w), NextLast(how, w, item))
  BY <1>2 DEF NextWords, NextLast
<1>4. Glued(t, Joint(x, how, item)) = u
  BY <1>1 DEF u, Glued
<1>5. QED  BY <1>1, <1>3, <1>4

LEMMA NextTyped ==
  ASSUME NEW S, Comma \in S, NEW cs \in Seq(Seq(S)), NEW w \in Seq(S), NEW how,
         NEW item \in Seq(S), item # <<>>
  PROVE  NextWords(how, cs, w) \in Seq(Seq(S)) /\ NextLast(how, w, item) \in Seq(S)
<1>1. WithComma(w) \in Seq(S) /\ Tied(w, item) \in Seq(S) /\ <<>> \in Seq(S)
  BY TiedIs, EmptySeq
<1>2. NextLast(how, w, item) \in Seq(S)
  BY <1>1 DEF NextLast
<1>3. /\ Append(cs, WithComma(w)) \in Seq(Seq(S))
      /\ Append(Append(cs, WithComma(w)), <<>>) \in Seq(Seq(S))
  BY <1>1, AppendProperties
<1>4. NextWords(how, cs, w) \in Seq(Seq(S))
  BY <1>3 DEF NextWords
<1>5. QED  BY <1>2, <1>4

\* A list that is read item by item.
\* R has the words there are when k items have been read.
LEMMA ItemsRead ==
  ASSUME NEW S, Blank \in S, Comma \in S, NEW t, NEW ws, ReadsAs(S, t, ws, <<>>),
         NEW how, NEW n \in Nat \ {0}, NEW items \in Seq(Seq(S)), Len(items) = n,
         \A j \in 1 .. n : Blank \notin Range(items[j]),
         NEW R, <<1, ws, items[1]>> \in R,
         \A k \in 1 .. n - 1, cs \in Seq(Seq(S)), w \in Seq(S) :
            <<k, cs, w>> \in R =>
              <<k + 1, NextWords(how, cs, w), NextLast(how, w, items[k + 1])>> \in R
  PROVE  \E cs, w : /\ ReadsAs(S, t \o Listed(items, how), cs, w)
                    /\ <<n, cs, w>> \in R
<1> DEFINE U == ListedUpTo(items, how)
           Read(k) == /\ U[k] \in Seq(S)
                      /\ \E cs, w : /\ ReadsAs(S, Glued(t, U[k]), cs, w)
                                    /\ <<k, cs, w>> \in R
           P == {m \in 0 .. n - 1 : Read(m + 1)}
<1>1. /\ U[1] = items[1]
      /\ \A k \in 2 .. n : U[k] = Joint(U[k - 1], how, items[k])
  <2>1. /\ n >= 1 => U[1] = items[1]
        /\ \A k \in 2 .. n : U[k] = Joint(U[k - 1], how, items[k])
    <3>1. n \in Nat /\ Len(items) = n
      OBVIOUS
    <3>2. QED  BY ONLY <3>1, ListedUnfolds
  <2>2. n >= 1
    OBVIOUS
  <2>3. QED  BY <2>1, <2>2
<1>2. \A j \in 1 .. n : items[j] \in Seq(S)
  BY ElementOfSeq
<1>4. t \in Seq(S) /\ ws \in Seq(Seq(S))
  BY DEF ReadsAs
<1> HIDE DEF U
<1>5. Read(1)
  <2>1. 1 \in 1 .. n
    OBVIOUS
  <2>2. items[1] \in Seq(S) /\ Blank \notin Range(items[1])
    BY <1>2, <2>1
  <2>3. ReadsAs(S, t \o items[1], ws, <<>> \o items[1])
    BY <2>2, WordRead
  <2>4. <<>> \o items[1] = items[1]
    BY <2>2, ConcatEmptySeq
  <2>5. ReadsAs(S, Glued(t, items[1]), ws, items[1])
    BY <2>3, <2>4 DEF Glued
  <2>6. QED  BY <1>1, <2>2, <2>5
<1>6. ASSUME NEW k \in 1 .. n - 1, Read(k) PROVE Read(k + 1)
  <2>1. PICK cs, w : ReadsAs(S, Glued(t, U[k]), cs, w) /\ <<k, cs, w>> \in R
    BY <1>6
  <2>2. k + 1 \in 2 .. n /\ k + 1 \in 1 .. n /\ (k + 1) - 1 = k
    OBVIOUS
  <2>3. PICK item \in Seq(S) : item = items[k + 1] /\ Blank \notin Range(item)
    BY <1>2, <2>2
  <2>4. U[k + 1] = Joint(U[k], how, item)
    BY <1>1, <2>2, <2>3
  <2>5. PICK x \in Seq(S) : x = U[k]
    BY <1>6
  <2>6. /\ Joint(x, how, item) \in Seq(S)
        /\ ReadsAs(S, Glued(t, Joint(x, how, item)), NextWords(how, cs, w),
                   NextLast(how, w, item))
    <3>1. t \in Seq(S) /\ Blank \in S /\ Comma \in S /\ Blank \notin Range(item)
      BY <1>4, <2>3
    <3>2. ReadsAs(S, Glued(t, x), cs, w)
      BY <2>1, <2>5
    <3>3. QED  BY ONLY <3>1, <3>2, JointRead
  <2>7. cs \in Seq(Seq(S)) /\ w \in Seq(S)
    BY <2>1 DEF ReadsAs
  <2>8. <<k + 1, NextWords(how, cs, w), NextLast(how, w, item)>> \in R
    BY <2>1, <2>3, <2>7
  <2>9. QED  BY <2>4, <2>5, <2>6, <2>8
<1>7. Read(n)
  <2> HIDE DEF Read
  <2>1. 0 \in P
    BY <1>5
  <2>2. ASSUME NEW m \in 0 .. (n - 1) - 1, m \in P PROVE m + 1 \in P
    <3>1. m + 1 \in 1 .. n - 1 /\ m + 1 \in 0 .. n - 1
      OBVIOUS
    <3>2. Read(m + 1)
      BY <2>2
    <3>3. Read((m + 1) + 1)
      BY <1>6, <3>1, <3>2
    <3>4. QED  BY <3>1, <3>3
  <2>3. \A m \in 0 .. n - 1 : m \in P
    <3>1. n - 1 \in Nat
      OBVIOUS
    <3> HIDE DEF P
    <3>2. QED  BY <2>1, <2>2, <3>1, UpTo
  <2>4. n - 1 \in 0 .. n - 1 /\ (n - 1) + 1 = n
    OBVIOUS
  <2>5. QED  BY <2>3, <2>4
<1>8. Listed(items, how) = U[n]
  BY ListedIs DEF U
<1>9. QED  BY <1>7, <1>8 DEF Glued

\* The words when k items of a list have been read behind the words ws.
ListWords(ws, items, how, k, cs, w) ==
  /\ Len(cs) >= Len(ws) /\ \A i \in 1 .. Len(ws) : cs[i] = ws[i]
  /\ k = 1 => Len(cs) = Len(ws) /\ w = items[1]
  /\ how \notin {"tight", "wide"} =>
       /\ Len(cs) = Len(ws) + k - 1 /\ w = items[k]
       /\ \A j \in 1 .. k - 1 : cs[Len(ws) + j] = WithComma(items[j])
  /\ how = "wide" =>
       /\ w = items[k]
       /\ k >= 2 => /\ Len(cs) >= Len(ws) + 2
                    /\ cs[Len(ws) + 1] = WithComma(items[1])
                    /\ cs[Len(ws) + 2] = <<>>
  /\ how = "tight" =>
       /\ Len(cs) = Len(ws)
       /\ k >= 2 => \E p \in 1 .. Len(w) - 1 : w[p] = Comma

LEMMA OneMoreWord ==
  ASSUME NEW S, NEW ws \in Seq(Seq(S)), NEW items, NEW how, NEW k \in Nat \ {0},
         NEW cs, NEW w, ListWords(ws, items, how, k, cs, w),
         cs \in Seq(Seq(S)), w \in Seq(S),
         NEW item \in Seq(S), item = items[k + 1], item # <<>>, Comma \in S
  PROVE  ListWords(ws, items, how, k + 1, NextWords(how, cs, w), NextLast(how, w, item))
<1>1. PICK a \in Nat, b \in Nat, l \in Nat : a = Len(ws) /\ b = Len(cs) /\ l = Len(w)
  OBVIOUS
<1>2. /\ b >= a /\ \A i \in 1 .. a : cs[i] = ws[i]
      /\ k = 1 => b = a /\ w = items[1]
  BY <1>1 DEF ListWords
<1> DEFINE v == WithComma(w)
<1>3. v \in Seq(S)
  BY TiedIs
<1> HIDE DEF v
<1> DEFINE ds == Append(cs, v)
           es == Append(ds, <<>>)
<1>4. /\ ds \in Seq(Seq(S)) /\ Len(ds) = b + 1 /\ ds[b + 1] = v
      /\ \A i \in 1 .. b : ds[i] = cs[i]
  BY <1>1, <1>3, AppendProperties
<1> HIDE DEF ds
<1>5. /\ es \in Seq(Seq(S)) /\ Len(es) = b + 2 /\ es[b + 2] = <<>>
      /\ \A i \in 1 .. b + 1 : es[i] = ds[i]
  <2>1. <<>> \in Seq(S)
    BY EmptySeq
  <2>2. QED  BY <1>4, <2>1, AppendProperties
<1> HIDE DEF es
<1>6. \A i \in 1 .. a : i \in 1 .. b /\ i \in 1 .. b + 1 /\ ds[i] = ws[i] /\ es[i] = ws[i]
  <2>1. \A i \in 1 .. a : i \in 1 .. b /\ i \in 1 .. b + 1
    BY <1>2
  <2>2. QED  BY <1>2, <1>4, <1>5, <2>1
<1>7. k + 1 # 1 /\ k + 1 >= 2 /\ (k + 1) - 1 = k /\ (k = 1 \/ k >= 2)
  OBVIOUS
<1>8. CASE how = "tight"
  <2>1. b = a
    BY <1>1, <1>8 DEF ListWords
  <2>2. \E p \in 1 .. Len(Tied(w, item)) - 1 : Tied(w, item)[p] = Comma
    <3>1. /\ Comma \in S /\ item # <<>> /\ w \in Seq(S) /\ item \in Seq(S)
      BY <1>1, <1>2
    <3>2. QED  BY ONLY <3>1, TiedIs
  <2>5. ListWords(ws, items, how, k + 1, cs, Tied(w, item))
    BY <1>1, <1>2, <1>7, <1>8, <2>1, <2>2 DEF ListWords
  <2>6. QED  BY <1>8, <2>5 DEF NextWords, NextLast
<1>9. CASE how = "wide"
  <2>1. Len(es) >= a + 2 /\ es[a + 1] = WithComma(items[1]) /\ es[a + 2] = <<>>
    <3>1. CASE k = 1
      <4>1. b = a /\ b + 1 \in 1 .. b + 1
        BY <1>2, <3>1
      <4>2. es[a + 1] = v /\ es[a + 2] = <<>> /\ b + 2 >= a + 2
        BY <1>4, <1>5, <4>1
      <4>3. v = WithComma(items[1])
        BY <1>2, <3>1 DEF v
      <4>4. QED  BY <1>5, <4>2, <4>3
    <3>2. CASE k >= 2
      <4>1. /\ b >= a + 2 /\ cs[a + 1] = WithComma(items[1]) /\ cs[a + 2] = <<>>
        BY <1>1, <1>9, <3>2 DEF ListWords
      <4>2. /\ a + 1 \in 1 .. b /\ a + 2 \in 1 .. b
            /\ a + 1 \in 1 .. b + 1 /\ a + 2 \in 1 .. b + 1 /\ b + 2 >= a + 2
        BY <4>1
      <4>3. QED  BY <1>4, <1>5, <4>1, <4>2
    <3>3. QED  BY <1>7, <3>1, <3>2
  <2>2. Len(es) >= a
    BY <1>2, <1>5
  <2>3. ListWords(ws, items, how, k + 1, es, item)
    BY <1>1, <1>6, <1>7, <1>9, <2>1, <2>2 DEF ListWords
  <2>4. QED  BY <1>9, <2>3 DEF v, ds, es, NextWords, NextLast
<1>10. CASE how \notin {"tight", "wide"}
  <2>1. /\ b = a + k - 1 /\ w = items[k]
        /\ \A j \in 1 .. k - 1 : cs[a + j] = WithComma(items[j])
    BY <1>1, <1>10 DEF ListWords
  <2>2. Len(ds) = a + (k + 1) - 1 /\ Len(ds) >= a
    BY <1>2, <1>4, <2>1
  <2>3. ASSUME NEW j \in 1 .. (k + 1) - 1 PROVE ds[a + j] = WithComma(items[j])
    <3>1. CASE j = k
      <4>1. a + j = b + 1
        BY <2>1, <3>1
      <4>2. QED  BY <1>4, <2>1, <3>1, <4>1 DEF v
    <3>2. CASE j # k
      <4>1. j \in 1 .. k - 1 /\ a + j \in 1 .. b
        BY <2>1, <3>2
      <4>2. QED  BY <1>4, <2>1, <4>1
    <3>3. QED  BY <3>1, <3>2
  <2>4. ListWords(ws, items, how, k + 1, ds, item)
    BY <1>1, <1>6, <1>7, <1>10, <2>2, <2>3 DEF ListWords
  <2>5. QED  BY <1>10, <2>4 DEF v, ds, NextWords, NextLast
<1>11. QED  BY <1>8, <1>9, <1>10

LEMMA ListRead ==
  ASSUME NEW S, Blank \in S, Comma \in S, NEW t, NEW ws, ReadsAs(S, t, ws, <<>>),
         NEW how, NEW n \in Nat \ {0}, NEW items \in Seq(Seq(S)), Len(items) = n,
         \A j \in 1 .. n : items[j] # <<>> /\ Blank \notin Range(items[j])
  PROVE  \E cs, w : /\ ReadsAs(S, t \o Listed(items, how), cs, w)
                    /\ ListWords(ws, items, how, n, cs, w)
<1> DEFINE R == {x \in Nat \X Seq(Seq(S)) \X Seq(S) :
                   ListWords(ws, items, how, x[1], x[2], x[3])}
<1>1. ws \in Seq(Seq(S)) /\ Len(ws) \in Nat
  BY DEF ReadsAs
<1>2. \A j \in 1 .. n : items[j] \in Seq(S)
  BY ElementOfSeq
<1>3. <<1, ws, items[1]>> \in R
  <2>1. ListWords(ws, items, how, 1, ws, items[1])
    BY <1>1 DEF ListWords
  <2>2. 1 \in 1 .. n
    OBVIOUS
  <2>3. QED  BY <1>1, <1>2, <2>1, <2>2
<1>4. ASSUME NEW k \in 1 .. n - 1, NEW cs \in Seq(Seq(S)), NEW w \in Seq(S),
             <<k, cs, w>> \in R
      PROVE  <<k + 1, NextWords(how, cs, w), NextLast(how, w, items[k + 1])>> \in R
  <2>1. k \in Nat \ {0} /\ k + 1 \in 1 .. n /\ k + 1 \in Nat
    OBVIOUS
  <2>2. PICK item \in Seq(S) : item = items[k + 1] /\ item # <<>>
    BY <1>2, <2>1
  <2>3. ListWords(ws, items, how, k, cs, w)
    BY <1>4
  <2>4. ListWords(ws, items, how, k + 1, NextWords(how, cs, w), NextLast(how, w, item))
    BY <1>1, <2>1, <2>2, <2>3, OneMoreWord
  <2>5. NextWords(how, cs, w) \in Seq(Seq(S)) /\ NextLast(how, w, item) \in Seq(S)
    BY <2>2, NextTyped
  <2>6. QED  BY <2>1, <2>2, <2>4, <2>5
<1> HIDE DEF R
<1>5. PICK cs, w : ReadsAs(S, t \o Listed(items, how), cs, w) /\ <<n, cs, w>> \in R
  BY <1>3, <1>4, ItemsRead
<1>6. ListWords(ws, items, how, n, cs, w)
  BY <1>5 DEF R
<1>7. QED  BY <1>5, <1>6

-------------------------------------------------------------------------------
(* The words of a SELECT *)

LEMMA LongerAlphabet ==
  ASSUME NEW S, NEW T, S \subseteq T, NEW s \in Seq(S) PROVE s \in Seq(T)
  OBVIOUS

\* The pieces of a text.  The provers do not know what is in STRING.
Pieces == STRING \cup {Blank, Comma, Equals, Apostrophe, "1", "SELECT", "*", "DISTINCT",
                      "FROM", "TABLE;", "UPDATE", "TABLE", "SET", "WHERE", "x"}

LEMMA PiecesAre ==
  /\ Blank \in Pieces /\ Comma \in Pieces /\ Equals \in Pieces /\ Apostrophe \in Pieces
  /\ {"1", "SELECT", "*", "DISTINCT", "FROM", "TABLE;", "UPDATE", "TABLE", "SET",
      "WHERE", "x"} \subseteq Pieces
  /\ Blank # Comma /\ Blank # Equals /\ Blank # Apostrophe
  /\ Comma # Equals /\ Comma # Apostrophe /\ Equals # Apostrophe
  /\ \A w \in Seq(STRING) : w \in Seq(Pieces)
<1>1. /\ Blank \in Pieces /\ Comma \in Pieces /\ Equals \in Pieces /\ Apostrophe \in Pieces
      /\ {"1", "SELECT", "*", "DISTINCT", "FROM", "TABLE;", "UPDATE", "TABLE", "SET",
          "WHERE", "x"} \subseteq Pieces
  BY DEF Pieces
<1>2. /\ Blank # Comma /\ Blank # Equals /\ Blank # Apostrophe
      /\ Comma # Equals /\ Comma # Apostrophe /\ Equals # Apostrophe
  BY DEF Blank, Comma, Equals, Apostrophe
<1>3. ASSUME NEW w \in Seq(STRING) PROVE w \in Seq(Pieces)
  <2>1. PICK P : P = Pieces /\ STRING \subseteq P
    BY DEF Pieces
  <2>2. w \in Seq(P)
    BY <2>1, LongerAlphabet
  <2>3. QED  BY <2>1, <2>2
<1>4. QED  BY <1>1, <1>2, <1>3

\* A piece between two blanks.
LEMMA PieceRead ==
  ASSUME NEW S, Blank \in S, NEW t, NEW ws, ReadsAs(S, t, ws, <<>>),
         NEW x \in S, x # Blank
  PROVE  /\ ReadsAs(S, t \o <<x>>, ws, <<x>>)
         /\ ReadsAs(S, t \o <<x, Blank>>, Append(ws, <<x>>), <<>>)
<1>1. t \in Seq(S)
  BY DEF ReadsAs
<1>2. <<x>> \in Seq(S) /\ Blank \notin Range(<<x>>)
  BY OnePiece
<1>3. ReadsAs(S, t \o <<x>>, ws, <<>> \o <<x>>)
  BY <1>2, WordRead
<1>4. <<>> \o <<x>> = <<x>>
  BY <1>2, ConcatEmptySeq
<1>5. ReadsAs(S, t \o <<x>>, ws, <<x>>)
  BY <1>3, <1>4
<1>6. ReadsAs(S, (t \o <<x>>) \o <<Blank>>, Append(ws, <<x>>), <<>>)
  BY <1>5, BlankRead
<1>7. PICK b \in S : b = Blank
  OBVIOUS
<1>8. (t \o <<x>>) \o <<b>> = t \o <<x, b>>
  BY ONLY <1>1
<1>9. QED  BY <1>5, <1>6, <1>7, <1>8

LEMMA WordBetween ==
  ASSUME NEW S, Blank \in S, NEW t, NEW ws, NEW w, ReadsAs(S, t, ws, w),
         NEW x \in S, x # Blank
  PROVE  ReadsAs(S, t \o <<Blank, x, Blank>>, Append(Append(ws, w), <<x>>), <<>>)
<1>1. t \in Seq(S)
  BY DEF ReadsAs
<1>2. ReadsAs(S, t \o <<Blank>>, Append(ws, w), <<>>)
  BY BlankRead
<1>3. ReadsAs(S, (t \o <<Blank>>) \o <<x, Blank>>, Append(Append(ws, w), <<x>>), <<>>)
  BY <1>2, PieceRead
<1>4. PICK b \in S : b = Blank
  OBVIOUS
<1>5. (t \o <<b>>) \o <<x, b>> = t \o <<b, x, b>>
  BY ONLY <1>1
<1>6. QED  BY <1>3, <1>4, <1>5

LEMMA TwoInARow ==
  ASSUME NEW S, NEW a \in S, NEW b \in S
  PROVE  Append(Append(<<>>, a), b) = <<a, b>>
<1>1. Append(<<>>, a) = <<a>>
  OBVIOUS
<1>2. /\ Append(<<a>>, b) \in Seq(S) /\ Len(Append(<<a>>, b)) = 2
      /\ Append(<<a>>, b)[1] = a /\ Append(<<a>>, b)[2] = b
  OBVIOUS
<1>3. <<a, b>> \in Seq(S) /\ Len(<<a, b>>) = 2 /\ <<a, b>>[1] = a /\ <<a, b>>[2] = b
  OBVIOUS
<1>4. \A i \in 1 .. 2 : i = 1 \/ i = 2
  OBVIOUS
<1>5. Append(<<a>>, b) = <<a, b>>
  <2> DEFINE s == Append(<<a>>, b)
             t == <<a, b>>
  <2>1. s \in Seq(S) /\ t \in Seq(S) /\ Len(s) = 2 /\ Len(t) = 2 /\ s[1] = t[1] /\ s[2] = t[2]
    BY <1>2, <1>3
  <2> HIDE DEF s, t
  <2>2. s = t
    BY ONLY <2>1, <1>4, SeqEqual
  <2>3. QED  BY <2>2 DEF s, t
<1>6. QED  BY <1>1, <1>5

LEMMA FourInARow ==
  ASSUME NEW S, NEW a \in S, NEW b \in S, NEW c \in S, NEW d \in S
  PROVE  <<a, b>> \o <<c, d>> = <<a, b, c, d>>
<1>2. /\ <<a, b>> \o <<c, d>> \in Seq(S) /\ Len(<<a, b>> \o <<c, d>>) = 4
      /\ (<<a, b>> \o <<c, d>>)[1] = a /\ (<<a, b>> \o <<c, d>>)[2] = b
      /\ (<<a, b>> \o <<c, d>>)[3] = c /\ (<<a, b>> \o <<c, d>>)[4] = d
  OBVIOUS
<1>3. /\ <<a, b, c, d>> \in Seq(S) /\ Len(<<a, b, c, d>>) = 4
      /\ <<a, b, c, d>>[1] = a /\ <<a, b, c, d>>[2] = b
      /\ <<a, b, c, d>>[3] = c /\ <<a, b, c, d>>[4] = d
  OBVIOUS
<1>4. \A i \in 1 .. 4 : i = 1 \/ i = 2 \/ i = 3 \/ i = 4
  OBVIOUS
<1>5. QED
  <2> DEFINE s == <<a, b>> \o <<c, d>>
             t == <<a, b, c, d>>
  <2>1. /\ s \in Seq(S) /\ t \in Seq(S) /\ Len(s) = 4 /\ Len(t) = 4
        /\ s[1] = t[1] /\ s[2] = t[2] /\ s[3] = t[3] /\ s[4] = t[4]
    BY <1>2, <1>3
  <2> HIDE DEF s, t
  <2>2. s = t
    BY ONLY <2>1, <1>4, SeqEqual
  <2>3. QED  BY <2>2 DEF s, t

SelectText   == <<"1", Blank, "SELECT", Blank>>

DistinctText == SelectText \o <<"DISTINCT", Blank>>

FromText     == <<Blank, "FROM", Blank, "TABLE;">>

SelectStart  == <<<<"1">>, <<"SELECT">>>>

LEMMA SelectStartsRead ==
  /\ ReadsAs(Pieces, SelectText, SelectStart, <<>>)
  /\ ReadsAs(Pieces, DistinctText, Append(SelectStart, <<"DISTINCT">>), <<>>)
<1>1. ReadsAs(Pieces, <<>>, <<>>, <<>>)
  BY NothingRead
<1>2. "1" # Blank /\ "SELECT" # Blank /\ "DISTINCT" # Blank
  BY DEF Blank
<1>3. ReadsAs(Pieces, <<>> \o <<"1", Blank>>, Append(<<>>, <<"1">>), <<>>)
  BY <1>1, <1>2, PieceRead, PiecesAre
<1>4. ReadsAs(Pieces, (<<>> \o <<"1", Blank>>) \o <<"SELECT", Blank>>,
              Append(Append(<<>>, <<"1">>), <<"SELECT">>), <<>>)
  BY <1>2, <1>3, PieceRead, PiecesAre
<1>5. (<<>> \o <<"1", Blank>>) \o <<"SELECT", Blank>> = SelectText
  <2>1. PICK a \in Pieces, b \in Pieces, c \in Pieces : a = "1" /\ b = Blank /\ c = "SELECT"
    BY PiecesAre
  <2>2. <<>> \o <<a, b>> = <<a, b>>
    OBVIOUS
  <2>3. <<a, b>> \o <<c, b>> = <<a, b, c, b>>
    BY FourInARow
  <2>4. QED  BY <2>1, <2>2, <2>3 DEF SelectText
<1>6. Append(Append(<<>>, <<"1">>), <<"SELECT">>) = SelectStart
  <2>1. PICK a, b : a = <<"1">> /\ b = <<"SELECT">>
    OBVIOUS
  <2>2. Append(Append(<<>>, a), b) = <<a, b>>
    <3>1. a \in {a, b} /\ b \in {a, b}
      OBVIOUS
    <3>2. QED  BY ONLY <3>1, TwoInARow
  <2>3. QED  BY <2>1, <2>2 DEF SelectStart
<1>7. ReadsAs(Pieces, SelectText, SelectStart, <<>>)
  BY <1>4, <1>5, <1>6
<1>8. ReadsAs(Pieces, DistinctText, Append(SelectStart, <<"DISTINCT">>), <<>>)
  BY <1>2, <1>7, PieceRead, PiecesAre DEF DistinctText
<1>9. QED  BY <1>7, <1>8

\* What stands behind a list.
SelectWords(cs, w) == Append(Append(Append(cs, w), <<"FROM">>), <<"TABLE;">>)

LEMMA SelectRead ==
  ASSUME NEW t, NEW cs, NEW w, ReadsAs(Pieces, t, cs, w)
  PROVE  parse(t \o FromText) = SelectWords(cs, w)
<1>1. t \in Seq(Pieces)
  BY DEF ReadsAs
<1>2. "FROM" # Blank /\ "TABLE;" # Blank
  BY DEF Blank
<1>3. ReadsAs(Pieces, t \o <<Blank, "FROM", Blank>>, Append(Append(cs, w), <<"FROM">>), <<>>)
  BY <1>2, WordBetween, PiecesAre
<1>4. ReadsAs(Pieces, (t \o <<Blank, "FROM", Blank>>) \o <<"TABLE;">>,
              Append(Append(cs, w), <<"FROM">>), <<"TABLE;">>)
  BY <1>2, <1>3, PieceRead, PiecesAre
<1>5. PICK b \in Pieces, c \in Pieces, d \in Pieces : b = Blank /\ c = "FROM" /\ d = "TABLE;"
  BY PiecesAre
<1>6. (t \o <<b, c, b>>) \o <<d>> = t \o <<b, c, b, d>>
  BY ONLY <1>1
<1>7. ReadsAs(Pieces, t \o FromText, Append(Append(cs, w), <<"FROM">>), <<"TABLE;">>)
  BY <1>4, <1>5, <1>6 DEF FromText
<1>8. QED  BY <1>7 DEF ReadsAs, SelectWords

\* clear_comma() of one word.
Cleared(x) == IF x # <<>> /\ Last(x) = "," THEN Front(x) ELSE x

LEMMA ClearedIs ==
  ASSUME NEW S, Comma \in S, NEW x \in Seq(S)
  PROVE  /\ Cleared(x) \in Seq(S)
         /\ Cleared(WithComma(x)) = x
         /\ Comma \notin Range(x) => Cleared(x) = x
         /\ (\E p \in 1 .. Len(x) - 1 : x[p] = Comma) => Comma \in Range(Cleared(x))
<1>1. PICK n \in Nat : n = Len(x)
  OBVIOUS
<1>2. \A i \in 1 .. n : x[i] \in S
  BY <1>1, ElementOfSeq
<1>3. x # <<>> <=> n # 0
  BY <1>1
<1>4. n # 0 => /\ Front(x) \in Seq(S) /\ Len(Front(x)) = n - 1
               /\ \A i \in 1 .. n - 1 : Front(x)[i] = x[i]
  <2>1. CASE n # 0
    <3>1. PICK m \in Nat : m = n - 1
      BY <2>1
    <3>2. Front(x) = SubSeq(x, 1, m)
      BY <1>1, <3>1 DEF Front
    <3>3. \A i \in 1 .. m : x[i] \in S
      BY <1>2, <3>1
    <3>4. /\ SubSeq(x, 1, m) \in Seq(S) /\ Len(SubSeq(x, 1, m)) = IF 1 <= m THEN m - 1 + 1 ELSE 0
          /\ \A i \in 1 .. m - 1 + 1 : SubSeq(x, 1, m)[i] = x[1 + i - 1]
      BY <3>3, SubSeqProperties
    <3>5. (IF 1 <= m THEN m - 1 + 1 ELSE 0) = m /\ m - 1 + 1 = m
          /\ \A i \in 1 .. m : 1 + i - 1 = i
      BY <3>1
    <3>6. /\ Front(x) \in Seq(S) /\ Len(Front(x)) = m
          /\ \A i \in 1 .. m : Front(x)[i] = x[i]
      BY <3>2, <3>4, <3>5
    <3>7. QED  BY <3>1, <3>6
  <2>2. QED  BY <2>1
<1>5. Cleared(x) \in Seq(S)
  BY <1>3, <1>4 DEF Cleared
<1>6. Cleared(WithComma(x)) = x
  <2> DEFINE y == x \o <<Comma>>
  <2>1. y \in Seq(S) /\ Len(y) = n + 1 /\ y[n + 1] = Comma /\ \A i \in 1 .. n : y[i] = x[i]
    <3>1. PICK c \in S : c = Comma
      OBVIOUS
    <3>2. /\ x \o <<c>> \in Seq(S) /\ Len(x \o <<c>>) = n + 1 /\ (x \o <<c>>)[n + 1] = c
          /\ \A i \in 1 .. n : (x \o <<c>>)[i] = x[i]
      BY ONLY <1>1
    <3>3. QED  BY <3>1, <3>2
  <2> HIDE DEF y
  <2>2. y # <<>> /\ Last(y) = Comma
    BY <2>1 DEF Last
  <2>3. SubSeq(y, 1, n) = x
    <3> DEFINE z == SubSeq(y, 1, n)
    <3>1. \A i \in 1 .. n : y[i] \in S
      BY <1>2, <2>1
    <3>2. /\ z \in Seq(S) /\ Len(z) = IF 1 <= n THEN n - 1 + 1 ELSE 0
          /\ \A i \in 1 .. n - 1 + 1 : z[i] = y[1 + i - 1]
      BY <3>1, SubSeqProperties
    <3> HIDE DEF z
    <3>3. /\ (IF 1 <= n THEN n - 1 + 1 ELSE 0) = n /\ n - 1 + 1 = n
          /\ \A i \in 1 .. n : 1 + i - 1 = i
      OBVIOUS
    <3>4. Len(z) = n /\ \A i \in 1 .. n : z[i] = x[i]
      BY <2>1, <3>2, <3>3
    <3>5. z = x
      BY <1>1, <3>2, <3>4, SeqEqual
    <3>6. QED  BY <3>5 DEF z
  <2>4. Front(y) = x
    <3>1. (n + 1) - 1 = n
      OBVIOUS
    <3>2. QED  BY <2>1, <2>3, <3>1 DEF Front
  <2>5. QED  BY <2>2, <2>4 DEF Cleared, y, WithComma, Comma
<1>7. ASSUME Comma \notin Range(x) PROVE Cleared(x) = x
  <2>1. n # 0 => Last(x) \in Range(x)
    BY <1>1 DEF Last, Range
  <2>2. QED  BY <1>3, <1>7, <2>1 DEF Cleared, Comma
<1>8. ASSUME NEW p \in 1 .. n - 1, x[p] = Comma PROVE Comma \in Range(Cleared(x))
  <2>1. n # 0 /\ p \in 1 .. n
    OBVIOUS
  <2>2. Front(x)[p] = Comma /\ p \in DOMAIN Front(x)
    BY <1>4, <1>8, <2>1
  <2>3. x[p] = Comma /\ p \in DOMAIN x
    BY <1>1, <1>8, <2>1
  <2>4. QED  BY <2>2, <2>3 DEF Cleared, Range
<1>9. QED  BY <1>1, <1>5, <1>6, <1>7, <1>8

LEMMA NothingCleared == Cleared(<<>>) = <<>>
BY DEF Cleared

FromBehind(cs, w, from, name) == Append(Append(Append(cs, w), from), name)

\* W has the words cs, then w and two more.
GoOn(S, W, cs, w, b) == /\ W \in Seq(Seq(S)) /\ Len(W) = b + 3
                        /\ \A i \in 1 .. b : W[i] = cs[i]
                        /\ W[b + 1] = w

LEMMA BehindIs ==
  ASSUME NEW S, NEW cs \in Seq(Seq(S)), NEW w \in Seq(S), NEW b \in Nat, Len(cs) = b,
         NEW from \in Seq(S), NEW name \in Seq(S)
  PROVE  GoOn(S, FromBehind(cs, w, from, name), cs, w, b)
<1> DEFINE X == Append(cs, w)
           Y == Append(X, from)
           W == Append(Y, name)
<1>1. X \in Seq(Seq(S)) /\ Len(X) = b + 1 /\ X[b + 1] = w /\ \A i \in 1 .. b : X[i] = cs[i]
  BY WithLast
<1> HIDE DEF X
<1>3. Y \in Seq(Seq(S)) /\ Len(Y) = (b + 1) + 1 /\ \A i \in 1 .. b + 1 : Y[i] = X[i]
  <2>1. b + 1 \in Nat
    OBVIOUS
  <2>2. QED  BY <1>1, <2>1, WithLast
<1> HIDE DEF Y
<1>4. W \in Seq(Seq(S)) /\ Len(W) = ((b + 1) + 1) + 1 /\ \A i \in 1 .. (b + 1) + 1 : W[i] = Y[i]
  <2>1. (b + 1) + 1 \in Nat
    OBVIOUS
  <2>2. QED  BY <1>3, <2>1, WithLast
<1> HIDE DEF W
<1>5. FromBehind(cs, w, from, name) = W
  BY DEF FromBehind, W, X, Y
<1>6. /\ \A i \in 1 .. b : i \in 1 .. b + 1 /\ i \in 1 .. (b + 1) + 1
      /\ b + 1 \in 1 .. b + 1 /\ b + 1 \in 1 .. (b + 1) + 1 /\ ((b + 1) + 1) + 1 = b + 3
  OBVIOUS
<1>7. Len(W) = b + 3 /\ (\A i \in 1 .. b : W[i] = cs[i]) /\ W[b + 1] = w
  BY <1>1, <1>3, <1>4, <1>6
<1>8. QED  BY <1>4, <1>5, <1>7 DEF GoOn

\* C has the words from first on.
AreTaken(S, C, cs, w, b, first) ==
  /\ C \in Seq(Seq(S)) /\ Len(C) = b + 2 - first
  /\ \A i \in first .. b : C[i - first + 1] = Cleared(cs[i])
  /\ C[b + 2 - first] = Cleared(w)

\* The column words are the words from first on, but for the last two.
LEMMA WordsTaken ==
  ASSUME NEW S, NEW cs \in Seq(Seq(S)), NEW w \in Seq(S), NEW b \in Nat, Len(cs) = b,
         NEW from \in Seq(S), NEW name \in Seq(S), Comma \in S,
         NEW first \in 1 .. b + 1
  PROVE  AreTaken(S, ColumnWords(FromBehind(cs, w, from, name), first), cs, w, b, first)
<1> DEFINE W == FromBehind(cs, w, from, name)
<1>4. GoOn(S, W, cs, w, b)
  BY BehindIs
<1> HIDE DEF W
<1>7. W \in Seq(Seq(S)) /\ Len(W) = b + 3 /\ (\A i \in 1 .. b : W[i] = cs[i]) /\ W[b + 1] = w
  BY <1>4 DEF GoOn
<1> DEFINE V == clear_comma(W)
<1>8. \A i \in 1 .. b + 3 : V[i] = Cleared(W[i]) /\ V[i] \in Seq(S)
  <2>1. DOMAIN W = 1 .. b + 3
    BY <1>7
  <2>2. \A i \in 1 .. b + 3 : W[i] \in Seq(S)
    BY <1>7, ElementOfSeq
  <2>3. \A i \in 1 .. b + 3 : V[i] = Cleared(W[i])
    BY <2>1 DEF clear_comma, Cleared
  <2> HIDE DEF V
  <2>4. \A x \in Seq(S) : Cleared(x) \in Seq(S)
    BY ClearedIs
  <2>5. QED  BY <2>2, <2>3, <2>4
<1> HIDE DEF V
<1> DEFINE C == SubSeq(V, first, b + 1)
<1>9. ColumnWords(W, first) = C
  <2>1. (b + 3) - 2 = b + 1
    OBVIOUS
  <2>2. QED  BY <1>7, <2>1 DEF ColumnWords, V
<1>10. /\ C \in Seq(Seq(S))
       /\ Len(C) = (IF first <= b + 1 THEN (b + 1) - first + 1 ELSE 0)
       /\ \A i \in 1 .. (b + 1) - first + 1 : C[i] = V[first + i - 1]
  <2>1. \A i \in first .. b + 1 : V[i] \in Seq(S)
    BY <1>8
  <2>2. first \in Int /\ b + 1 \in Int
    OBVIOUS
  <2>3. QED  BY <2>1, <2>2, SubSeqProperties
<1> HIDE DEF C
<1>11. Len(C) = b + 2 - first
  <2>1. first <= b + 1 /\ (b + 1) - first + 1 = b + 2 - first
    OBVIOUS
  <2>2. QED  BY <1>10, <2>1
<1>12. ASSUME NEW i \in first .. b PROVE C[i - first + 1] = Cleared(cs[i])
  <2>1. /\ i - first + 1 \in 1 .. (b + 1) - first + 1 /\ first + (i - first + 1) - 1 = i
        /\ i \in 1 .. b /\ i \in 1 .. b + 3
    OBVIOUS
  <2>2. QED  BY <1>7, <1>8, <1>10, <2>1
<1>13. C[b + 2 - first] = Cleared(w)
  <2>1. /\ b + 2 - first \in 1 .. (b + 1) - first + 1 /\ first + (b + 2 - first) - 1 = b + 1
        /\ b + 1 \in 1 .. b + 3
    OBVIOUS
  <2>2. QED  BY <1>7, <1>8, <1>10, <2>1
<1>14. QED  BY <1>9, <1>10, <1>11, <1>12, <1>13 DEF AreTaken, W

\* C is c, or has a word that is not the name of a column: one with a comma in
\* it, or an empty one.
SameOrNoNames(C, c) == \/ C = c
                       \/ \E i \in DOMAIN C : Comma \in Range(C[i]) \/ C[i] = <<>>

LEMMA ColumnsTaken ==
  ASSUME NEW S, NEW ws \in Seq(Seq(S)), NEW a \in Nat, Len(ws) = a,
         NEW from \in Seq(S), NEW name \in Seq(S), Comma \in S,
         NEW n \in Nat \ {0}, NEW items \in Seq(Seq(S)), Len(items) = n,
         \A j \in 1 .. n : Comma \notin Range(items[j]), NEW how,
         NEW cs \in Seq(Seq(S)), NEW w \in Seq(S), ListWords(ws, items, how, n, cs, w)
  PROVE  SameOrNoNames(ColumnWords(FromBehind(cs, w, from, name), a + 1), items)
<1> DEFINE C == ColumnWords(FromBehind(cs, w, from, name), a + 1)
<1>1. PICK b \in Nat : b = Len(cs)
  OBVIOUS
<1>2. b >= a
  BY <1>1 DEF ListWords
<1>3. a + 1 \in 1 .. b + 1 /\ b + 2 - (a + 1) = b - a + 1 /\ \A i \in Nat : i - (a + 1) + 1 = i - a
  BY <1>2
<1>4. /\ C \in Seq(Seq(S)) /\ Len(C) = b + 2 - (a + 1)
      /\ \A i \in a + 1 .. b : C[i - (a + 1) + 1] = Cleared(cs[i])
      /\ C[b + 2 - (a + 1)] = Cleared(w)
  <2>1. PICK first \in 1 .. b + 1 : first = a + 1
    BY <1>3
  <2>2. Len(cs) = b /\ Comma \in S
    BY <1>1
  <2>3. AreTaken(S, ColumnWords(FromBehind(cs, w, from, name), first), cs, w, b, first)
    BY ONLY <2>2, WordsTaken
  <2>4. QED  BY <2>1, <2>3 DEF AreTaken
<1> HIDE DEF C, SameOrNoNames
<1>5. /\ C \in Seq(Seq(S)) /\ Len(C) = b - a + 1
      /\ \A i \in a + 1 .. b : C[i - a] = Cleared(cs[i])
      /\ C[b - a + 1] = Cleared(w)
  BY <1>3, <1>4
<1>6. \A j \in 1 .. n : items[j] \in Seq(S) /\ Cleared(items[j]) = items[j]
                        /\ Cleared(WithComma(items[j])) = items[j]
  <2>1. \A j \in 1 .. n : items[j] \in Seq(S)
    BY ElementOfSeq
  <2>2. QED  BY <2>1, ClearedIs
<1>7. CASE n = 1
  <2>1. b = a /\ w = items[1]
    BY <1>1, <1>7 DEF ListWords
  <2>2. b - a + 1 = 1 /\ 1 \in 1 .. n
    BY <1>7, <2>1
  <2>3. Len(C) = 1 /\ C[1] = items[1]
    BY <1>5, <1>6, <2>1, <2>2
  <2>4. \A i \in 1 .. 1 : i = 1
    OBVIOUS
  <2>5. C = items
    BY <1>5, <1>7, <2>3, <2>4, SeqEqual
  <2>6. QED  BY <2>5 DEF C, SameOrNoNames
<1>8. CASE n >= 2 /\ how = "tight"
  <2>1. b = a /\ \E p \in 1 .. Len(w) - 1 : w[p] = Comma
    BY <1>1, <1>8 DEF ListWords
  <2>2. b - a + 1 = 1
    BY <2>1
  <2>3. Comma \in Range(C[1])
    BY <1>5, <2>1, <2>2, ClearedIs
  <2>4. 1 \in DOMAIN C
    BY <1>5, <2>2
  <2>5. QED  BY <2>3, <2>4 DEF C, SameOrNoNames
<1>9. CASE n >= 2 /\ how = "wide"
  <2>1. b >= a + 2 /\ cs[a + 2] = <<>>
    BY <1>1, <1>9 DEF ListWords
  <2>2. a + 2 \in a + 1 .. b /\ (a + 2) - a = 2 /\ 2 \in 1 .. b - a + 1
    BY <2>1
  <2>3. C[2] = Cleared(cs[a + 2])
    BY <1>5, <2>2
  <2>4. C[2] = <<>> /\ 2 \in DOMAIN C
    BY <1>5, <2>1, <2>2, <2>3, NothingCleared
  <2>5. QED  BY <2>4 DEF C, SameOrNoNames
<1>10. CASE how \notin {"tight", "wide"}
  <2>1. /\ b = a + n - 1 /\ w = items[n]
        /\ \A j \in 1 .. n - 1 : cs[a + j] = WithComma(items[j])
    BY <1>1, <1>10 DEF ListWords
  <2>2. Len(C) = n
    BY <1>5, <2>1
  <2>3. ASSUME NEW i \in 1 .. n PROVE C[i] = items[i]
    <3>1. CASE i = n
      <4>1. b - a + 1 = n
        BY <2>1
      <4>2. QED  BY <1>5, <1>6, <2>1, <3>1, <4>1
    <3>2. CASE i # n
      <4>1. i \in 1 .. n - 1 /\ a + i \in a + 1 .. b /\ (a + i) - a = i
        BY <2>1, <3>2
      <4>2. C[i] = Cleared(cs[a + i])
        BY <1>5, <4>1
      <4>3. QED  BY <1>6, <2>1, <4>1, <4>2
    <3>3. QED  BY <3>1, <3>2
  <2>4. C = items
    BY <1>5, <2>2, <2>3, SeqEqual
  <2>5. QED  BY <2>4 DEF C, SameOrNoNames
<1>11. n = 1 \/ n >= 2
  OBVIOUS
<1>12. QED  BY <1>7, <1>8, <1>9, <1>10, <1>11

LEMMA EndedIs ==
  ASSUME NEW S, Comma \in S, NEW x \in Seq(S)
  PROVE  Len(WithComma(x)) = Len(x) + 1
<1>1. PICK c \in S : c = Comma
  OBVIOUS
<1>2. Len(x \o <<c>>) = Len(x) + 1
  OBVIOUS
<1>3. QED  BY <1>1, <1>2 DEF WithComma

\* The words W begin with ws, and go on with x or with more than one piece.
Begin(W, ws, a, x) == /\ \A i \in 1 .. a : W[i] = ws[i]
                      /\ W[a + 1] = x \/ Len(W[a + 1]) >= 2

LEMMA FirstOfList ==
  ASSUME NEW S, NEW ws \in Seq(Seq(S)), NEW a \in Nat, Len(ws) = a, Comma \in S,
         NEW n \in Nat \ {0}, NEW items \in Seq(Seq(S)), Len(items) = n, NEW how,
         \A j \in 1 .. n : items[j] # <<>>,
         NEW cs \in Seq(Seq(S)), NEW w \in Seq(S), ListWords(ws, items, how, n, cs, w),
         NEW W, NEW b \in Nat, b = Len(cs), GoOn(S, W, cs, w, b)
  PROVE  b >= a /\ Begin(W, ws, a, items[1])
<1>1. /\ b >= a
      /\ \A i \in 1 .. a : cs[i] = ws[i]
  BY DEF ListWords
<1>2. /\ \A i \in 1 .. b : W[i] = cs[i]
      /\ W[b + 1] = w
  BY DEF GoOn
<1>7. \A i \in 1 .. a : i \in 1 .. b
  BY <1>1
<1>3. Len(WithComma(items[1])) >= 2
  <2>1. 1 \in 1 .. n
    OBVIOUS
  <2>2. items[1] \in Seq(S) /\ items[1] # <<>>
    BY <2>1, ElementOfSeq
  <2>3. PICK l \in Nat : l = Len(items[1]) /\ l # 0
    BY <2>2
  <2>4. QED  BY <2>2, <2>3, EndedIs
<1>4. CASE n = 1
  <2>1. b = a /\ w = items[1]
    BY <1>4 DEF ListWords
  <2>2. QED  BY <1>1, <1>2, <1>7, <2>1 DEF Begin
<1>5. CASE n >= 2 /\ how = "tight"
  <2>1. b = a /\ \E p \in 1 .. Len(w) - 1 : w[p] = Comma
    BY <1>5 DEF ListWords
  <2>2. Len(w) >= 2
    <3>1. PICK l \in Nat : l = Len(w)
      OBVIOUS
    <3>2. \A p \in 1 .. l - 1 : l >= 2
      OBVIOUS
    <3>3. QED  BY <2>1, <3>1, <3>2
  <2>3. QED  BY <1>1, <1>2, <1>7, <2>1, <2>2 DEF Begin
<1>6. CASE n >= 2 /\ how # "tight"
  <2>1. b >= a + 1 /\ cs[a + 1] = WithComma(items[1])
    <3>1. CASE how = "wide"
      <4>1. b >= a + 2 /\ cs[a + 1] = WithComma(items[1])
        BY <1>6, <3>1 DEF ListWords
      <4>2. QED  BY <4>1
    <3>2. CASE how # "wide"
      <4>1. b = a + n - 1 /\ \A j \in 1 .. n - 1 : cs[a + j] = WithComma(items[j])
        BY <1>6, <3>2 DEF ListWords
      <4>2. 1 \in 1 .. n - 1
        BY <1>6
      <4>3. QED  BY <1>6, <4>1, <4>2
    <3>3. QED  BY <3>1, <3>2
  <2>2. a + 1 \in 1 .. b
    BY <2>1
  <2>3. \A i \in 1 .. a : i \in 1 .. b
    BY <2>1
  <2>4. QED  BY <1>1, <1>2, <1>3, <2>1, <2>2, <2>3 DEF Begin
<1>8. n = 1 \/ n >= 2
  OBVIOUS
<1>9. QED  BY <1>1, <1>4, <1>5, <1>6, <1>8

LEMMA SelectStartIs ==
  /\ Len(SelectStart) = 2 /\ SelectStart[1] = <<"1">> /\ SelectStart[2] = <<"SELECT">>
  /\ LET ws == Append(SelectStart, <<"DISTINCT">>)
     IN Len(ws) = 3 /\ ws[2] = <<"SELECT">> /\ ws[3] = <<"DISTINCT">>
<1>1. PICK x, y, z : x = <<"1">> /\ y = <<"SELECT">> /\ z = <<"DISTINCT">>
  OBVIOUS
<1> DEFINE A == {x, y, z}
<1>2. x \in A /\ y \in A /\ z \in A
  OBVIOUS
<1> HIDE DEF A
<1>3. /\ <<x, y>> \in Seq(A) /\ Len(<<x, y>>) = 2 /\ <<x, y>>[1] = x /\ <<x, y>>[2] = y
  BY ONLY <1>2
<1>4. /\ Len(Append(<<x, y>>, z)) = 3 /\ Append(<<x, y>>, z)[2] = y
      /\ Append(<<x, y>>, z)[3] = z
  BY ONLY <1>2
<1>5. SelectStart = <<x, y>>
  BY <1>1 DEF SelectStart
<1>6. QED  BY <1>1, <1>3, <1>4, <1>5

LEMMA TypeOfWords ==
  ASSUME NEW W, W[2] = <<"SELECT">>
  PROVE  /\ W[3] = <<"*">> => get_type(W) = "select_star"
         /\ W[3] = <<"DISTINCT">> => get_type(W) = "select_distinct"
         /\ W[3] # <<"*">> /\ W[3] # <<"DISTINCT">> => get_type(W) = "select_column"
<1>1. <<"SELECT">> # <<"UPDATE">> /\ <<"*">> # <<"DISTINCT">>
  OBVIOUS
<1>2. QED  BY <1>1 DEF get_type

LEMMA LongWord ==
  ASSUME NEW x, Len(x) >= 2 PROVE x # <<"*">> /\ x # <<"DISTINCT">>
<1>1. PICK a, b : a = "*" /\ b = "DISTINCT"
  OBVIOUS
<1>2. Len(<<a>>) = 1 /\ Len(<<b>>) = 1
  OBVIOUS
<1>3. Len(x) >= 2
  OBVIOUS
<1>4. x # <<a>> /\ x # <<b>>
  <2>1. \A n : n = 1 => ~ (n >= 2)
    OBVIOUS
  <2>2. ~ (Len(<<a>>) >= 2) /\ ~ (Len(<<b>>) >= 2)
    BY <1>2, <2>1
  <2>3. QED  BY <1>3, <2>2, Zenon
<1>5. QED  BY <1>1, <1>4

LEMMA ListedTyped ==
  ASSUME NEW S, Blank \in S, Comma \in S, NEW how, NEW n \in Nat,
         NEW items \in Seq(Seq(S)), Len(items) = n
  PROVE  Listed(items, how) \in Seq(S) /\ (n = 0 => Listed(items, how) = <<>>)
<1> DEFINE U == ListedUpTo(items, how)
           P == {k \in 0 .. n : U[k] \in Seq(S)}
<1>1. /\ U[0] = <<>>
      /\ n >= 1 => U[1] = items[1]
      /\ \A k \in 2 .. n : U[k] = Joint(U[k - 1], how, items[k])
  <2>1. n \in Nat /\ Len(items) = n
    OBVIOUS
  <2>2. QED  BY ONLY <2>1, ListedUnfolds
<1>2. \A j \in 1 .. n : items[j] \in Seq(S)
  BY ElementOfSeq
<1>3. Listed(items, how) = U[n]
  BY ListedIs
<1> HIDE DEF U
<1>4. 0 \in P
  <2>1. <<>> \in Seq(S) /\ 0 \in 0 .. n
    BY EmptySeq
  <2>2. QED  BY <1>1, <2>1
<1>5. ASSUME NEW k \in 0 .. n - 1, k \in P PROVE k + 1 \in P
  <2>1. k + 1 \in 1 .. n /\ k + 1 \in 0 .. n /\ (k + 1) - 1 = k
    OBVIOUS
  <2>2. PICK y \in Seq(S) : y = items[k + 1]
    BY <1>2, <2>1
  <2>3. CASE k = 0
    <3>1. U[k + 1] = y
      BY <1>1, <2>1, <2>2, <2>3
    <3>2. QED  BY <2>1, <3>1
  <2>4. CASE k # 0
    <3>1. k + 1 \in 2 .. n
      BY <2>1, <2>4
    <3>2. PICK x \in Seq(S) : x = U[k]
      BY <1>5
    <3>3. U[k + 1] = Joint(x, how, y)
      BY <1>1, <2>1, <2>2, <3>1, <3>2
    <3>4. <<>> \in Seq(S) /\ Blank \in S /\ Comma \in S
      BY EmptySeq
    <3>5. Joint(x, how, y) \in Seq(S)
      BY ONLY <3>4, JointIs
    <3>6. QED  BY <2>1, <3>3, <3>5
  <2>5. QED  BY <2>3, <2>4
<1>6. \A k \in 0 .. n : k \in P
  <2> HIDE DEF P
  <2>1. QED  BY <1>4, <1>5, UpTo
<1>7. n \in 0 .. n
  OBVIOUS
<1>8. U[n] \in Seq(S)
  BY <1>6, <1>7
<1>9. QED  BY <1>1, <1>3, <1>8

-------------------------------------------------------------------------------
(* The words of an UPDATE *)

\* The word y assigns v, of q pieces, to u, of p, and may go on behind.
Assigns(y, u, p, v, q) ==
  /\ Len(y) >= p + q + 3
  /\ \A i \in 1 .. p : y[i] = u[i]
  /\ y[p + 1] = Equals /\ y[p + 2] = Apostrophe
  /\ \A i \in 1 .. q : y[p + 2 + i] = v[i]
  /\ y[p + q + 3] = Apostrophe

LEMMA AssignedIs ==
  ASSUME NEW S, NEW y \in Seq(S), NEW u \in Seq(S), NEW v \in Seq(S),
         NEW p \in Nat, NEW q \in Nat, Len(u) = p, Len(v) = q, Assigns(y, u, p, v, q),
         Equals \notin Range(u), Apostrophe \notin Range(v)
  PROVE  get_colname_value(y) = <<u, v>> /\ contains(y, Equals)
<1>1. PICK n \in Nat : n = Len(y) /\ n >= p + q + 3
  BY DEF Assigns
<1>2. /\ \A i \in 1 .. p : y[i] = u[i]
      /\ y[p + 1] = Equals /\ y[p + 2] = Apostrophe
      /\ \A i \in 1 .. q : y[p + 2 + i] = v[i]
      /\ y[p + q + 3] = Apostrophe
  BY DEF Assigns
<1>3. \A i \in 1 .. p : u[i] \in Range(u)
  BY DEF Range
<1>4. \A i \in 1 .. q : v[i] \in Range(v)
  BY DEF Range
<1>5. Equals # Apostrophe
  BY DEF Equals, Apostrophe
<1>6. NextOf(y, 1, {Equals}) = p + 1
  <2>1. 1 \in 1 .. n + 1 /\ p + 1 \in 1 .. n + 1 /\ Len(y) = n
    BY <1>1
  <2>2. y[p + 1] \in {Equals}
    BY <1>2
  <2>3. \A i \in 1 .. n : i < p + 1 => y[i] \notin {Equals}
    <3>1. \A i \in 1 .. n : i < p + 1 => i \in 1 .. p
      OBVIOUS
    <3>2. QED  BY <1>2, <1>3, <3>1
  <2>4. n \in Nat
    BY <1>1
  <2>5. QED  BY ONLY <2>1, <2>2, <2>3, <2>4, NextOfUnique
<1>7. NextOf(y, p + 1, {Apostrophe}) = p + 2
  <2>1. p + 1 \in 1 .. n + 1 /\ p + 2 \in p + 1 .. n + 1 /\ Len(y) = n
    BY <1>1
  <2>2. y[p + 2] \in {Apostrophe}
    BY <1>2
  <2>3. \A i \in p + 1 .. n : i < p + 2 => y[i] \notin {Apostrophe}
    <3>1. \A i \in p + 1 .. n : i < p + 2 => i = p + 1
      OBVIOUS
    <3>2. QED  BY <1>2, <1>5, <3>1
  <2>4. QED  BY <2>1, <2>2, <2>3, NextOfUnique
<1>8. NextOf(y, (p + 2) + 1, {Apostrophe}) = p + q + 3
  <2>1. (p + 2) + 1 \in 1 .. n + 1 /\ p + q + 3 \in (p + 2) + 1 .. n + 1 /\ Len(y) = n
    BY <1>1
  <2>2. y[p + q + 3] \in {Apostrophe}
    BY <1>2
  <2>3. ASSUME NEW i \in (p + 2) + 1 .. n, i < p + q + 3 PROVE y[i] \notin {Apostrophe}
    <3>1. i - (p + 2) \in 1 .. q /\ p + 2 + (i - (p + 2)) = i
      BY <2>3
    <3>2. y[i] = v[i - (p + 2)]
      BY <1>2, <3>1
    <3>3. QED  BY <1>4, <3>1, <3>2
  <2>4. QED  BY <2>1, <2>2, <2>3, NextOfUnique
<1>9. SubSeq(y, 1, (p + 1) - 1) = u
  <2> DEFINE z == SubSeq(y, 1, p)
  <2>1. \A i \in 1 .. p : y[i] \in S
    <3>1. \A i \in 1 .. p : i \in 1 .. n
      BY <1>1
    <3>2. QED  BY <1>1, <3>1, ElementOfSeq
  <2>2. /\ z \in Seq(S) /\ Len(z) = IF 1 <= p THEN p - 1 + 1 ELSE 0
        /\ \A i \in 1 .. p - 1 + 1 : z[i] = y[1 + i - 1]
    BY <2>1, SubSeqProperties
  <2> HIDE DEF z
  <2>3. /\ (IF 1 <= p THEN p - 1 + 1 ELSE 0) = p /\ p - 1 + 1 = p
        /\ \A i \in 1 .. p : 1 + i - 1 = i
    OBVIOUS
  <2>4. Len(z) = p /\ \A i \in 1 .. p : z[i] = u[i]
    BY <1>2, <2>2, <2>3
  <2>5. z = u
    BY <2>2, <2>4, SeqEqual
  <2>6. (p + 1) - 1 = p
    OBVIOUS
  <2>7. QED  BY <2>5, <2>6 DEF z
<1>10. SubSeq(y, (p + 2) + 1, (p + q + 3) - 1) = v
  <2>1. PICK b \in Nat, e \in Nat : b = (p + 2) + 1 /\ e = (p + q + 3) - 1
    OBVIOUS
  <2> DEFINE z == SubSeq(y, b, e)
  <2>2. \A i \in b .. e : y[i] \in S
    <3>1. \A i \in b .. e : i \in 1 .. n
      BY <1>1, <2>1
    <3>2. QED  BY <1>1, <3>1, ElementOfSeq
  <2>3. /\ z \in Seq(S) /\ Len(z) = IF b <= e THEN e - b + 1 ELSE 0
        /\ \A i \in 1 .. e - b + 1 : z[i] = y[b + i - 1]
    BY <2>2, SubSeqProperties
  <2> HIDE DEF z
  <2>4. /\ (IF b <= e THEN e - b + 1 ELSE 0) = q /\ e - b + 1 = q
        /\ \A i \in 1 .. q : b + i - 1 = p + 2 + i
    BY <2>1
  <2>5. Len(z) = q /\ \A i \in 1 .. q : z[i] = v[i]
    BY <1>2, <2>3, <2>4
  <2>6. z = v
    BY <2>3, <2>5, SeqEqual
  <2>7. QED  BY <2>1, <2>6 DEF z
<1>11. contains(y, Equals)
  <2>1. p + 1 \in DOMAIN y
    BY <1>1
  <2>2. QED  BY <1>2, <2>1 DEF contains, Range
<1>12. QED  BY <1>6, <1>7, <1>8, <1>9, <1>10, <1>11 DEF get_colname_value

LEMMA AssigningIs ==
  ASSUME NEW S, Equals \in S, Apostrophe \in S, Comma \in S, Blank # Equals, Blank # Apostrophe,
         NEW u \in Seq(S), NEW v \in Seq(S), NEW p \in Nat, NEW q \in Nat,
         Len(u) = p, Len(v) = q, Blank \notin Range(u), Blank \notin Range(v),
         NEW y, y = ((u \o <<Equals, Apostrophe>>) \o v) \o <<Apostrophe>>
  PROVE  /\ y \in Seq(S) /\ y # <<>> /\ Blank \notin Range(y) /\ WithComma(y) \in Seq(S)
         /\ Assigns(y, u, p, v, q) /\ Assigns(WithComma(y), u, p, v, q)
<1>1. PICK e \in S, a \in S, c \in S : e = Equals /\ a = Apostrophe /\ c = Comma
  OBVIOUS
<1>2. y = ((u \o <<e, a>>) \o v) \o <<a>>
  BY <1>1
<1>3. Len(u) = p /\ Len(v) = q
  OBVIOUS
<1>4. y \in Seq(S) /\ Len(y) = p + q + 3
  <2> DEFINE x == u \o <<e, a>>
             z == x \o v
  <2>1. x \in Seq(S) /\ Len(x) = p + 2
    BY ONLY <1>3
  <2>2. y = z \o <<a>>
    BY ONLY <1>2
  <2> HIDE DEF x
  <2>3. z \in Seq(S) /\ Len(z) = p + 2 + q
    BY ONLY <1>3, <2>1
  <2> HIDE DEF z
  <2>4. z \o <<a>> \in Seq(S) /\ Len(z \o <<a>>) = p + 2 + q + 1
    BY ONLY <2>3
  <2>5. y \in Seq(S) /\ Len(y) = p + 2 + q + 1
    BY <2>2, <2>4
  <2>6. QED  BY ONLY <2>5
<1>5. /\ \A i \in 1 .. p : y[i] = u[i]
      /\ y[p + 1] = e /\ y[p + 2] = a /\ y[p + q + 3] = a
  <2>1. \A i \in 1 .. p : y[i] = u[i]
    BY ONLY <1>2, <1>3
  <2>2. y[p + 1] = e
    BY ONLY <1>2, <1>3
  <2>3. y[p + 2] = a
    BY ONLY <1>2, <1>3
  <2>4. y[p + q + 3] = a
    BY ONLY <1>2, <1>3
  <2>5. QED  BY ONLY <2>1, <2>2, <2>3, <2>4
<1>6. \A i \in 1 .. q : y[p + 2 + i] = v[i]
  BY ONLY <1>2, <1>3
<1>7. WithComma(y) = y \o <<c>>
  BY <1>1 DEF WithComma
<1>8. /\ WithComma(y) \in Seq(S) /\ Len(WithComma(y)) = p + q + 4
      /\ \A i \in 1 .. p + q + 3 : WithComma(y)[i] = y[i]
  BY ONLY <1>4, <1>7
<1>9. Assigns(y, u, p, v, q)
  <2>1. Len(y) >= p + q + 3
    BY <1>4
  <2>2. QED  BY <1>1, <1>5, <1>6, <2>1 DEF Assigns
<1>10. Assigns(WithComma(y), u, p, v, q)
  <2>1. /\ Len(WithComma(y)) >= p + q + 3
        /\ p + 1 \in 1 .. p + q + 3 /\ p + 2 \in 1 .. p + q + 3
        /\ p + q + 3 \in 1 .. p + q + 3
        /\ \A i \in 1 .. p : i \in 1 .. p + q + 3
        /\ \A i \in 1 .. q : p + 2 + i \in 1 .. p + q + 3
    <3>1. Len(WithComma(y)) >= p + q + 3
      BY ONLY <1>8
    <3>2. QED  BY ONLY <3>1
  <2>2. QED  BY <1>1, <1>5, <1>6, <1>8, <2>1 DEF Assigns
<1>11. Blank \notin Range(y)
  <2>1. ASSUME NEW i \in 1 .. p + q + 3 PROVE y[i] # Blank
    <3>1. CASE i \in 1 .. p
      <4>1. u[i] \in Range(u)
        BY ONLY <1>3, <3>1 DEF Range
      <4>2. QED  BY <1>5, <3>1, <4>1
    <3>2. CASE i = p + 1 \/ i = p + 2 \/ i = p + q + 3
      BY <1>1, <1>5, <3>2
    <3>3. CASE i - (p + 2) \in 1 .. q
      <4>1. p + 2 + (i - (p + 2)) = i
        OBVIOUS
      <4>2. v[i - (p + 2)] \in Range(v)
        BY ONLY <1>3, <3>3 DEF Range
      <4>3. y[i] = v[i - (p + 2)]
        BY <1>6, <3>3, <4>1
      <4>4. QED  BY <4>2, <4>3
    <3>4. QED  BY <3>1, <3>2, <3>3
  <2>2. DOMAIN y = 1 .. p + q + 3
    BY <1>4
  <2>3. QED  BY <2>1, <2>2 DEF Range
<1>12. y # <<>>
  BY <1>4
<1>13. QED  BY <1>4, <1>8, <1>9, <1>10, <1>11, <1>12

\* What is written for an assignment, alone or with a comma behind it.
Sets(y, a) == contains(y, Equals) /\ get_colname_value(y) = a

\* Where the words assign, and that these are the first m assignments of A.
SetPlaces(words) == {i \in DOMAIN words : contains(words[i], Equals)}

SetsAre(words, A, m) ==
  /\ Cardinality(SetPlaces(words)) = m
  /\ \A k \in 1 .. m : get_colname_value(words[Nth(SetPlaces(words), k)]) = A[k]

LEMMA PlacesAre ==
  ASSUME NEW S, NEW ws \in Seq(Seq(S))
  PROVE  SetPlaces(ws) \in SUBSET (1 .. Len(ws)) /\ IsFiniteSet(SetPlaces(ws))
<1>1. SetPlaces(ws) \in SUBSET (1 .. Len(ws))
  BY DEF SetPlaces
<1>2. IsFiniteSet(1 .. Len(ws))
  <2>1. PICK n \in Nat : n = Len(ws)
    OBVIOUS
  <2>2. IsFiniteSet(1 .. n)
    BY FS_Interval
  <2>3. QED  BY <2>1, <2>2
<1>3. QED  BY <1>1, <1>2, FS_Subset

LEMMA OneWordMore ==
  ASSUME NEW S, NEW ws \in Seq(Seq(S)), NEW w \in Seq(S), NEW A, NEW m \in Nat,
         SetsAre(ws, A, m)
  PROVE  /\ ~ contains(w, Equals) => SetsAre(Append(ws, w), A, m)
         /\ Sets(w, A[m + 1]) => SetsAre(Append(ws, w), A, m + 1)
<1>1. PICK n \in Nat : n = Len(ws)
  OBVIOUS
<1>2. PICK vs \in Seq(Seq(S)) : vs = Append(ws, w)
  <2>1. Append(ws, w) \in Seq(Seq(S))
    OBVIOUS
  <2>2. QED  BY <2>1
<1>3. /\ DOMAIN vs = 1 .. n + 1 /\ DOMAIN ws = 1 .. n
      /\ \A i \in 1 .. n : vs[i] = ws[i]
      /\ vs[n + 1] = w
  BY <1>1, <1>2
<1>4. /\ SetPlaces(ws) \in SUBSET (1 .. n) /\ IsFiniteSet(SetPlaces(ws))
  BY <1>1, PlacesAre
<1>5. /\ Cardinality(SetPlaces(ws)) = m
      /\ \A k \in 1 .. m : get_colname_value(ws[Nth(SetPlaces(ws), k)]) = A[k]
  BY DEF SetsAre
<1>6. \A k \in 1 .. m : /\ Nth(SetPlaces(ws), k) \in 1 .. n
                        /\ get_colname_value(vs[Nth(SetPlaces(ws), k)]) = A[k]
  <2>1. SetPlaces(ws) \in SUBSET Int
    BY <1>4
  <2>2. \A k \in 1 .. m : Nth(SetPlaces(ws), k) \in SetPlaces(ws)
    BY <1>4, <1>5, <2>1, NthCounts
  <2>3. QED  BY <1>3, <1>4, <1>5, <2>2
<1>7. ASSUME ~ contains(w, Equals) PROVE SetsAre(vs, A, m)
  <2>1. SetPlaces(vs) = SetPlaces(ws)
    <3>1. \A i \in 1 .. n + 1 : i \in SetPlaces(vs) <=> i \in SetPlaces(ws)
      <4>1. n + 1 \notin SetPlaces(ws) /\ n + 1 \notin SetPlaces(vs)
        BY <1>3, <1>4, <1>7 DEF SetPlaces
      <4>2. \A i \in 1 .. n : i \in SetPlaces(vs) <=> i \in SetPlaces(ws)
        <5>1. \A i \in 1 .. n : i \in 1 .. n + 1
          OBVIOUS
        <5>2. QED  BY <1>3, <5>1 DEF SetPlaces
      <4>3. \A i \in 1 .. n + 1 : i \in 1 .. n \/ i = n + 1
        OBVIOUS
      <4>4. QED  BY <4>1, <4>2, <4>3
    <3>2. SetPlaces(vs) \subseteq 1 .. n + 1 /\ SetPlaces(ws) \subseteq 1 .. n + 1
      BY <1>3, <1>4 DEF SetPlaces
    <3>3. QED  BY <3>1, <3>2
  <2>2. QED  BY <1>5, <1>6, <2>1 DEF SetsAre
<1>8. ASSUME Sets(w, A[m + 1]) PROVE SetsAre(vs, A, m + 1)
  <2>1. contains(w, Equals) /\ get_colname_value(w) = A[m + 1]
    BY <1>8 DEF Sets
  <2>2. SetPlaces(vs) = SetPlaces(ws) \cup {n + 1}
    <3>1. \A i \in 1 .. n + 1 : i \in SetPlaces(vs) <=> i \in SetPlaces(ws) \cup {n + 1}
      <4>1. n + 1 \in SetPlaces(vs)
        BY <1>3, <2>1 DEF SetPlaces
      <4>2. \A i \in 1 .. n : i \in SetPlaces(vs) <=> i \in SetPlaces(ws)
        <5>1. \A i \in 1 .. n : i \in 1 .. n + 1
          OBVIOUS
        <5>2. QED  BY <1>3, <5>1 DEF SetPlaces
      <4>3. \A i \in 1 .. n + 1 : (i \in 1 .. n /\ i # n + 1) \/ i = n + 1
        OBVIOUS
      <4>4. QED  BY <4>1, <4>2, <4>3
    <3>2. SetPlaces(vs) \subseteq 1 .. n + 1 /\ SetPlaces(ws) \cup {n + 1} \subseteq 1 .. n + 1
      <4>1. n + 1 \in 1 .. n + 1 /\ 1 .. n \subseteq 1 .. n + 1
        OBVIOUS
      <4>2. QED  BY <1>3, <1>4, <4>1 DEF SetPlaces
    <3>3. QED  BY <3>1, <3>2
  <2>3. /\ Cardinality(SetPlaces(ws) \cup {n + 1}) = m + 1
        /\ \A k \in 1 .. m : Nth(SetPlaces(ws) \cup {n + 1}, k) = Nth(SetPlaces(ws), k)
        /\ Nth(SetPlaces(ws) \cup {n + 1}, m + 1) = n + 1
    <3>1. /\ SetPlaces(ws) \in SUBSET Int /\ n + 1 \in Int
          /\ \A s \in SetPlaces(ws) : s < n + 1
      BY <1>4
    <3>2. QED  BY <1>4, <1>5, <3>1, NthBelow
  <2>4. /\ Cardinality(SetPlaces(vs)) = m + 1
        /\ \A k \in 1 .. m : Nth(SetPlaces(vs), k) = Nth(SetPlaces(ws), k)
        /\ Nth(SetPlaces(vs), m + 1) = n + 1
    BY <2>2, <2>3
  <2>5. ASSUME NEW k \in 1 .. m + 1
        PROVE  get_colname_value(vs[Nth(SetPlaces(vs), k)]) = A[k]
    <3>1. CASE k = m + 1
      BY <1>3, <2>1, <2>4, <3>1
    <3>2. CASE k # m + 1
      <4>1. k \in 1 .. m
        BY <3>2
      <4>2. QED  BY <1>6, <2>4, <4>1
    <3>3. QED  BY <3>1, <3>2
  <2>6. QED  BY <2>4, <2>5 DEF SetsAre
<1>9. QED  BY <1>2, <1>7, <1>8

LEMMA EightInARow ==
  ASSUME NEW S, NEW a \in S, NEW b \in S, NEW c \in S, NEW d \in S,
         NEW e \in S, NEW f \in S, NEW g \in S, NEW h \in S
  PROVE  <<a, b, c, d>> \o <<e, f, g, h>> = <<a, b, c, d, e, f, g, h>>
<1> DEFINE s == <<a, b, c, d>> \o <<e, f, g, h>>
           t == <<a, b, c, d, e, f, g, h>>
<1>1. /\ s \in Seq(S) /\ Len(s) = 8
      /\ s[1] = a /\ s[2] = b /\ s[3] = c /\ s[4] = d
      /\ s[5] = e /\ s[6] = f /\ s[7] = g /\ s[8] = h
  OBVIOUS
<1>2. /\ t \in Seq(S) /\ Len(t) = 8
      /\ t[1] = a /\ t[2] = b /\ t[3] = c /\ t[4] = d
      /\ t[5] = e /\ t[6] = f /\ t[7] = g /\ t[8] = h
  OBVIOUS
<1> HIDE DEF s, t
<1>3. \A i \in 1 .. 8 : s[i] = t[i]
  BY <1>1, <1>2
<1>4. s = t
  BY ONLY <1>1, <1>2, <1>3, SeqEqual
<1>5. QED  BY <1>4 DEF s, t

UpdateText  == <<"1", Blank, "UPDATE", Blank, "TABLE", Blank, "SET", Blank>>

WhereText   == <<Blank, "WHERE", Blank>>

UpdateStart == Append(Append(Append(Append(<<>>, <<"1">>), <<"UPDATE">>), <<"TABLE">>),
                      <<"SET">>)

\* The words W of an UPDATE with the first m assignments of A.
Updating(W, A, m) == /\ W \in Seq(Seq(Pieces)) /\ Len(W) >= 2 /\ W[2] = <<"UPDATE">>
                     /\ SetsAre(W, A, m)

LEMMA UpdatingGrows ==
  ASSUME NEW ws, NEW A, NEW m \in Nat, Updating(ws, A, m), NEW w \in Seq(Pieces)
  PROVE  /\ ~ contains(w, Equals) => Updating(Append(ws, w), A, m)
         /\ Sets(w, A[m + 1]) => Updating(Append(ws, w), A, m + 1)
<1>1. ws \in Seq(Seq(Pieces)) /\ Len(ws) >= 2 /\ ws[2] = <<"UPDATE">> /\ SetsAre(ws, A, m)
  BY DEF Updating
<1>2. /\ ~ contains(w, Equals) => SetsAre(Append(ws, w), A, m)
      /\ Sets(w, A[m + 1]) => SetsAre(Append(ws, w), A, m + 1)
  BY <1>1, OneWordMore
<1>3. PICK vs : vs = ws /\ vs \in Seq(Seq(Pieces)) /\ Len(vs) >= 2
  BY <1>1
<1>4. Append(vs, w) \in Seq(Seq(Pieces))
  BY ONLY <1>3, AppendProperties
<1>5. Len(Append(vs, w)) = Len(vs) + 1 /\ \A i \in 1 .. Len(vs) : Append(vs, w)[i] = vs[i]
  BY ONLY <1>3, AppendProperties
<1>6. PICK n \in Nat : n = Len(vs) /\ n >= 2
  BY <1>3
<1>7. n + 1 >= 2 /\ 2 \in 1 .. n
  BY <1>6
<1>8. Len(Append(vs, w)) >= 2 /\ Append(vs, w)[2] = vs[2]
  BY <1>5, <1>6, <1>7
<1>9. QED  BY <1>1, <1>2, <1>3, <1>4, <1>8 DEF Updating

\* A word of one piece assigns nothing.
LEMMA OnePieceSetsNothing ==
  ASSUME NEW x, x # Equals
  PROVE  ~ contains(<<x>>, Equals) /\ ~ contains(<<>>, Equals)
  BY DEF contains, Range

LEMMA UpdateStartRead ==
  ASSUME NEW A
  PROVE  /\ ReadsAs(Pieces, UpdateText, UpdateStart, <<>>)
         /\ Updating(UpdateStart, A, 0)
<1>1. ReadsAs(Pieces, <<>>, <<>>, <<>>)
  BY NothingRead
<1>2. "1" # Blank /\ "UPDATE" # Blank /\ "TABLE" # Blank /\ "SET" # Blank
  BY DEF Blank
<1>3. ReadsAs(Pieces, <<>> \o <<"1", Blank>>, Append(<<>>, <<"1">>), <<>>)
  BY <1>1, <1>2, PieceRead, PiecesAre
<1>4. ReadsAs(Pieces, (<<>> \o <<"1", Blank>>) \o <<"UPDATE", Blank>>,
              Append(Append(<<>>, <<"1">>), <<"UPDATE">>), <<>>)
  BY <1>2, <1>3, PieceRead, PiecesAre
<1>5. ReadsAs(Pieces, ((<<>> \o <<"1", Blank>>) \o <<"UPDATE", Blank>>) \o <<"TABLE", Blank>>,
              Append(Append(Append(<<>>, <<"1">>), <<"UPDATE">>), <<"TABLE">>), <<>>)
  BY <1>2, <1>4, PieceRead, PiecesAre
<1>6. ReadsAs(Pieces,
              (((<<>> \o <<"1", Blank>>) \o <<"UPDATE", Blank>>) \o <<"TABLE", Blank>>)
                \o <<"SET", Blank>>,
              UpdateStart, <<>>)
  BY <1>2, <1>5, PieceRead, PiecesAre DEF UpdateStart
<1>7. (((<<>> \o <<"1", Blank>>) \o <<"UPDATE", Blank>>) \o <<"TABLE", Blank>>)
         \o <<"SET", Blank>> = UpdateText
  <2>1. PICK a \in Pieces, b \in Pieces, c \in Pieces, d \in Pieces, e \in Pieces :
          a = "1" /\ b = Blank /\ c = "UPDATE" /\ d = "TABLE" /\ e = "SET"
    BY PiecesAre
  <2>2. <<>> \o <<a, b>> = <<a, b>>
    OBVIOUS
  <2>3. <<a, b>> \o <<c, b>> = <<a, b, c, b>>
    BY FourInARow
  <2>4. <<d, b>> \o <<e, b>> = <<d, b, e, b>>
    BY FourInARow
  <2>5. <<a, b, c, b>> \o <<d, b, e, b>> = <<a, b, c, b, d, b, e, b>>
    BY EightInARow
  <2>6. (<<a, b, c, b>> \o <<d, b>>) \o <<e, b>> = <<a, b, c, b>> \o (<<d, b>> \o <<e, b>>)
    <3>1. /\ <<a, b, c, b>> \in Seq(Pieces) /\ <<d, b>> \in Seq(Pieces)
          /\ <<e, b>> \in Seq(Pieces)
      BY ONLY <2>2
    <3>2. QED  BY ONLY <3>1, ConcatAssociative
  <2>7. QED  BY <2>1, <2>2, <2>3, <2>4, <2>5, <2>6 DEF UpdateText
<1>8. ReadsAs(Pieces, UpdateText, UpdateStart, <<>>)
  BY <1>6, <1>7
<1> DEFINE u == Append(Append(<<>>, <<"1">>), <<"UPDATE">>)
<1>9. u \in Seq(Seq(Pieces)) /\ Len(u) = 2 /\ u[2] = <<"UPDATE">>
  <2>1. PICK a, b : a = <<"1">> /\ b = <<"UPDATE">>
    OBVIOUS
  <2>2. Append(Append(<<>>, a), b) = <<a, b>>
    <3>1. a \in {a, b} /\ b \in {a, b}
      OBVIOUS
    <3>2. QED  BY ONLY <3>1, TwoInARow
  <2>3. Len(<<a, b>>) = 2 /\ <<a, b>>[2] = b
    OBVIOUS
  <2>4. u \in Seq(Seq(Pieces))
    BY <1>4 DEF ReadsAs
  <2>5. QED  BY <2>1, <2>2, <2>3, <2>4
<1>10. SetsAre(u, A, 0)
  <2>1. SetsAre(<<>>, A, 0)
    <3>1. SetPlaces(<<>>) = {}
      BY DEF SetPlaces
    <3>2. QED  BY <3>1, FS_EmptySet DEF SetsAre
  <2>2. "1" # Equals /\ "UPDATE" # Equals
    BY DEF Equals
  <2>3. /\ <<>> \in Seq(Seq(Pieces)) /\ Append(<<>>, <<"1">>) \in Seq(Seq(Pieces))
        /\ <<"1">> \in Seq(Pieces) /\ <<"UPDATE">> \in Seq(Pieces)
    <3>1. PICK x \in Pieces, y \in Pieces : x = "1" /\ y = "UPDATE"
      BY PiecesAre
    <3>2. <<x>> \in Seq(Pieces) /\ <<y>> \in Seq(Pieces)
      OBVIOUS
    <3>3. QED  BY <1>1, <1>3, <3>1, <3>2 DEF ReadsAs
  <2>4. ~ contains(<<"1">>, Equals) /\ ~ contains(<<"UPDATE">>, Equals)
    BY <2>2, OnePieceSetsNothing
  <2>5. 0 \in Nat
    OBVIOUS
  <2>6. SetsAre(Append(<<>>, <<"1">>), A, 0)
    BY <2>1, <2>3, <2>4, <2>5, OneWordMore
  <2>7. QED  BY <2>3, <2>4, <2>5, <2>6, OneWordMore
<1>11. Updating(u, A, 0)
  <2>1. Len(u) >= 2
    BY <1>9
  <2>2. QED  BY <1>9, <1>10, <2>1 DEF Updating
<1> HIDE DEF u
<1>12. <<"TABLE">> \in Seq(Pieces) /\ <<"SET">> \in Seq(Pieces)
  <2>1. PICK x \in Pieces, y \in Pieces : x = "TABLE" /\ y = "SET"
    BY PiecesAre
  <2>2. <<x>> \in Seq(Pieces) /\ <<y>> \in Seq(Pieces)
    OBVIOUS
  <2>3. QED  BY <2>1, <2>2
<1>13. ~ contains(<<"TABLE">>, Equals) /\ ~ contains(<<"SET">>, Equals)
  <2>1. "TABLE" # Equals /\ "SET" # Equals
    BY DEF Equals
  <2>2. QED  BY <2>1, OnePieceSetsNothing
<1>14. 0 \in Nat
  OBVIOUS
<1>15. Updating(Append(u, <<"TABLE">>), A, 0)
  BY ONLY <1>11, <1>12, <1>13, <1>14, UpdatingGrows
<1>16. Updating(Append(Append(u, <<"TABLE">>), <<"SET">>), A, 0)
  BY ONLY <1>12, <1>13, <1>14, <1>15, UpdatingGrows
<1>17. QED  BY <1>8, <1>16 DEF UpdateStart, u

\* An item that assigns a, alone or with a comma behind it.
Item(y, a) == /\ y \in Seq(Pieces) /\ y # <<>> /\ Blank \notin Range(y)
              /\ WithComma(y) \in Seq(Pieces) /\ Sets(y, a) /\ Sets(WithComma(y), a)

LEMMA OneItemMore ==
  ASSUME NEW A, NEW k \in Nat \ {0}, NEW cs, NEW w, Updating(cs, A, k - 1),
         Item(w, A[k]), NEW how, how # "tight"
  PROVE  Updating(NextWords(how, cs, w), A, k)
<1>1. /\ k - 1 \in Nat /\ Updating(cs, A, k - 1) /\ WithComma(w) \in Seq(Pieces)
      /\ Sets(WithComma(w), A[k]) /\ (k - 1) + 1 = k
  BY DEF Item
<1>2. Updating(Append(cs, WithComma(w)), A, k)
  BY <1>1, UpdatingGrows
<1>3. <<>> \in Seq(Pieces) /\ ~ contains(<<>>, Equals) /\ k \in Nat
  BY DEF contains, Range
<1>4. Updating(Append(Append(cs, WithComma(w)), <<>>), A, k)
  BY ONLY <1>2, <1>3, UpdatingGrows
<1>5. QED  BY <1>2, <1>4 DEF NextWords

LEMMA AssignmentsRead ==
  ASSUME NEW A, NEW m \in Nat \ {0}, NEW items \in Seq(Seq(Pieces)), Len(items) = m,
         \A j \in 1 .. m : Item(items[j], A[j]), NEW how, how # "tight" \/ m = 1
  PROVE  \E cs, w : /\ ReadsAs(Pieces, UpdateText \o Listed(items, how), cs, w)
                    /\ Updating(cs, A, m - 1) /\ w = items[m]
<1> DEFINE R == {x \in (1 .. m) \X Seq(Seq(Pieces)) \X Seq(Pieces) :
                   Updating(x[2], A, x[1] - 1) /\ x[3] = items[x[1]]}
<1>1. ReadsAs(Pieces, UpdateText, UpdateStart, <<>>) /\ Updating(UpdateStart, A, 0)
  BY UpdateStartRead
<1>2. \A j \in 1 .. m : items[j] \in Seq(Pieces) /\ Blank \notin Range(items[j])
  BY DEF Item
<1>3. <<1, UpdateStart, items[1]>> \in R
  <2>1. 1 \in 1 .. m /\ 1 - 1 = 0 /\ UpdateStart \in Seq(Seq(Pieces))
    BY <1>1 DEF ReadsAs
  <2>2. QED  BY <1>1, <1>2, <2>1
<1>4. ASSUME NEW k \in 1 .. m - 1, NEW cs \in Seq(Seq(Pieces)), NEW w \in Seq(Pieces),
             <<k, cs, w>> \in R
      PROVE  <<k + 1, NextWords(how, cs, w), NextLast(how, w, items[k + 1])>> \in R
  <2>1. k \in Nat \ {0} /\ k \in 1 .. m /\ k + 1 \in 1 .. m /\ (k + 1) - 1 = k /\ m # 1
    OBVIOUS
  <2>2. how # "tight"
    BY <2>1
  <2>3. Updating(cs, A, k - 1) /\ w = items[k]
    BY <1>4
  <2>4. Item(w, A[k])
    BY <2>1, <2>3
  <2>5. Updating(NextWords(how, cs, w), A, k)
    BY <2>1, <2>2, <2>3, <2>4, OneItemMore
  <2>6. NextLast(how, w, items[k + 1]) = items[k + 1]
    BY <2>2 DEF NextLast
  <2>7. NextWords(how, cs, w) \in Seq(Seq(Pieces))
    BY <2>5 DEF Updating
  <2>8. QED  BY <1>2, <2>1, <2>5, <2>6, <2>7
<1>5. \A k, cs, w : <<k, cs, w>> \in R => Updating(cs, A, k - 1) /\ w = items[k]
  OBVIOUS
<1> HIDE DEF R
<1>6. Blank \in Pieces /\ Comma \in Pieces
  BY PiecesAre
<1>7. \A j \in 1 .. m : Blank \notin Range(items[j])
  BY <1>2
<1>8. PICK cs, w : /\ ReadsAs(Pieces, UpdateText \o Listed(items, how), cs, w)
                   /\ <<m, cs, w>> \in R
  <2>1. ReadsAs(Pieces, UpdateText, UpdateStart, <<>>) /\ Len(items) = m
    BY <1>1
  <2>2. \E cs, w : /\ ReadsAs(Pieces, UpdateText \o Listed(items, how), cs, w)
                   /\ <<m, cs, w>> \in R
    BY ONLY <1>3, <1>4, <1>6, <1>7, <2>1, ItemsRead
  <2>3. QED  BY <2>2
<1>9. Updating(cs, A, m - 1) /\ w = items[m]
  BY <1>5, <1>8
<1>10. QED  BY <1>8, <1>9

\* The condition behind the assignments is one of them.
LEMMA ConditionRead ==
  ASSUME NEW t, NEW cs, NEW w, ReadsAs(Pieces, t, cs, w),
         NEW A, NEW m \in Nat, Updating(Append(cs, w), A, m),
         NEW z, Item(z, A[m + 1])
  PROVE  Updating(parse(Glued(Glued(t, WhereText), z)), A, m + 1)
<1>1. "WHERE" # Blank /\ "WHERE" # Equals
  BY DEF Blank, Equals
<1>2. <<"WHERE">> \in Seq(Pieces)
  <2>1. PICK x \in Pieces : x = "WHERE"
    BY PiecesAre
  <2>2. <<x>> \in Seq(Pieces)
    OBVIOUS
  <2>3. QED  BY <2>1, <2>2
<1>3. ReadsAs(Pieces, t \o WhereText, Append(Append(cs, w), <<"WHERE">>), <<>>)
  BY <1>1, WordBetween, PiecesAre DEF WhereText
<1>4. ~ contains(<<"WHERE">>, Equals)
  BY <1>1, OnePieceSetsNothing
<1>5. m \in Nat /\ Updating(Append(cs, w), A, m)
  OBVIOUS
<1> DEFINE ws == Append(Append(cs, w), <<"WHERE">>)
<1>6. Updating(ws, A, m)
  BY ONLY <1>2, <1>4, <1>5, UpdatingGrows
<1>7. z \in Seq(Pieces) /\ Blank \notin Range(z) /\ Sets(z, A[m + 1])
  BY DEF Item
<1>8. ReadsAs(Pieces, t \o WhereText, ws, <<>>) /\ Blank \in Pieces
  BY <1>3, PiecesAre
<1> HIDE DEF ws
<1>9. ReadsAs(Pieces, (t \o WhereText) \o z, ws, <<>> \o z)
  BY ONLY <1>7, <1>8, WordRead
<1>10. <<>> \o z = z
  BY ONLY <1>7, ConcatEmptySeq
<1>11. parse((t \o WhereText) \o z) = Append(ws, z)
  BY <1>9, <1>10 DEF ReadsAs
<1>12. Updating(Append(ws, z), A, m + 1)
  BY ONLY <1>5, <1>6, <1>7, UpdatingGrows
<1>13. QED  BY <1>11, <1>12 DEF Glued

\* What update() takes from the words.
LEMMA UpdateRead ==
  ASSUME NEW A, NEW n \in Nat, NEW text, Updating(parse(text), A, n),
         A = [j \in 1 .. n |-> A[j]]
  PROVE  QueryOf(text) = [type |-> "update", set |-> A]
<1> DEFINE W == parse(text)
<1>1. W[2] = <<"UPDATE">> /\ SetsAre(W, A, n)
  BY DEF Updating
<1>2. get_type(W) = "update"
  BY <1>1 DEF get_type
<1>3. SetWords(W) = [k \in 1 .. n |-> W[Nth(SetPlaces(W), k)]]
  BY <1>1 DEF SetWords, Kept, SetsAre, SetPlaces
<1>4. [j \in DOMAIN SetWords(W) |-> get_colname_value(SetWords(W)[j])] = [j \in 1 .. n |-> A[j]]
  <2>1. \A k \in 1 .. n : get_colname_value(W[Nth(SetPlaces(W), k)]) = A[k]
    BY <1>1 DEF SetsAre
  <2>2. DOMAIN SetWords(W) = 1 .. n
    BY <1>3
  <2>3. \A j \in 1 .. n : get_colname_value(SetWords(W)[j]) = A[j]
    BY <1>3, <2>1
  <2>4. QED  BY <2>2, <2>3
<1>5. QED  BY <1>2, <1>4 DEF QueryOf

-------------------------------------------------------------------------------
(* The cells of a line *)

\* What get_cells() makes of a line from its ith character on, when g has what
\* it makes of it from later ones on.
CellsAt(line, g, i) ==
  IF i > Len(line) THEN <<>>
  ELSE IF line[i] = Comma THEN <<<<>>>> \o g[i + 1]
  ELSE IF line[i] = Quote
  THEN LET close == NextOf(line, i + 1, {Quote})
       IN <<SubSeq(line, i + 1, close - 1)>>
            \o g[IF close < Len(line) /\ line[close + 1] # Comma
                 THEN close + 1 ELSE close + 2]
  ELSE LET comma == NextOf(line, i, {Comma})
       IN <<SubSeq(line, i, comma - 1)>> \o g[comma + 1]

CellsFrom(line) == CHOOSE g : g = [i \in 1 .. Len(line) + 3 |-> CellsAt(line, g, i)]

LEMMA CellsAre == ASSUME NEW line PROVE get_cells(line) = CellsFrom(line)[1]
  BY DEF get_cells, CellsFrom, CellsAt

Agree(g, h, from, to) == \A j \in from .. to : g[j] = h[j]

LEMMA CellsAgree ==
  ASSUME NEW line, NEW n \in Nat, Len(line) = n, NEW i \in 1 .. n + 3, NEW g, NEW h,
         Agree(g, h, i + 1, n + 3)
  PROVE  CellsAt(line, g, i) = CellsAt(line, h, i)
<1>1. CASE i > n
  BY <1>1 DEF CellsAt
<1>2. CASE i <= n
  <2> DEFINE close == NextOf(line, i + 1, {Quote})
             comma == NextOf(line, i, {Comma})
             next == IF close < Len(line) /\ line[close + 1] # Comma
                     THEN close + 1 ELSE close + 2
  <2>1. close \in i + 1 .. n + 1
    <3>1. i + 1 \in 1 .. n + 1
      BY <1>2
    <3>2. QED  BY <3>1, NextOfIs
  <2>2. comma \in i .. n + 1
    <3>1. i \in 1 .. n + 1
      BY <1>2
    <3>2. QED  BY <3>1, NextOfIs
  <2>3. CellsAt(line, g, i) =
          IF i > Len(line) THEN <<>>
          ELSE IF line[i] = Comma THEN <<<<>>>> \o g[i + 1]
          ELSE IF line[i] = Quote THEN <<SubSeq(line, i + 1, close - 1)>> \o g[next]
          ELSE <<SubSeq(line, i, comma - 1)>> \o g[comma + 1]
    BY DEF CellsAt
  <2>4. CellsAt(line, h, i) =
          IF i > Len(line) THEN <<>>
          ELSE IF line[i] = Comma THEN <<<<>>>> \o h[i + 1]
          ELSE IF line[i] = Quote THEN <<SubSeq(line, i + 1, close - 1)>> \o h[next]
          ELSE <<SubSeq(line, i, comma - 1)>> \o h[comma + 1]
    BY DEF CellsAt
  <2> HIDE DEF close, comma
  <2>5. next = close + 1 \/ next = close + 2
    OBVIOUS
  <2> HIDE DEF next
  <2>6. i + 1 \in i + 1 .. n + 3 /\ next \in i + 1 .. n + 3 /\ comma + 1 \in i + 1 .. n + 3
    BY <1>2, <2>1, <2>2, <2>5
  <2>7. g[i + 1] = h[i + 1] /\ g[next] = h[next] /\ g[comma + 1] = h[comma + 1]
    BY <2>6 DEF Agree
  <2>8. QED  BY <2>3, <2>4, <2>7
<1>3. QED  BY <1>1, <1>2

LEMMA CellsUnfold ==
  ASSUME NEW line, NEW n \in Nat, Len(line) = n
  PROVE  \A i \in 1 .. n + 3 : CellsFrom(line)[i] = CellsAt(line, CellsFrom(line), i)
<1> DEFINE Solves(g, m) == g = [i \in n + 3 - m .. n + 3 |-> CellsAt(line, g, i)]
           P == {m \in 0 .. n + 2 : \E g : Solves(g, m)}
<1>1. 0 \in P
  <2> DEFINE g == [i \in n + 3 - 0 .. n + 3 |-> <<>>]
  <2>1. \A i \in n + 3 - 0 .. n + 3 : i > n
    OBVIOUS
  <2>2. \A i \in n + 3 - 0 .. n + 3 : CellsAt(line, g, i) = <<>>
    BY <2>1 DEF CellsAt
  <2>3. Solves(g, 0)
    BY <2>2
  <2>4. 0 \in 0 .. n + 2
    OBVIOUS
  <2> HIDE DEF Solves
  <2>5. QED  BY <2>3, <2>4
<1>2. ASSUME NEW m \in 0 .. n + 1, m \in P PROVE m + 1 \in P
  <2>1. PICK g : Solves(g, m)
    BY <1>2
  <2>2. PICK a \in 1 .. n + 2 : a = n + 3 - (m + 1) /\ n + 3 - m = a + 1
    OBVIOUS
  <2> DEFINE h == [i \in a .. n + 3 |-> IF i >= a + 1 THEN g[i] ELSE CellsAt(line, g, i)]
  <2>3. \A j \in a + 1 .. n + 3 : h[j] = g[j]
    OBVIOUS
  <2>4. ASSUME NEW i \in a .. n + 3 PROVE h[i] = CellsAt(line, h, i)
    <3>1. CellsAt(line, g, i) = CellsAt(line, h, i)
      <4>1. i \in 1 .. n + 3 /\ Len(line) = n
        OBVIOUS
      <4>2. Agree(g, h, i + 1, n + 3)
        <5>1. \A j \in i + 1 .. n + 3 : j \in a + 1 .. n + 3
          OBVIOUS
        <5> HIDE DEF h
        <5>2. QED  BY <2>3, <5>1 DEF Agree
      <4> HIDE DEF h
      <4>3. QED  BY ONLY <4>1, <4>2, CellsAgree
    <3>2. CASE i >= a + 1
      <4>1. g[i] = CellsAt(line, g, i)
        <5>1. i \in n + 3 - m .. n + 3
          BY <2>2, <3>2
        <5>2. \A j \in n + 3 - m .. n + 3 : g[j] = CellsAt(line, g, j)
          BY <2>1
        <5>3. QED  BY <5>1, <5>2
      <4>2. h[i] = g[i]
        BY <3>2
      <4> HIDE DEF h
      <4>3. QED  BY <3>1, <4>1, <4>2
    <3>3. CASE ~ (i >= a + 1)
      <4>1. h[i] = CellsAt(line, g, i)
        BY <3>3
      <4> HIDE DEF h
      <4>2. QED  BY <3>1, <4>1
    <3>4. QED  BY <3>2, <3>3
  <2>5. h = [i \in a .. n + 3 |-> h[i]]
    OBVIOUS
  <2> HIDE DEF h
  <2>6. Solves(h, m + 1)
    BY <2>2, <2>4, <2>5
  <2>7. m + 1 \in 0 .. n + 2
    OBVIOUS
  <2> HIDE DEF Solves
  <2>8. QED  BY <2>6, <2>7
<1>3. \E g : Solves(g, n + 2)
  <2>1. n + 2 \in 0 .. n + 2 /\ n + 2 \in Nat /\ (n + 2) - 1 = n + 1
    OBVIOUS
  <2>2. \A m \in 0 .. n + 2 : m \in P
    <3>1. \A m \in 0 .. (n + 2) - 1 : m \in P => m + 1 \in P
      BY <1>2, <2>1
    <3> HIDE DEF P
    <3>2. QED  BY <1>1, <2>1, <3>1, UpTo
  <2>3. QED  BY <2>1, <2>2
<1> DEFINE U == CellsFrom(line)
<1>4. U = [i \in 1 .. n + 3 |-> CellsAt(line, U, i)]
  <2> DEFINE Solution(g) == g = [i \in 1 .. n + 3 |-> CellsAt(line, g, i)]
  <2>1. U = CHOOSE g : Solution(g)
    BY DEF CellsFrom
  <2>2. n + 3 - (n + 2) = 1
    OBVIOUS
  <2>3. \E g : Solution(g)
    BY <1>3, <2>2
  <2>4. Solution(U)
    <3> HIDE DEF U, Solution
    <3>1. QED  BY <2>1, <2>3
  <2>5. QED  BY <2>4
<1> HIDE DEF U
<1>5. \A i \in 1 .. n + 3 : U[i] = CellsAt(line, U, i)
  BY <1>4
<1>6. QED  BY <1>5 DEF U

-------------------------------------------------------------------------------
(* The quotes of a line *)

Quotes(line, i) == Cardinality({k \in 1 .. i - 1 : line[k] = Quote})

LEMMA QuotesAre ==
  ASSUME NEW line, NEW i \in Nat \ {0}
  PROVE  /\ Quotes(line, 1) = 0 /\ Quotes(line, i) \in Nat
         /\ line[i] = Quote => Quotes(line, i + 1) = Quotes(line, i) + 1
         /\ line[i] # Quote => Quotes(line, i + 1) = Quotes(line, i)
<1> DEFINE A == {k \in 1 .. i - 1 : line[k] = Quote}
           B == {k \in 1 .. (i + 1) - 1 : line[k] = Quote}
<1>1. Quotes(line, 1) = 0
  <2>1. {k \in 1 .. 1 - 1 : line[k] = Quote} = {}
    OBVIOUS
  <2>2. QED  BY <2>1, FS_EmptySet DEF Quotes
<1>2. IsFiniteSet(A) /\ Cardinality(A) \in Nat
  <2>1. IsFiniteSet(1 .. i - 1)
    BY FS_Interval
  <2>2. A \subseteq 1 .. i - 1
    OBVIOUS
  <2> HIDE DEF A
  <2>3. IsFiniteSet(A)
    BY <2>1, <2>2, FS_Subset
  <2>4. QED  BY <2>3, FS_CardinalityType
<1>3. i \notin A /\ \A k \in 1 .. (i + 1) - 1 : k = i \/ k \in 1 .. i - 1
  OBVIOUS
<1>4. ASSUME line[i] = Quote PROVE Cardinality(B) = Cardinality(A) + 1
  <2>1. B = A \cup {i}
    BY <1>4
  <2> HIDE DEF A, B
  <2>2. QED  BY <1>2, <1>3, <2>1, FS_AddElement
<1>5. ASSUME line[i] # Quote PROVE B = A
  BY <1>5
<1>6. QED  BY <1>1, <1>2, <1>4, <1>5 DEF Quotes

LEMMA NoQuotes ==
  ASSUME NEW line, NEW i \in Nat \ {0}, NEW j \in Nat, i <= j,
         \A k \in i .. j - 1 : line[k] # Quote
  PROVE  Quotes(line, j) = Quotes(line, i)
<1>1. {k \in 1 .. j - 1 : line[k] = Quote} = {k \in 1 .. i - 1 : line[k] = Quote}
  <2>1. \A k \in 1 .. j - 1 : k \in 1 .. i - 1 \/ k \in i .. j - 1
    OBVIOUS
  <2>2. \A k \in 1 .. i - 1 : k \in 1 .. j - 1
    OBVIOUS
  <2>3. QED  BY <2>1, <2>2
<1>2. QED  BY <1>1 DEF Quotes

LEMMA EndIs ==
  ASSUME NEW n \in Nat, NEW B \in SUBSET (1 .. n), NEW k \in 1 .. Cardinality(B) + 1,
         NEW e \in End(B, n, k - 1) + 1 .. n + 1, e \in B \/ e = n + 1,
         \A j \in End(B, n, k - 1) + 1 .. e - 1 : j \notin B
  PROVE  End(B, n, k) = e
<1>1. PICK m \in Nat : m = Cardinality(B)
  BY EndsAre
<1>2. k \in 1 .. m + 1 /\ k \in 0 .. m + 1 /\ k - 1 \in 0 .. m + 1 /\ k - 1 < k
  BY <1>1
<1>3. PICK a \in 0 .. n + 1, b \in 0 .. n + 1 : a = End(B, n, k - 1) /\ b = End(B, n, k) /\ a < b
  BY <1>1, <1>2, EndsAre
<1>4. b \in B \/ b = n + 1
  <2>1. k \in 1 .. m \/ k = m + 1
    BY <1>2
  <2>2. QED  BY <1>1, <1>3, <2>1, EndsAre
<1>5. b <= e
  <2>1. CASE e \in B
    <3>1. End(B, n, k - 1) < e
      BY <1>3
    <3>2. QED  BY <1>3, <2>1, <3>1, NoneWithin
  <2>2. CASE e = n + 1
    BY <2>2
  <2>3. QED  BY <2>1, <2>2
<1>6. ~ (b < e)
  <2>1. ASSUME b < e PROVE FALSE
    <3>1. b \in a + 1 .. e - 1 /\ b # n + 1
      BY <1>3, <2>1
    <3>2. b \notin B
      BY <1>3, <3>1
    <3>3. QED  BY <1>4, <3>1, <3>2
  <2>2. QED  BY <2>1
<1>7. b = e
  BY <1>3, <1>5, <1>6
<1>8. QED  BY <1>3, <1>7

LEMMA SeparatorsAre ==
  ASSUME NEW S, NEW line \in Seq(S), NEW n \in Nat, Len(line) = n
  PROVE  /\ Separators(line) \in SUBSET (1 .. n)
         /\ \A i \in 1 .. n : i \in Separators(line) <=>
                                line[i] = Comma /\ Quotes(line, i) % 2 = 0
<1>1. DOMAIN line = 1 .. n
  OBVIOUS
<1>2. QED  BY <1>1 DEF Separators, Quotes

LEMMA WellQuotedIs ==
  ASSUME NEW S, NEW line \in Seq(S), NEW n \in Nat, Len(line) = n, WellQuoted(line)
  PROVE  /\ Quotes(line, n + 1) % 2 = 0
         /\ \A i \in 1 .. n : line[i] = Quote /\ Quotes(line, i) % 2 = 0 =>
                                 i = 1 \/ line[i - 1] = Comma
         /\ \A i \in 1 .. n : line[i] = Quote /\ Quotes(line, i) % 2 # 0 =>
                                 i = n \/ line[i + 1] = Comma
<1>1. DOMAIN line = 1 .. n
  OBVIOUS
<1>2. QED  BY <1>1 DEF WellQuoted, Quotes

InFront(x, s) == <<x>> \o s

\* A cell that is not quoted ends at the next comma.
LEMMA PlainCellRead ==
  ASSUME NEW S, NEW line \in Seq(S), NEW n \in Nat, Len(line) = n, WellQuoted(line),
         NEW i \in 1 .. n, Quotes(line, i) % 2 = 0, line[i] # Quote, line[i] # Comma
  PROVE  LET e == NextOf(line, i, {Comma})
         IN /\ e \in i + 1 .. n + 1 /\ (e \in Separators(line) \/ e = n + 1)
            /\ \A j \in i .. e - 1 : j \notin Separators(line)
<1> DEFINE e == NextOf(line, i, {Comma, Quote})
<1>0. Comma # Quote
  BY DEF Comma, Quote
<1>1. i \in 1 .. n + 1 /\ i \in Nat \ {0}
  OBVIOUS
<1>2. /\ e \in i .. n + 1
      /\ e <= n => line[e] \in {Comma, Quote}
      /\ \A k \in i .. n : k < e => line[k] \notin {Comma, Quote}
  BY <1>1, NextOfIs
<1> HIDE DEF e
<1>3. e # i
  BY <1>2
<1>4. \A k \in i .. e - 1 : k \in i .. n /\ k < e /\ k \in 1 .. n
  BY <1>2
<1>5. \A k \in i .. e - 1 : line[k] # Quote /\ line[k] # Comma
  BY <1>2, <1>4
<1>6. Quotes(line, e) = Quotes(line, i)
  <2>1. e \in Nat /\ i <= e
    BY <1>1, <1>2
  <2>2. QED  BY <1>1, <1>5, <2>1, NoQuotes
<1>7. ~ (e <= n /\ line[e] = Quote)
  <2>1. ASSUME e <= n, line[e] = Quote PROVE FALSE
    <3>1. e \in 1 .. n /\ e # 1 /\ e - 1 \in i .. e - 1
      BY <1>2, <1>3, <2>1
    <3>2. line[e - 1] = Comma
      BY <1>6, <2>1, <3>1, WellQuotedIs
    <3>3. QED  BY <1>5, <3>1, <3>2
  <2>2. QED  BY <2>1
<1>8. NextOf(line, i, {Comma}) = e
  <2>1. Len(line) = n /\ n \in Nat /\ i \in 1 .. n + 1 /\ e \in i .. n + 1
    BY <1>1, <1>2
  <2>2. e <= n => line[e] \in {Comma}
    BY <1>2, <1>7
  <2>3. \A k \in i .. n : k < e => line[k] \notin {Comma}
    BY <1>2
  <2>4. QED  BY ONLY <2>1, <2>2, <2>3, NextOfUnique
<1>9. e <= n => e \in Separators(line)
  <2>1. e <= n => e \in 1 .. n
    BY <1>2
  <2>2. QED  BY <1>2, <1>6, <1>7, <2>1, SeparatorsAre
<1>10. \A j \in i .. e - 1 : j \notin Separators(line)
  BY <1>4, <1>5, SeparatorsAre
<1>11. e \in i + 1 .. n + 1 /\ (e <= n \/ e = n + 1)
  BY <1>2, <1>3
<1>12. QED  BY <1>8, <1>9, <1>10, <1>11

\* The cell from i to c is quoted.
QuotedCell(line, n, i, c) ==
  /\ c \in i + 1 .. n /\ (c < n => line[c + 1] = Comma)
  /\ c + 1 \in Separators(line) \/ c + 1 = n + 1
  /\ \A j \in i .. c : j \notin Separators(line)

\* A quoted cell ends with the next quote.
LEMMA QuotedCellRead ==
  ASSUME NEW S, NEW line \in Seq(S), NEW n \in Nat, Len(line) = n, WellQuoted(line),
         NEW i \in 1 .. n, Quotes(line, i) % 2 = 0, line[i] = Quote
  PROVE  QuotedCell(line, n, i, NextOf(line, i + 1, {Quote}))
<1> DEFINE c == NextOf(line, i + 1, {Quote})
<1>0. Comma # Quote
  BY DEF Comma, Quote
<1>1. i + 1 \in 1 .. n + 1 /\ i \in Nat \ {0} /\ i + 1 \in Nat \ {0}
  OBVIOUS
<1>2. /\ c \in i + 1 .. n + 1
      /\ c <= n => line[c] \in {Quote}
      /\ \A k \in i + 1 .. n : k < c => line[k] \notin {Quote}
  BY <1>1, NextOfIs
<1> HIDE DEF c
<1>3. c <= n => line[c] = Quote
  BY <1>2
<1>4. PICK q \in Nat : q = Quotes(line, i) /\ q % 2 = 0
  BY <1>1, QuotesAre
<1>5. Quotes(line, i + 1) = q + 1
  BY <1>1, <1>4, QuotesAre
<1>6. \A j \in i + 1 .. c : Quotes(line, j) = q + 1
  <2>1. ASSUME NEW j \in i + 1 .. c PROVE Quotes(line, j) = q + 1
    <3>1. j \in Nat /\ i + 1 <= j
      BY <1>1
    <3>2. \A k \in i + 1 .. j - 1 : line[k] # Quote
      <4>1. \A k \in i + 1 .. j - 1 : k \in i + 1 .. n /\ k < c
        BY <1>2
      <4>2. QED  BY <1>2, <4>1
    <3>3. Quotes(line, j) = Quotes(line, i + 1)
      BY <1>1, <3>1, <3>2, NoQuotes
    <3>4. QED  BY <1>5, <3>3
  <2>2. QED  BY <2>1
<1>7. (q + 1) % 2 # 0 /\ ((q + 1) + 1) % 2 = 0
  BY <1>4
<1>8. c # n + 1
  <2>1. ASSUME c = n + 1 PROVE FALSE
    <3>1. n + 1 \in i + 1 .. c
      BY <1>2, <2>1
    <3>2. Quotes(line, n + 1) = q + 1
      BY <1>6, <3>1
    <3>3. Quotes(line, n + 1) % 2 = 0
      BY WellQuotedIs
    <3>4. QED  BY <1>7, <3>2, <3>3
  <2>2. QED  BY <2>1
<1>9. c \in i + 1 .. n /\ c \in 1 .. n /\ c \in i + 1 .. c /\ c \in Nat \ {0}
  BY <1>2, <1>8
<1>10. line[c] = Quote /\ Quotes(line, c) = q + 1
  BY <1>3, <1>6, <1>9
<1>11. c = n \/ line[c + 1] = Comma
  BY <1>7, <1>9, <1>10, WellQuotedIs
<1>12. Quotes(line, c + 1) = (q + 1) + 1
  BY <1>9, <1>10, QuotesAre
<1>13. c + 1 \in Separators(line) \/ c + 1 = n + 1
  <2>1. CASE c = n
    BY <2>1
  <2>2. CASE c # n
    <3>1. c + 1 \in 1 .. n
      BY <1>9, <2>2
    <3>2. line[c + 1] = Comma /\ Quotes(line, c + 1) % 2 = 0
      BY <1>7, <1>11, <1>12, <2>2
    <3>3. QED  BY <3>1, <3>2, SeparatorsAre
  <2>3. QED  BY <2>1, <2>2
<1>14. ASSUME NEW j \in i .. c PROVE j \notin Separators(line)
  <2>1. j \in 1 .. n
    BY <1>9
  <2>2. CASE j = i
    BY <1>0, <2>1, <2>2, SeparatorsAre
  <2>3. CASE j # i
    <3>1. j \in i + 1 .. c
      BY <1>9, <2>3
    <3>2. Quotes(line, j) % 2 # 0
      BY <1>6, <1>7, <3>1
    <3>3. QED  BY <2>1, <3>2, SeparatorsAre
  <2>4. QED  BY <2>2, <2>3
<1>15. c < n => line[c + 1] = Comma
  BY <1>11
<1>16. QED  BY <1>9, <1>13, <1>14, <1>15 DEF c, QuotedCell

\* What is left of the part from a to b without its first and its last element.
Inner(s, a, b) ==
  /\ Len(Cut(s, a, b)) = b - a + 1 /\ Cut(s, a, b) # <<>> /\ Cut(s, a, b)[1] = s[a]
  /\ Cut(Cut(s, a, b), 2, (b - a + 1) - 1) = Cut(s, a + 1, b - 1)

LEMMA PartOfPart ==
  ASSUME NEW S, NEW s \in Seq(S), NEW n \in Nat, Len(s) = n,
         NEW a \in 1 .. n, NEW b \in a + 1 .. n
  PROVE  Inner(s, a, b)
<1>1. \A i \in 1 .. n : s[i] \in S
  BY ElementOfSeq
<1>2. \A i \in a .. b : i \in 1 .. n
  OBVIOUS
<1> DEFINE t == SubSeq(s, a, b)
<1>3. /\ t \in Seq(S) /\ Len(t) = IF a <= b THEN b - a + 1 ELSE 0
      /\ \A i \in 1 .. b - a + 1 : t[i] = s[a + i - 1]
  <2>1. \A i \in a .. b : s[i] \in S
    BY <1>1, <1>2
  <2>2. QED  BY <2>1, SubSeqProperties
<1> HIDE DEF t
<1>4. Len(t) = b - a + 1 /\ t # <<>>
  <2>1. Len(t) = b - a + 1 /\ b - a + 1 # 0
    BY <1>3
  <2>2. QED  BY <2>1
<1>5. t[1] = s[a]
  <2>1. 1 \in 1 .. b - a + 1 /\ a + 1 - 1 = a
    OBVIOUS
  <2>2. QED  BY <1>3, <2>1
<1>6. PICK e \in Nat : e = (b - a + 1) - 1
  OBVIOUS
<1> DEFINE u == SubSeq(t, 2, e)
           v == SubSeq(s, a + 1, b - 1)
<1>7. /\ u \in Seq(S) /\ Len(u) = IF 2 <= e THEN e - 2 + 1 ELSE 0
      /\ \A i \in 1 .. e - 2 + 1 : u[i] = t[2 + i - 1]
  <2>1. \A i \in 2 .. e : t[i] \in S
    <3>1. \A i \in 2 .. e : i \in 1 .. b - a + 1 /\ a + i - 1 \in 1 .. n
      BY <1>6
    <3>2. QED  BY <1>1, <1>3, <3>1
  <2>2. QED  BY <1>6, <2>1, SubSeqProperties
<1>8. /\ v \in Seq(S) /\ Len(v) = IF a + 1 <= b - 1 THEN (b - 1) - (a + 1) + 1 ELSE 0
      /\ \A i \in 1 .. (b - 1) - (a + 1) + 1 : v[i] = s[(a + 1) + i - 1]
  <2>1. \A i \in a + 1 .. b - 1 : s[i] \in S
    <3>1. \A i \in a + 1 .. b - 1 : i \in 1 .. n
      OBVIOUS
    <3>2. QED  BY <1>1, <3>1
  <2>2. a + 1 \in Int /\ b - 1 \in Int
    OBVIOUS
  <2>3. QED  BY <2>1, <2>2, SubSeqProperties
<1> HIDE DEF u, v
<1>9. Len(u) = e - 1 /\ Len(v) = e - 1
  BY <1>6, <1>7, <1>8
<1>10. ASSUME NEW i \in 1 .. e - 1 PROVE u[i] = v[i]
  <2>1. /\ i \in 1 .. e - 2 + 1 /\ i \in 1 .. (b - 1) - (a + 1) + 1
        /\ 2 + i - 1 \in 1 .. b - a + 1
        /\ a + (2 + i - 1) - 1 = (a + 1) + i - 1
    BY <1>6
  <2>2. u[i] = t[2 + i - 1] /\ v[i] = s[(a + 1) + i - 1]
    BY <1>7, <1>8, <2>1
  <2>3. t[2 + i - 1] = s[a + (2 + i - 1) - 1]
    BY <1>3, <2>1
  <2>4. QED  BY <2>1, <2>2, <2>3
<1>11. u = v
  <2>1. u \in Seq(S) /\ v \in Seq(S) /\ Len(u) = Len(v) /\ \A i \in 1 .. Len(u) : u[i] = v[i]
    BY <1>7, <1>8, <1>9, <1>10
  <2>2. QED  BY ONLY <2>1, SeqEqual
<1>12. QED  BY <1>4, <1>5, <1>6, <1>11 DEF Inner, Cut, t, u, v

\* The cell from i on ends before e.
ReadsCell(line, n, i, e) ==
  /\ e \in Separators(line) \/ e = n + 1
  /\ \A j \in i .. e - 1 : j \notin Separators(line)
  /\ CellsFrom(line)[i] = InFront(Unquoted(SubSeq(line, i, e - 1)), CellsFrom(line)[e + 1])

LEMMA CellRead ==
  ASSUME NEW S, NEW line \in Seq(S), NEW n \in Nat, Len(line) = n, WellQuoted(line),
         NEW i \in 1 .. n, Quotes(line, i) % 2 = 0
  PROVE  \E e \in i .. n + 1 : ReadsCell(line, n, i, e)
<1> DEFINE U == CellsFrom(line)
<1>1. U[i] = CellsAt(line, U, i)
  <2>1. i \in 1 .. n + 3
    OBVIOUS
  <2>2. QED  BY <2>1, CellsUnfold
<1>2. ~ (i > Len(line))
  OBVIOUS
<1>0. Comma # Quote
  BY DEF Comma, Quote
<1> HIDE DEF U
<1>3. CASE line[i] = Comma
  <2>1. U[i] = <<<<>>>> \o U[i + 1]
    BY <1>1, <1>2, <1>3 DEF CellsAt
  <2>2. SubSeq(line, i, i - 1) = <<>>
    OBVIOUS
  <2>3. Unquoted(<<>>) = <<>>
    BY DEF Unquoted
  <2>4. i \in i .. n + 1 /\ i \in Separators(line)
    BY <1>3, SeparatorsAre
  <2>5. \A j \in i .. i - 1 : j \notin Separators(line)
    OBVIOUS
  <2>6. U[i] = InFront(Unquoted(SubSeq(line, i, i - 1)), U[i + 1])
    BY <2>1, <2>2, <2>3 DEF InFront
  <2>7. ReadsCell(line, n, i, i)
    BY <2>4, <2>5, <2>6 DEF ReadsCell, U
  <2>8. QED  BY <2>4, <2>7
<1>4. CASE line[i] = Quote
  <2> DEFINE c == NextOf(line, i + 1, {Quote})
  <2>1. /\ c \in i + 1 .. n /\ (c < n => line[c + 1] = Comma)
        /\ c + 1 \in Separators(line) \/ c + 1 = n + 1
        /\ \A j \in i .. c : j \notin Separators(line)
    <3>1. /\ line \in Seq(S) /\ Len(line) = n /\ WellQuoted(line) /\ n \in Nat /\ i \in 1 .. n
          /\ Quotes(line, i) % 2 = 0 /\ line[i] = Quote
      BY <1>4
    <3>2. QuotedCell(line, n, i, c)
      BY ONLY <3>1, QuotedCellRead
    <3>3. QED  BY <3>2 DEF QuotedCell
  <2>2. U[i] = <<SubSeq(line, i + 1, c - 1)>>
                 \o U[IF c < Len(line) /\ line[c + 1] # Comma THEN c + 1 ELSE c + 2]
    BY <1>0, <1>1, <1>2, <1>4 DEF CellsAt
  <2> HIDE DEF c
  <2>3. (IF c < Len(line) /\ line[c + 1] # Comma THEN c + 1 ELSE c + 2) = (c + 1) + 1
    BY <2>1
  <2>4. (c + 1) - 1 = c /\ c + 1 \in i .. n + 1
    BY <2>1
  <2>5. Unquoted(Cut(line, i, c)) = Cut(line, i + 1, c - 1)
    <3>1. /\ Len(Cut(line, i, c)) = c - i + 1 /\ Cut(line, i, c) # <<>>
          /\ Cut(line, i, c)[1] = line[i]
          /\ Cut(Cut(line, i, c), 2, (c - i + 1) - 1) = Cut(line, i + 1, c - 1)
      <4>1. PICK d \in i + 1 .. n : d = c
        BY <2>1
      <4>2. Len(line) = n
        OBVIOUS
      <4>3. Inner(line, i, d)
        BY ONLY <4>2, PartOfPart
      <4>4. QED  BY ONLY <4>1, <4>3 DEF Inner
    <3>2. PICK cell : cell = Cut(line, i, c)
      OBVIOUS
    <3>3. Unquoted(cell) = Cut(cell, 2, Len(cell) - 1)
      BY <1>4, <3>1, <3>2 DEF Unquoted, Cut
    <3>4. QED  BY <3>1, <3>2, <3>3
  <2>6. U[i] = InFront(Unquoted(SubSeq(line, i, (c + 1) - 1)), U[(c + 1) + 1])
    BY <2>2, <2>3, <2>4, <2>5 DEF InFront, Cut
  <2>7. ReadsCell(line, n, i, c + 1)
    BY <2>1, <2>4, <2>6 DEF ReadsCell, U
  <2>8. QED  BY <2>4, <2>7
<1>5. CASE line[i] # Comma /\ line[i] # Quote
  <2> DEFINE e == NextOf(line, i, {Comma})
  <2>1. /\ e \in i + 1 .. n + 1 /\ (e \in Separators(line) \/ e = n + 1)
        /\ \A j \in i .. e - 1 : j \notin Separators(line)
    BY <1>5, PlainCellRead
  <2>2. U[i] = <<SubSeq(line, i, e - 1)>> \o U[e + 1]
    BY <1>1, <1>2, <1>5 DEF CellsAt
  <2> HIDE DEF e
  <2>3. Unquoted(SubSeq(line, i, e - 1)) = SubSeq(line, i, e - 1)
    <3> DEFINE cell == SubSeq(line, i, e - 1)
    <3>1. cell[1] = line[i]
      <4>1. PICK b \in i .. n : b = e - 1
        BY <2>1
      <4>2. SubSeq(line, i, b)[1] = line[i]
        BY ONLY TRUE
      <4>3. QED  BY <4>1, <4>2
    <3> HIDE DEF cell
    <3>2. Unquoted(cell) = cell
      BY <1>5, <3>1 DEF Unquoted
    <3>3. QED  BY <3>2 DEF cell
  <2>4. e \in i .. n + 1
    BY <2>1
  <2>5. ReadsCell(line, n, i, e)
    BY <2>1, <2>2, <2>3, <2>4 DEF ReadsCell, InFront, U
  <2>6. QED  BY <2>4, <2>5
<1>6. QED  BY <1>3, <1>4, <1>5

LEMMA HeadOfPart ==
  ASSUME NEW T, NEW f \in Seq(T), NEW n \in Nat, Len(f) = n, NEW m \in 0 .. n, NEW k \in 1 .. m
  PROVE  Cut(f, k, m) = InFront(f[k], Cut(f, k + 1, m))
<1>1. \A i \in 1 .. n : f[i] \in T
  BY ElementOfSeq
<1>2. \A i \in k .. m : i \in 1 .. n
  OBVIOUS
<1> DEFINE s == SubSeq(f, k, m)
           t == SubSeq(f, k + 1, m)
<1>3. /\ s \in Seq(T) /\ Len(s) = IF k <= m THEN m - k + 1 ELSE 0
      /\ \A i \in 1 .. m - k + 1 : s[i] = f[k + i - 1]
  <2>1. \A i \in k .. m : f[i] \in T
    BY <1>1, <1>2
  <2>2. QED  BY <2>1, SubSeqProperties
<1>4. /\ t \in Seq(T) /\ Len(t) = IF k + 1 <= m THEN m - (k + 1) + 1 ELSE 0
      /\ \A i \in 1 .. m - (k + 1) + 1 : t[i] = f[k + 1 + i - 1]
  <2>1. \A i \in k + 1 .. m : f[i] \in T
    <3>1. \A i \in k + 1 .. m : i \in k .. m
      OBVIOUS
    <3>2. QED  BY <1>1, <1>2, <3>1
  <2>2. k + 1 \in Int
    OBVIOUS
  <2>3. QED  BY <2>1, <2>2, SubSeqProperties
<1> HIDE DEF s, t
<1>5. PICK l \in Nat : l = m - k
  OBVIOUS
<1>6. Len(s) = l + 1 /\ Len(t) = l
  BY <1>3, <1>4, <1>5
<1>7. PICK x \in T : x = f[k]
  BY <1>1, <1>2
<1>8. <<x>> \in Seq(T) /\ Len(<<x>>) = 1 /\ <<x>>[1] = x
  OBVIOUS
<1> DEFINE u == <<x>> \o t
<1>9. /\ u \in Seq(T) /\ Len(u) = l + 1 /\ u[1] = x
      /\ \A i \in 1 .. l : u[i + 1] = t[i]
  <2>1. t \in Seq(T) /\ Len(t) = l
    BY <1>4, <1>6
  <2>2. u \in Seq(T) /\ Len(u) = l + 1
    BY ONLY <2>1
  <2>3. u[1] = x
    BY ONLY <2>1
  <2>4. \A i \in 1 .. l : u[i + 1] = t[i]
    BY ONLY <2>1
  <2>5. QED  BY <2>2, <2>3, <2>4
<1> HIDE DEF u
<1>10. ASSUME NEW i \in 1 .. l + 1 PROVE s[i] = u[i]
  <2>1. s[i] = f[k + i - 1]
    BY <1>3, <1>5
  <2>2. CASE i = 1
    <3>1. k + 1 - 1 = k
      OBVIOUS
    <3>2. QED  BY <1>7, <1>9, <2>1, <2>2, <3>1
  <2>3. CASE i # 1
    <3>1. i - 1 \in 1 .. l /\ (i - 1) + 1 = i /\ i - 1 \in 1 .. m - (k + 1) + 1
          /\ k + 1 + (i - 1) - 1 = k + i - 1
      BY <1>5, <2>3
    <3>2. u[i] = t[i - 1]
      BY <1>9, <3>1
    <3>3. QED  BY <1>4, <2>1, <3>1, <3>2
  <2>4. QED  BY <2>2, <2>3
<1>11. s = u
  <2>1. s \in Seq(T) /\ u \in Seq(T) /\ Len(s) = Len(u) /\ \A i \in 1 .. Len(s) : s[i] = u[i]
    BY <1>3, <1>6, <1>9, <1>10
  <2>2. QED  BY ONLY <2>1, SeqEqual
<1>12. QED  BY <1>7, <1>11 DEF s, t, u, Cut, InFront

LEMMA UnquotedTyped ==
  ASSUME NEW S, NEW cell \in Seq(S) PROVE Unquoted(cell) \in Seq(S)
<1>1. PICK n \in Nat : n = Len(cell)
  OBVIOUS
<1>2. \A i \in 1 .. n : cell[i] \in S
  BY <1>1, ElementOfSeq
<1>3. SubSeq(cell, 2, n - 1) \in Seq(S)
  <2>1. \A i \in 2 .. n - 1 : i \in 1 .. n
    OBVIOUS
  <2>2. \A i \in 2 .. n - 1 : cell[i] \in S
    BY <1>2, <2>1
  <2>3. n - 1 \in Int
    OBVIOUS
  <2>4. QED  BY <2>2, <2>3, SubSeqProperties
<1>4. QED  BY <1>1, <1>3 DEF Unquoted

LEMMA FieldsAre ==
  ASSUME NEW S, NEW line \in Seq(S), NEW n \in Nat, Len(line) = n,
         NEW B, B = Separators(line), NEW m \in Nat, m = Cardinality(B)
  PROVE  /\ Fields(line) \in Seq(Seq(S)) /\ Len(Fields(line)) = m + 1
         /\ \A k \in 1 .. m + 1 :
               Fields(line)[k] = Unquoted(SubSeq(line, End(B, n, k - 1) + 1, End(B, n, k) - 1))
<1>1. B \in SUBSET (1 .. n)
  BY SeparatorsAre
<1> DEFINE part(k) == SubSeq(line, End(B, n, k - 1) + 1, End(B, n, k) - 1)
<1>2. Split(line, B) = [k \in 1 .. m + 1 |-> part(k)]
  BY <1>1, SplitIs
<1>3. \A k \in 1 .. m + 1 : part(k) \in Seq(S)
  <2>1. ASSUME NEW k \in 1 .. m + 1 PROVE part(k) \in Seq(S)
    <3>1. k \in 0 .. m + 1 /\ k - 1 \in 0 .. m + 1
      OBVIOUS
    <3>2. PICK a \in 0 .. n + 1, b \in 0 .. n + 1 : a = End(B, n, k - 1) /\ b = End(B, n, k)
      BY <1>1, <3>1, EndsAre
    <3>3. \A i \in a + 1 .. b - 1 : i \in 1 .. n
      OBVIOUS
    <3>4. \A i \in a + 1 .. b - 1 : line[i] \in S
      BY <3>3, ElementOfSeq
    <3>5. a + 1 \in Int /\ b - 1 \in Int
      OBVIOUS
    <3>6. SubSeq(line, a + 1, b - 1) \in Seq(S)
      BY <3>4, <3>5, SubSeqProperties
    <3>7. QED  BY <3>2, <3>6
  <2>2. QED  BY <2>1
<1>4. Fields(line) = [k \in 1 .. m + 1 |-> Unquoted(part(k))]
  <2>1. Fields(line) = [k \in DOMAIN Split(line, B) |-> Unquoted(Split(line, B)[k])]
    BY DEF Fields
  <2> HIDE DEF part
  <2>2. DOMAIN Split(line, B) = 1 .. m + 1 /\ \A k \in 1 .. m + 1 : Split(line, B)[k] = part(k)
    BY <1>2
  <2>3. QED  BY <2>1, <2>2
<1> HIDE DEF part
<1>5. \A k \in 1 .. m + 1 : Unquoted(part(k)) \in Seq(S)
  BY <1>3, UnquotedTyped
<1> DEFINE f == Fields(line)
<1>6. f \in [1 .. m + 1 -> Seq(S)]
  BY <1>4, <1>5
<1>7. \A k \in 1 .. m + 1 : f[k] = Unquoted(part(k))
  BY <1>4
<1> HIDE DEF f
<1>8. f \in Seq(Seq(S)) /\ Len(f) = m + 1
  <2>1. m + 1 \in Nat
    OBVIOUS
  <2>2. f \in Seq(Seq(S)) /\ DOMAIN f = 1 .. m + 1
    <3>1. f \in [1 .. m + 1 -> Seq(S)]
      BY <1>6
    <3>2. DOMAIN f = 1 .. m + 1
      BY <3>1
    <3>3. f \in Seq(Seq(S))
      BY ONLY <2>1, <3>1, SeqDef
    <3>4. QED  BY <3>2, <3>3
  <2>3. DOMAIN f = 1 .. Len(f) /\ Len(f) \in Nat
    BY ONLY <2>2, LenProperties
  <2>4. QED  BY <2>1, <2>2, <2>3
<1>9. QED  BY <1>7, <1>8 DEF f, part

\* A last cell is empty when the line ends with a separator.
LEMMA LastSeparator ==
  ASSUME NEW S, NEW line \in Seq(S), NEW n \in Nat, Len(line) = n, WellQuoted(line)
  PROVE  EmptyLastCell(line) <=> (n # 0 /\ n \in Separators(line))
<1>1. line = <<>> <=> n = 0
  OBVIOUS
<1>2. ASSUME EmptyLastCell(line) PROVE n # 0 /\ n \in Separators(line)
  <2>1. n # 0 /\ n \in 1 .. n /\ line[n] = Comma /\ n \in Nat \ {0}
    <3>1. n # 0 /\ line[n] = Comma
      BY <1>1, <1>2 DEF EmptyLastCell, Last
    <3>2. QED  BY <3>1
  <2>2. line[n] # Quote
    BY <2>1 DEF Comma, Quote
  <2>3. Quotes(line, n + 1) % 2 = 0
    BY WellQuotedIs
  <2>4. Quotes(line, n) % 2 = 0
    BY <2>1, <2>2, <2>3, QuotesAre
  <2>5. QED  BY <2>1, <2>4, SeparatorsAre
<1>3. ASSUME n # 0, n \in Separators(line) PROVE EmptyLastCell(line)
  <2>1. n \in 1 .. n
    BY <1>3
  <2>2. line[n] = Comma
    BY <1>3, <2>1, SeparatorsAre
  <2>3. QED  BY <1>1, <1>3, <2>2 DEF EmptyLastCell, Last
<1>4. QED  BY <1>2, <1>3

LEMMA LastEnd ==
  ASSUME NEW n \in Nat, NEW B \in SUBSET (1 .. n), n = 0 \/ n \in B,
         NEW m \in Nat, m = Cardinality(B)
  PROVE  End(B, n, m) = n
<1>1. /\ \A k \in 1 .. m : End(B, n, k) \in B
      /\ \A k, l \in 0 .. m + 1 : k < l => End(B, n, k) < End(B, n, l)
      /\ End(B, n, 0) = 0
  BY EndsAre
<1>2. CASE n = 0
  <2>1. B = {}
    BY <1>2
  <2>2. m = 0
    BY <2>1, FS_EmptySet
  <2>3. QED  BY <1>1, <1>2, <2>2
<1>3. CASE n \in B
  <2>1. PICK l \in 1 .. m : End(B, n, l) = n
    BY <1>3, EndsAre
  <2>2. l \in 0 .. m + 1 /\ m \in 0 .. m + 1 /\ m \in 1 .. m /\ (l = m \/ l < m)
    OBVIOUS
  <2>3. End(B, n, m) \in 1 .. n
    BY <1>1, <2>2
  <2>4. l < m => n < End(B, n, m)
    BY <1>1, <2>1, <2>2
  <2>5. QED  BY <2>1, <2>2, <2>3, <2>4
<1>4. QED  BY <1>2, <1>3

\* How many cells get_cells() finds.
CellsRead(line) == IF line = <<>> \/ EmptyLastCell(line)
                   THEN Len(Fields(line)) - 1 ELSE Len(Fields(line))

\* What get_cells() finds are the fields of the line, but for an empty one at
\* its end.
LEMMA LineRead ==
  ASSUME NEW S, NEW line \in Seq(S), WellQuoted(line)
  PROVE  get_cells(line) = Cut(Fields(line), 1, CellsRead(line))
<1>1. PICK n \in Nat : Len(line) = n
  OBVIOUS
<1>2. PICK B : B = Separators(line)
  OBVIOUS
<1>3. B \in SUBSET (1 .. n)
  BY <1>1, <1>2, SeparatorsAre
<1>4. PICK m \in Nat : m = Cardinality(B)
  BY <1>3, EndsAre
<1>5. PICK f \in Seq(Seq(S)) :
        /\ f = Fields(line) /\ Len(f) = m + 1
        /\ \A k \in 1 .. m + 1 :
              f[k] = Unquoted(SubSeq(line, End(B, n, k - 1) + 1, End(B, n, k) - 1))
  BY <1>1, <1>2, <1>4, FieldsAre
<1>6. PICK M \in 0 .. m + 1 : M = CellsRead(line)
  <2>1. CellsRead(line) = m \/ CellsRead(line) = m + 1
    BY <1>5 DEF CellsRead
  <2>2. QED  BY <2>1
<1>7. /\ \A k \in 0 .. m + 1 : End(B, n, k) \in 0 .. n + 1
      /\ \A k \in 1 .. m : End(B, n, k) \in B
      /\ \A k, l \in 0 .. m + 1 : k < l => End(B, n, k) < End(B, n, l)
      /\ End(B, n, 0) = 0 /\ End(B, n, m + 1) = n + 1
  BY <1>3, <1>4, EndsAre
<1>8. line = <<>> <=> n = 0
  BY <1>1
<1>9. EmptyLastCell(line) <=> (n # 0 /\ n \in B)
  <2>1. EmptyLastCell(line) <=> (n # 0 /\ n \in Separators(line))
    BY <1>1, LastSeparator
  <2>2. QED  BY <1>2, <2>1
\* The cells that are read end before the end of the line.
<1>10. ASSUME NEW k \in 1 .. M PROVE End(B, n, k - 1) < n
  <2>1. k \in 1 .. m + 1 /\ k - 1 \in 0 .. m + 1 /\ k \in 0 .. m + 1 /\ k - 1 < k
    OBVIOUS
  <2>2. PICK a \in 0 .. n + 1, b \in 0 .. n + 1 :
          a = End(B, n, k - 1) /\ b = End(B, n, k) /\ a < b
    BY <1>7, <2>1
  <2>3. CASE k \in 1 .. m
    <3>1. b \in 1 .. n
      BY <1>3, <1>7, <2>2, <2>3
    <3>2. QED  BY <2>2, <3>1
  <2>4. CASE k = m + 1
    <3>1. ~ (line = <<>> \/ EmptyLastCell(line))
      <4>1. line = <<>> \/ EmptyLastCell(line) => M = m
        BY <1>5, <1>6 DEF CellsRead
      <4>2. M = m + 1
        BY <2>4
      <4>3. QED  BY <4>1, <4>2
    <3>2. n # 0 /\ n \notin B
      BY <1>8, <1>9, <3>1
    <3>3. a = End(B, n, m)
      <4>1. k - 1 = m
        BY <2>4
      <4>2. QED  BY <2>2, <4>1
    <3>4. m = 0 => a = 0
      BY <1>7, <3>3
    <3>5. m # 0 => a \in B
      <4>1. m # 0 => m \in 1 .. m
        OBVIOUS
      <4>2. QED  BY <1>7, <3>3, <4>1
    <3>6. a = 0 \/ (a \in 1 .. n /\ a \in B)
      BY <1>3, <3>4, <3>5
    <3>7. QED  BY <2>2, <3>2, <3>6
  <2>5. QED  BY <2>1, <2>3, <2>4
<1> DEFINE U == CellsFrom(line)
\* InFront them there is no other.
<1>11. U[End(B, n, M) + 1] = <<>>
  <2>1. PICK a \in 0 .. n + 1 : a = End(B, n, M) /\ a >= n
    <3>1. M \in 0 .. m + 1
      OBVIOUS
    <3>2. End(B, n, M) \in 0 .. n + 1
      BY <1>7, <3>1
    <3>3. End(B, n, M) >= n
      <4>1. CASE M = m + 1
        BY <1>7, <4>1
      <4>2. CASE M # m + 1
        <5>1. line = <<>> \/ EmptyLastCell(line)
          BY <1>5, <1>6, <4>2 DEF CellsRead
        <5>2. M = m
          BY <1>5, <1>6, <5>1 DEF CellsRead
        <5>3. n = 0 \/ n \in B
          BY <1>8, <1>9, <5>1
        <5>4. End(B, n, m) = n
          BY <1>3, <1>4, <5>3, LastEnd
        <5>5. QED  BY <5>2, <5>4
      <4>3. QED  BY <4>1, <4>2
    <3>4. QED  BY <3>2, <3>3
  <2>2. a + 1 \in 1 .. n + 3 /\ a + 1 > n
    BY <2>1
  <2>3. U[a + 1] = CellsAt(line, U, a + 1)
    BY <1>1, <2>2, CellsUnfold
  <2> HIDE DEF U
  <2>4. QED  BY <1>1, <2>1, <2>2, <2>3 DEF CellsAt
\* Each of them is followed by the next.
<1>12. ASSUME NEW k \in 1 .. M
       PROVE  U[End(B, n, k - 1) + 1] = InFront(f[k], U[End(B, n, k) + 1])
  <2>1. k \in 1 .. m + 1 /\ k - 1 \in 0 .. m + 1
    OBVIOUS
  <2>2. PICK a \in 0 .. n + 1 : a = End(B, n, k - 1) /\ a < n
    BY <1>7, <1>10, <2>1
  <2>3. a + 1 \in 1 .. n
    BY <2>2
  <2>4. Quotes(line, a + 1) % 2 = 0
    <3>1. CASE k = 1
      <4>1. a + 1 = 1
        BY <1>7, <2>2, <3>1
      <4>2. Quotes(line, 1) = 0
        <5>1. 1 \in Nat \ {0}
          OBVIOUS
        <5>2. QED  BY <5>1, QuotesAre
      <4>3. QED  BY <4>1, <4>2
    <3>2. CASE k # 1
      <4>1. k - 1 \in 1 .. m
        BY <3>2
      <4>2. a \in B /\ a \in 1 .. n /\ a \in Nat \ {0}
        BY <1>3, <1>7, <2>2, <4>1
      <4>3. line[a] = Comma /\ Quotes(line, a) % 2 = 0
        BY <1>1, <1>2, <4>2, SeparatorsAre
      <4>4. line[a] # Quote
        BY <4>3 DEF Comma, Quote
      <4>5. QED  BY <4>2, <4>3, <4>4, QuotesAre
    <3>3. QED  BY <3>1, <3>2
  <2>5. PICK e \in a + 1 .. n + 1 :
          /\ e \in B \/ e = n + 1
          /\ \A j \in a + 1 .. e - 1 : j \notin B
          /\ U[a + 1] = InFront(Unquoted(SubSeq(line, a + 1, e - 1)), U[e + 1])
    <3>1. /\ line \in Seq(S) /\ Len(line) = n /\ WellQuoted(line) /\ B = Separators(line)
          /\ a + 1 \in 1 .. n /\ Quotes(line, a + 1) % 2 = 0
      BY <1>1, <1>2, <2>3, <2>4
    <3>2. \E e \in a + 1 .. n + 1 : ReadsCell(line, n, a + 1, e)
      BY ONLY <3>1, CellRead
    <3>3. QED  BY <1>2, <3>2 DEF ReadsCell
  <2> HIDE DEF U
  <2>6. End(B, n, k) = e
    BY <1>3, <1>4, <2>1, <2>2, <2>5, EndIs
  <2>7. f[k] = Unquoted(SubSeq(line, a + 1, e - 1))
    BY <1>5, <2>1, <2>2, <2>6
  <2>8. QED  BY <2>2, <2>5, <2>6, <2>7
<1> HIDE DEF U
<1> DEFINE P == {d \in 0 .. M : U[End(B, n, M - d) + 1] = Cut(f, (M - d) + 1, M)}
<1>13. 0 \in P
  <2>1. Cut(f, M + 1, M) = <<>>
    <3>1. SubSeq(f, M + 1, M) = <<>>
      BY ONLY <1>5
    <3>2. QED  BY <3>1 DEF Cut
  <2>2. M - 0 = M /\ 0 \in 0 .. M
    OBVIOUS
  <2>3. QED  BY <1>11, <2>1, <2>2
<1>14. ASSUME NEW d \in 0 .. M - 1, d \in P PROVE d + 1 \in P
  <2>1. PICK k \in 1 .. M : k = M - d
    OBVIOUS
  <2>2. M - (d + 1) = k - 1 /\ (k - 1) + 1 = k /\ d + 1 \in 0 .. M
    BY <2>1
  <2>3. U[End(B, n, k) + 1] = Cut(f, k + 1, M)
    BY <1>14, <2>1
  <2>4. U[End(B, n, k - 1) + 1] = InFront(f[k], Cut(f, k + 1, M))
    BY <1>12, <2>3
  <2>5. Cut(f, k, M) = InFront(f[k], Cut(f, k + 1, M))
    <3>1. f \in Seq(Seq(S)) /\ Len(f) = m + 1 /\ M \in 0 .. m + 1 /\ k \in 1 .. M /\ m + 1 \in Nat
      BY <1>5
    <3>2. QED  BY ONLY <3>1, HeadOfPart
  <2>6. QED  BY <2>2, <2>4, <2>5
<1>15. U[End(B, n, 0) + 1] = Cut(f, 1, M)
  <2>1. \A d \in 0 .. M : d \in P
    <3>1. M \in Nat
      OBVIOUS
    <3> HIDE DEF P
    <3>2. QED  BY <1>13, <1>14, <3>1, UpTo
  <2>2. M \in 0 .. M /\ M - M = 0 /\ 0 + 1 = 1
    OBVIOUS
  <2>3. U[End(B, n, M - M) + 1] = Cut(f, (M - M) + 1, M)
    BY <2>1, <2>2
  <2>4. QED  BY <2>2, <2>3
<1>16. get_cells(line) = U[1]
  BY CellsAre DEF U
<1>17. End(B, n, 0) + 1 = 1
  BY <1>7
<1>18. QED  BY <1>5, <1>6, <1>15, <1>16, <1>17

LEMMA CellsListed ==
  ASSUME NEW S, NEW line \in Seq(S), WellQuoted(line)
  PROVE  /\ Len(Fields(line)) \in Nat \ {0} /\ CellsRead(line) \in 0 .. Len(Fields(line))
         /\ Fields(line) \in Seq(Seq(S))
         /\ Len(get_cells(line)) = CellsRead(line)
         /\ DOMAIN get_cells(line) = 1 .. CellsRead(line)
         /\ \A j \in 1 .. CellsRead(line) : get_cells(line)[j] = Fields(line)[j]
<1>1. PICK n \in Nat : Len(line) = n
  OBVIOUS
<1>2. PICK m \in Nat : m = Cardinality(Separators(line))
  <2>1. Separators(line) \in SUBSET (1 .. n)
    BY <1>1, SeparatorsAre
  <2>2. QED  BY <2>1, EndsAre
<1>3. PICK f \in Seq(Seq(S)) : f = Fields(line) /\ Len(f) = m + 1
  BY <1>1, <1>2, FieldsAre
<1>4. PICK r \in 0 .. m + 1 : r = CellsRead(line)
  <2>1. CellsRead(line) = m \/ CellsRead(line) = m + 1
    BY <1>3 DEF CellsRead
  <2>2. QED  BY <2>1
<1> DEFINE c == SubSeq(f, 1, r)
<1>5. get_cells(line) = c
  BY <1>3, <1>4, LineRead DEF Cut
<1>6. /\ c \in Seq(Seq(S)) /\ Len(c) = IF 1 <= r THEN r - 1 + 1 ELSE 0
      /\ \A j \in 1 .. r - 1 + 1 : c[j] = f[1 + j - 1]
  <2>1. f \in Seq(Seq(S)) /\ Len(f) = m + 1 /\ m + 1 \in Nat
    BY <1>3
  <2>2. \A j \in 1 .. m + 1 : f[j] \in Seq(S)
    BY ONLY <2>1, ElementOfSeq
  <2>3. \A j \in 1 .. r : j \in 1 .. m + 1
    OBVIOUS
  <2>4. \A j \in 1 .. r : f[j] \in Seq(S)
    BY <2>2, <2>3
  <2>5. 1 \in Int /\ r \in Int
    OBVIOUS
  <2>6. QED  BY ONLY <2>4, <2>5, SubSeqProperties
<1> HIDE DEF c
<1>7. /\ (IF 1 <= r THEN r - 1 + 1 ELSE 0) = r /\ r - 1 + 1 = r
      /\ \A j \in 1 .. r : 1 + j - 1 = j
  OBVIOUS
<1>8. Len(c) = r /\ \A j \in 1 .. r : c[j] = f[j]
  BY <1>6, <1>7
<1>9. DOMAIN c = 1 .. r
  BY ONLY <1>6, <1>8, LenProperties
<1>10. m + 1 \in Nat \ {0}
  OBVIOUS
<1>11. QED  BY <1>3, <1>4, <1>5, <1>8, <1>9, <1>10

\* The last field of a line that is blank or ends with a separator is empty.
LEMMA LastFieldEmpty ==
  ASSUME NEW S, NEW line \in Seq(S), WellQuoted(line), line = <<>> \/ EmptyLastCell(line)
  PROVE  Fields(line)[Len(Fields(line))] = <<>>
<1>1. PICK n \in Nat : Len(line) = n
  OBVIOUS
<1>2. PICK B : B = Separators(line)
  OBVIOUS
<1>3. B \in SUBSET (1 .. n)
  BY <1>1, <1>2, SeparatorsAre
<1>4. PICK m \in Nat : m = Cardinality(B)
  BY <1>3, EndsAre
<1>5. /\ Len(Fields(line)) = m + 1
      /\ \A k \in 1 .. m + 1 :
            Fields(line)[k] = Unquoted(SubSeq(line, End(B, n, k - 1) + 1, End(B, n, k) - 1))
  BY <1>1, <1>2, <1>4, FieldsAre
<1>6. n = 0 \/ n \in B
  <2>1. CASE line = <<>>
    BY <1>1, <2>1
  <2>2. CASE EmptyLastCell(line)
    BY <1>1, <1>2, <2>2, LastSeparator
  <2>3. QED  BY <2>1, <2>2
<1>7. End(B, n, m) = n /\ End(B, n, m + 1) = n + 1
  <2>1. End(B, n, m) = n
    BY <1>3, <1>4, <1>6, LastEnd
  <2>2. End(B, n, m + 1) = n + 1
    BY <1>3, <1>4, EndsAre
  <2>3. QED  BY <2>1, <2>2
<1>8. m + 1 \in 1 .. m + 1 /\ (m + 1) - 1 = m /\ (n + 1) - 1 = n
  OBVIOUS
<1>9. Fields(line)[m + 1] = Unquoted(SubSeq(line, n + 1, n))
  BY <1>5, <1>7, <1>8
<1>10. SubSeq(line, n + 1, n) = <<>>
  BY ONLY <1>1
<1>11. Unquoted(<<>>) = <<>>
  BY DEF Unquoted
<1>12. QED  BY <1>5, <1>9, <1>10, <1>11

-------------------------------------------------------------------------------
(* The query that is taken from any text *)

LEMMA PartIsList ==
  ASSUME NEW s, NEW i \in Int, NEW j \in Int
  PROVE  List(SubSeq(s, i, j))
<1> DEFINE S == {s[k] : k \in i .. j}
<1>1. \A k \in i .. j : s[k] \in S
  OBVIOUS
<1> HIDE DEF S
<1>2. SubSeq(s, i, j) \in Seq(S)
  BY <1>1, SubSeqProperties
<1>3. PICK t \in Seq(S) : t = SubSeq(s, i, j)
  BY <1>2
<1>4. Len(t) \in Nat /\ t = [k \in 1 .. Len(t) |-> t[k]]
  OBVIOUS
<1>5. QED  BY <1>3, <1>4 DEF List

\* The columns or assignments of a query are a list of them.
LEMMA TakenListed ==
  ASSUME NEW S, NEW text \in Seq(S)
  PROVE  LET taken == QueryOf(text)
         IN /\ taken.type = "update" => List(taken.set)
            /\ taken.type = "select_distinct" => List(taken.columns)
<1> DEFINE words == parse(text)
           places == SetPlaces(words)
           type == get_type(words)
<1>1. PICK b \in Nat : b = Cardinality(Blanks(text))
  <2>1. /\ Blanks(text) \in SUBSET (1 .. Len(text)) /\ Len(text) \in Nat
    BY ParseIs
  <2>2. QED  BY <2>1, EndsAre
<1>2. DOMAIN words = 1 .. b + 1
  <2>1. words = [k \in 1 .. Cardinality(Blanks(text)) + 1 |->
                   SubSeq(text, End(Blanks(text), Len(text), k - 1) + 1,
                                End(Blanks(text), Len(text), k) - 1)]
    BY ParseIs
  <2>2. QED  BY <1>1, <2>1
<1>3. Len(words) \in Int
  <2>1. b + 1 \in Nat /\ words = [k \in 1 .. b + 1 |-> words[k]]
    <3>1. words = [k \in DOMAIN words |-> words[k]]
      <4>1. words = [k \in 1 .. Cardinality(Blanks(text)) + 1 |->
                   SubSeq(text, End(Blanks(text), Len(text), k - 1) + 1,
                                End(Blanks(text), Len(text), k) - 1)]
        BY ParseIs
      <4>2. QED  BY <4>1
    <3>2. QED  BY <1>2, <3>1
  <2> HIDE DEF words
  <2>2. Len(words) = b + 1
    BY ONLY <2>1, ListLength
  <2>3. QED  BY <2>2
<1> HIDE DEF words
<1>4. QueryOf(text) = CASE type = "update" ->
                             [type |-> type,
                              set  |-> [j \in DOMAIN SetWords(words) |->
                                          get_colname_value(SetWords(words)[j])]]
                        [] type = "select_column" ->
                             [type |-> type, columns |-> ColumnWords(words, 3)]
                        [] type = "select_distinct" ->
                             [type |-> type, columns |-> ColumnWords(words, 4)]
                        [] OTHER -> [type |-> type]
  BY DEF QueryOf, words
<1> HIDE DEF type
<1>5. QueryOf(text).type = type
  BY <1>4
<1>6. CASE type = "update"
  <2>1. places \in SUBSET (1 .. b + 1)
    BY <1>2 DEF SetPlaces
  <2>2. PICK m \in Nat : m = Cardinality(places)
    BY <2>1, EndsAre
  <2>3. DOMAIN SetWords(words) = 1 .. m
    BY <2>2 DEF SetWords, Kept, SetPlaces
  <2>4. QueryOf(text).set = [j \in 1 .. m |-> get_colname_value(SetWords(words)[j])]
    <3>1. QueryOf(text).set = [j \in DOMAIN SetWords(words) |->
                                 get_colname_value(SetWords(words)[j])]
      BY ONLY <1>4, <1>6
    <3>2. QED  BY <2>3, <3>1
  <2>5. PICK A : A = QueryOf(text).set
    OBVIOUS
  <2>6. A = [j \in 1 .. m |-> A[j]]
    BY <2>4, <2>5
  <2>7. Len(A) = m
    BY ONLY <2>2, <2>6, ListLength
  <2>8. List(A)
    BY <2>6, <2>7 DEF List
  <2>9. QED  BY <1>5, <1>6, <2>5, <2>8
<1>7. CASE type = "select_distinct"
  <2>1. QueryOf(text).columns = SubSeq(clear_comma(words), 4, Len(words) - 2)
    BY <1>4, <1>7 DEF ColumnWords
  <2>2. List(SubSeq(clear_comma(words), 4, Len(words) - 2))
    <3>1. 4 \in Int /\ Len(words) - 2 \in Int
      BY <1>3
    <3>2. QED  BY ONLY <3>1, PartIsList
  <2>3. QED  BY <1>5, <1>7, <2>1, <2>2
<1>8. QED  BY <1>5, <1>6, <1>7
=============================================================================
