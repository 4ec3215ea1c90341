-------------------------------- MODULE Sums --------------------------------
(***************************************************************************)
(* Facts about the sum of a function over a finite set, SumFunctionOnSet   *)
(* of the module Functions.  A sum of naturals counts units, f[x] of them  *)
(* for each x, which makes each fact about it one about the cardinality of *)
(* a set; a sum of integers is the difference of two sums of naturals.     *)
(***************************************************************************)
EXTENDS Integers, FiniteSetsExt, Functions, FiniteSetTheorems, TLAPS

Units(f, S) == {u \in S \X Nat : u[2] \in 1..f[u[1]]}

Weights(f, S) == \A x \in S : f[x] \in Nat

\* Of any subsets of a finite set one is minimal.
LEMMA MinimalSubset ==
  ASSUME NEW S, IsFiniteSet(S), NEW T \in SUBSET SUBSET S, T # {}
  PROVE  \E m \in T : \A u \in T : u \subseteq m => u = m
<1>1. IsWellFoundedOn(StrictSubsetOrdering(S), SUBSET S)
  BY FS_StrictSubsetOrderingWellFounded, FS_FiniteSubsetsOfFinite
<1>2. PICK m \in T : \A u \in T : ~ (<<u, m>> \in StrictSubsetOrdering(S))
  BY <1>1, WFMin
<1>3. ASSUME NEW u \in T, u \subseteq m PROVE u = m
  <2>1. <<u, m>> \in (SUBSET S) \X (SUBSET S)
    OBVIOUS
  <2>2. ~ (<<u, m>>[1] \subseteq <<u, m>>[2] /\ <<u, m>>[1] # <<u, m>>[2])
    BY <1>2, <2>1 DEF StrictSubsetOrdering
  <2>. QED  BY <1>3, <2>2
<1>. QED  BY <1>3

\* The units of one element, taken apart.
LEMMA UnitsOfOne ==
  ASSUME NEW f, NEW S, Weights(f, S), NEW x \in S
  PROVE  /\ Units(f, S) = Units(f, S \ {x}) \cup ({x} \X (1..f[x]))
         /\ Units(f, S \ {x}) \cap ({x} \X (1..f[x])) = {}
         /\ IsFiniteSet({x} \X (1..f[x])) /\ Cardinality({x} \X (1..f[x])) = f[x]
<1>1. f[x] \in Nat
  BY DEF Weights
<1>2. ASSUME NEW u PROVE u \in Units(f, S) <=> u \in Units(f, S \ {x}) \cup ({x} \X (1..f[x]))
  <2>1. CASE u \in S \X Nat /\ u[1] = x
    BY <1>1, <2>1 DEF Units
  <2>2. CASE u \in S \X Nat /\ u[1] # x
    BY <2>2 DEF Units
  <2>3. CASE u \notin S \X Nat
    BY <1>1, <2>3 DEF Units
  <2>. QED  BY <2>1, <2>2, <2>3
<1>3. Units(f, S \ {x}) \cap ({x} \X (1..f[x])) = {}
  BY DEF Units
<1>4. IsFiniteSet(1..f[x]) /\ Cardinality(1..f[x]) = f[x]
  <2>. DEFINE n == f[x]
  <2>. HIDE DEF n
  <2>1. n \in Nat
    BY <1>1 DEF n
  <2>2. /\ IsFiniteSet(1..n)
        /\ Cardinality(1..n) = IF 1 > n THEN 0 ELSE n - 1 + 1
    BY <2>1, FS_Interval
  <2>3. Cardinality(1..n) = n
    BY <2>1, <2>2
  <2>. QED  BY <2>2, <2>3 DEF n
<1>5. /\ IsFiniteSet({x} \X (1..f[x])) /\ IsFiniteSet({x})
      /\ Cardinality({x} \X (1..f[x])) = Cardinality({x}) * Cardinality(1..f[x])
  BY <1>4, FS_Product, FS_Singleton
<1>6. Cardinality({x} \X (1..f[x])) = f[x]
  <2>1. Cardinality({x}) = 1
    BY FS_Singleton
  <2>. QED  BY <1>1, <1>4, <1>5, <2>1
<1>. QED  BY <1>2, <1>3, <1>5, <1>6

\* The units are finitely many.
LEMMA UnitsFinite ==
  ASSUME NEW f, NEW S, IsFiniteSet(S), Weights(f, S)
  PROVE  IsFiniteSet(Units(f, S))
<1>. DEFINE T == {s \in SUBSET S : ~ IsFiniteSet(Units(f, s))}
<1>1. SUFFICES ASSUME T # {} PROVE FALSE
  OBVIOUS
<1>2. PICK m \in T : \A u \in T : u \subseteq m => u = m
  <2>1. T \in SUBSET SUBSET S
    OBVIOUS
  <2>. HIDE DEF T
  <2>. QED  BY <1>1, <2>1, MinimalSubset
<1>3. m # {}
  <2>1. Units(f, {}) = {}
    BY DEF Units
  <2>. QED  BY <2>1, FS_EmptySet
<1>4. PICK x \in m : TRUE
  BY <1>3
<1>5. IsFiniteSet(Units(f, m \ {x}))
  BY <1>2
<1>6. Weights(f, m)
  BY DEF Weights
<1>7. IsFiniteSet(Units(f, m))
  <2>1. /\ Units(f, m) = Units(f, m \ {x}) \cup ({x} \X (1..f[x]))
        /\ IsFiniteSet({x} \X (1..f[x]))
    BY <1>6, UnitsOfOne
  <2>2. IsFiniteSet(Units(f, m \ {x}) \cup ({x} \X (1..f[x])))
    BY <1>5, <2>1, FS_Union
  <2>. QED  BY <2>1, <2>2
<1>. QED  BY <1>7

\* The number of units, one element at a time.
LEMMA UnitsCount ==
  ASSUME NEW f, NEW S, IsFiniteSet(S), Weights(f, S), NEW x \in S
  PROVE  /\ Cardinality(Units(f, S)) = f[x] + Cardinality(Units(f, S \ {x}))
         /\ Cardinality(Units(f, S)) \in Nat /\ Cardinality(Units(f, S \ {x})) \in Nat
<1>1. IsFiniteSet(S \ {x}) /\ Weights(f, S \ {x}) /\ f[x] \in Nat
  BY FS_RemoveElement DEF Weights
<1>2. IsFiniteSet(Units(f, S)) /\ IsFiniteSet(Units(f, S \ {x}))
  BY <1>1, UnitsFinite
<1>3. Cardinality(Units(f, S)) \in Nat /\ Cardinality(Units(f, S \ {x})) \in Nat
  BY <1>2, FS_CardinalityType
<1>4. /\ Units(f, S) = Units(f, S \ {x}) \cup ({x} \X (1..f[x]))
      /\ Units(f, S \ {x}) \cap ({x} \X (1..f[x])) = {}
      /\ IsFiniteSet({x} \X (1..f[x])) /\ Cardinality({x} \X (1..f[x])) = f[x]
  BY UnitsOfOne
<1>5. Cardinality(Units(f, S)) = Cardinality(Units(f, S \ {x})) + f[x] - Cardinality({})
  <2>. DEFINE A == Units(f, S \ {x})
              B == {x} \X (1..f[x])
  <2>1. IsFiniteSet(A) /\ IsFiniteSet(B) /\ A \cap B = {} /\ Units(f, S) = A \cup B
    BY <1>2, <1>4
  <2>2. Cardinality(B) = f[x]
    BY <1>4
  <2>. HIDE DEF A, B
  <2>3. Cardinality(A \cup B) = Cardinality(A) + Cardinality(B) - Cardinality(A \cap B)
    BY <2>1, FS_Union
  <2>4. Cardinality(Units(f, S)) = Cardinality(A) + f[x] - Cardinality({})
    BY <2>1, <2>2, <2>3
  <2>. QED  BY <2>4 DEF A
<1>. QED  BY <1>1, <1>3, <1>5, FS_EmptySet

\* The recursive function that the sum is defined by.
Adder(f, S) ==
    CHOOSE iter : iter = [s \in SUBSET S |->
                            IF s = {} THEN 0
                            ELSE LET x == CHOOSE x \in s : TRUE
                                 IN  f[x] + iter[s \ {x}]]

\* What each subset of S adds up to, an element at a time.
Totals(total, f, S) ==
    /\ total = [s \in SUBSET S |-> total[s]]
    /\ total[{}] = 0
    /\ \A s \in SUBSET S : \A x \in s : total[s] = f[x] + total[s \ {x}]

\* What takes one element after another into account is the sum.
LEMMA SumIsUnique ==
  ASSUME NEW f, NEW S, IsFiniteSet(S), NEW total, Totals(total, f, S)
  PROVE  SumFunctionOnSet(f, S) = total[S]
<1>. DEFINE some(s) == CHOOSE x \in s : TRUE
            Adds(g) == g = [s \in SUBSET S |-> IF s = {} THEN 0
                                               ELSE f[some(s)] + g[s \ {some(s)}]]
<1>1. SumFunctionOnSet(f, S) = Adder(f, S)[S]
  BY DEF SumFunctionOnSet, FoldFunctionOnSet, MapThenFoldSet, Adder
<1>2. Adder(f, S) = CHOOSE g : Adds(g)
  BY DEF Adder
<1>3. ASSUME NEW s \in SUBSET S, s # {}
      PROVE  total[s] = f[some(s)] + total[s \ {some(s)}]
  <2>1. some(s) \in s
    BY <1>3
  <2>. HIDE DEF some
  <2>. QED  BY <2>1 DEF Totals
<1>. HIDE DEF some
<1>4. Adds(total)
  BY <1>3 DEF Totals
<1>5. Adds(Adder(f, S))
  <2>. HIDE DEF Adds
  <2>. QED  BY <1>2, <1>4
<1>6. Adder(f, S)[S] = total[S]
  <2>. DEFINE g == Adder(f, S)
              T == {s \in SUBSET S : g[s] # total[s]}
  <2>. HIDE DEF g
  <2>1. SUFFICES ASSUME T # {} PROVE FALSE
    BY DEF g
  <2>2. PICK m \in T : \A u \in T : u \subseteq m => u = m
    <3>1. T \in SUBSET SUBSET S
      OBVIOUS
    <3>. HIDE DEF T
    <3>. QED  BY <2>1, <3>1, MinimalSubset
  <2>3. Adds(g)
    BY <1>5 DEF g
  <2>4. g[m] = IF m = {} THEN 0 ELSE f[some(m)] + g[m \ {some(m)}]
    BY <2>3
  <2>5. total[m] = IF m = {} THEN 0 ELSE f[some(m)] + total[m \ {some(m)}]
    BY <1>4
  <2>6. CASE m = {}
    BY <2>4, <2>5, <2>6
  <2>7. CASE m # {}
    <3>1. some(m) \in m
      BY <2>7 DEF some
    <3>2. m \ {some(m)} \in SUBSET S /\ m \ {some(m)} \notin T
      <4>1. m \ {some(m)} # m /\ m \ {some(m)} \subseteq m
        BY <3>1
      <4>. HIDE DEF T
      <4>2. m \ {some(m)} \notin T
        BY <2>2, <4>1
      <4>. QED  BY <4>2 DEF T
    <3>3. g[m \ {some(m)}] = total[m \ {some(m)}]
      BY <3>2
    <3>. QED  BY <2>4, <2>5, <2>7, <3>3
  <2>. QED  BY <2>6, <2>7
<1>. QED  BY <1>1, <1>6

\* The sum of f over S is the number of its units.
LEMMA SumCountsUnits ==
  ASSUME NEW f, NEW S, IsFiniteSet(S), Weights(f, S)
  PROVE  SumFunctionOnSet(f, S) = Cardinality(Units(f, S))
<1>. DEFINE count == [s \in SUBSET S |-> Cardinality(Units(f, s))]
<1>1. Cardinality(Units(f, {})) = 0
  <2>1. Units(f, {}) = {}
    BY DEF Units
  <2>. QED  BY <2>1, FS_EmptySet
<1>2. count[{}] = 0
  BY <1>1
<1>3. \A s \in SUBSET S : \A x \in s : count[s] = f[x] + count[s \ {x}]
  <2>1. ASSUME NEW s \in SUBSET S, NEW x \in s
        PROVE  Cardinality(Units(f, s)) = f[x] + Cardinality(Units(f, s \ {x}))
    <3>1. IsFiniteSet(s) /\ Weights(f, s)
      BY FS_Subset DEF Weights
    <3>. QED  BY <3>1, UnitsCount
  <2>. QED  BY <2>1
<1>4. count = [s \in SUBSET S |-> count[s]]
  OBVIOUS
<1>5. S \in SUBSET S /\ count[S] = Cardinality(Units(f, S))
  OBVIOUS
<1>. HIDE DEF count
<1>6. Totals(count, f, S)
  BY <1>2, <1>3, <1>4 DEF Totals
<1>7. SumFunctionOnSet(f, S) = count[S]
  BY <1>6, SumIsUnique
<1>. QED  BY <1>5, <1>7

\* A sum of naturals is one; its elements may be taken out in any order.
LEMMA SumOfOne ==
  ASSUME NEW f, NEW S, IsFiniteSet(S), Weights(f, S), NEW x \in S
  PROVE  SumFunctionOnSet(f, S) = f[x] + SumFunctionOnSet(f, S \ {x})
<1>1. IsFiniteSet(S \ {x}) /\ Weights(f, S \ {x})
  BY FS_RemoveElement DEF Weights
<1>. QED  BY <1>1, SumCountsUnits, UnitsCount

\* A sum of naturals is a natural number.
LEMMA SumIsNat ==
  ASSUME NEW f, NEW S, IsFiniteSet(S), Weights(f, S)
  PROVE  SumFunctionOnSet(f, S) \in Nat
BY SumCountsUnits, UnitsFinite, FS_CardinalityType

\* Functions that agree on S have one sum over it.
LEMMA SumAgrees ==
  ASSUME NEW f, NEW g, NEW S, IsFiniteSet(S), Weights(f, S), \A x \in S : f[x] = g[x]
  PROVE  SumFunctionOnSet(f, S) = SumFunctionOnSet(g, S)
<1>1. Weights(g, S)
  BY DEF Weights
<1>2. Units(f, S) = Units(g, S)
  BY DEF Units
<1>. QED  BY <1>1, <1>2, SumCountsUnits

\* A sum grows with its summands.
LEMMA SumGrows ==
  ASSUME NEW f, NEW g, NEW S, IsFiniteSet(S), Weights(f, S), Weights(g, S),
         \A x \in S : f[x] <= g[x]
  PROVE  SumFunctionOnSet(f, S) <= SumFunctionOnSet(g, S)
<1>1. Units(f, S) \subseteq Units(g, S)
  <2>1. ASSUME NEW u \in Units(f, S) PROVE u \in Units(g, S)
    <3>1. u \in S \X Nat /\ u[2] \in 1..f[u[1]] /\ u[1] \in S /\ u[2] \in Nat
      BY DEF Units
    <3>2. f[u[1]] \in Nat /\ g[u[1]] \in Nat /\ f[u[1]] <= g[u[1]]
      BY <3>1 DEF Weights
    <3>3. u[2] \in 1..g[u[1]]
      BY <3>1, <3>2
    <3>. QED  BY <3>1, <3>3 DEF Units
  <2>. QED  BY <2>1
<1>2. Cardinality(Units(f, S)) <= Cardinality(Units(g, S))
  BY <1>1, UnitsFinite, FS_Subset
<1>. QED  BY <1>2, SumCountsUnits

\* A sum of which one summand changes.
LEMMA SumChanges ==
  ASSUME NEW f, NEW g, NEW S, IsFiniteSet(S), Weights(f, S), Weights(g, S),
         NEW x \in S, \A y \in S \ {x} : f[y] = g[y]
  PROVE  SumFunctionOnSet(g, S) - g[x] = SumFunctionOnSet(f, S) - f[x]
<1>1. IsFiniteSet(S \ {x}) /\ Weights(f, S \ {x}) /\ Weights(g, S \ {x})
  BY FS_RemoveElement DEF Weights
<1>2. SumFunctionOnSet(f, S \ {x}) = SumFunctionOnSet(g, S \ {x})
  BY <1>1, SumAgrees
<1>3. /\ SumFunctionOnSet(f, S) = f[x] + SumFunctionOnSet(f, S \ {x})
      /\ SumFunctionOnSet(g, S) = g[x] + SumFunctionOnSet(g, S \ {x})
  BY SumOfOne
<1>4. SumFunctionOnSet(f, S \ {x}) \in Nat /\ f[x] \in Nat /\ g[x] \in Nat
  BY <1>1, SumIsNat DEF Weights
<1>. QED  BY <1>2, <1>3, <1>4

\* A sum of zeros.
LEMMA SumOfZeros ==
  ASSUME NEW f, NEW S, IsFiniteSet(S), \A x \in S : f[x] = 0
  PROVE  SumFunctionOnSet(f, S) = 0
<1>1. Weights(f, S) /\ Units(f, S) = {}
  BY DEF Weights, Units
<1>. QED  BY <1>1, SumCountsUnits, FS_EmptySet

\* A sum is at most that over a larger set.
LEMMA SumOfMore ==
  ASSUME NEW f, NEW S, IsFiniteSet(S), Weights(f, S), NEW R \in SUBSET S
  PROVE  SumFunctionOnSet(f, R) <= SumFunctionOnSet(f, S)
<1>1. IsFiniteSet(R) /\ Weights(f, R)
  BY FS_Subset DEF Weights
<1>2. Units(f, R) \subseteq Units(f, S)
  BY DEF Units
<1>3. Cardinality(Units(f, R)) <= Cardinality(Units(f, S))
  BY <1>2, UnitsFinite, FS_Subset
<1>. QED  BY <1>1, <1>3, SumCountsUnits

\* Summands that are put elsewhere, one to a place, add up to no more.
LEMMA SumMoves ==
  ASSUME NEW f, NEW g, NEW S, IsFiniteSet(S), Weights(f, S), Weights(g, S),
         NEW R \in SUBSET S, NEW place \in [R -> S],
         \A x, y \in R : place[x] = place[y] => x = y,
         \A x \in R : g[x] = f[place[x]], \A x \in S \ R : g[x] = 0
  PROVE  SumFunctionOnSet(g, S) <= SumFunctionOnSet(f, S)
<1>. DEFINE move == [u \in Units(g, S) |-> <<place[u[1]], u[2]>>]
<1>1. ASSUME NEW u \in Units(g, S)
      PROVE  u[1] \in R /\ u[2] \in Nat /\ u = <<u[1], u[2]>> /\ move[u] \in Units(f, S)
  <2>1. u \in S \X Nat /\ u[1] \in S /\ u[2] \in Nat /\ u[2] \in 1..g[u[1]] /\ u = <<u[1], u[2]>>
    BY DEF Units
  <2>2. u[1] \in R
    BY <2>1
  <2>. QED  BY <2>1, <2>2 DEF Units
<1>2. move \in [Units(g, S) -> Units(f, S)]
  BY <1>1
<1>3. ASSUME NEW u \in Units(g, S), NEW v \in Units(g, S), move[u] = move[v] PROVE u = v
  <2>1. move[u] = <<place[u[1]], u[2]>> /\ move[v] = <<place[v[1]], v[2]>>
    OBVIOUS
  <2>2. place[u[1]] = place[v[1]] /\ u[2] = v[2]
    BY <1>3, <2>1
  <2>3. u[1] \in R /\ v[1] \in R /\ u = <<u[1], u[2]>> /\ v = <<v[1], v[2]>>
    BY <1>1
  <2>4. u[1] = v[1]
    BY <2>2, <2>3
  <2>. QED  BY <2>2, <2>3, <2>4
<1>4. move \in Injection(Units(g, S), Units(f, S))
  BY <1>2, <1>3 DEF Injection, IsInjective
<1>5. Cardinality(Units(g, S)) <= Cardinality(Units(f, S))
  BY <1>4, UnitsFinite, FS_Injection
<1>. QED  BY <1>5, SumCountsUnits

-----------------------------------------------------------------------------
(* Integers *)

Whole(f, S) == \A x \in S : f[x] \in Int

Positive(f, S) == [x \in S |-> IF f[x] > 0 THEN f[x] ELSE 0]
Negative(f, S) == [x \in S |-> IF f[x] < 0 THEN -f[x] ELSE 0]

\* A sum of integers is what is added less what is taken away.
LEMMA SumIsDifference ==
  ASSUME NEW f, NEW S, IsFiniteSet(S), Whole(f, S)
  PROVE  /\ Weights(Positive(f, S), S) /\ Weights(Negative(f, S), S)
         /\ SumFunctionOnSet(f, S) = SumFunctionOnSet(Positive(f, S), S)
                                      - SumFunctionOnSet(Negative(f, S), S)
<1>. DEFINE p == Positive(f, S)
            q == Negative(f, S)
            total == [s \in SUBSET S |-> SumFunctionOnSet(p, s) - SumFunctionOnSet(q, s)]
<1>1. ASSUME NEW x \in S PROVE p[x] \in Nat /\ q[x] \in Nat /\ f[x] = p[x] - q[x]
  <2>1. f[x] \in Int
    BY DEF Whole
  <2>. QED  BY <2>1 DEF Positive, Negative
<1>. HIDE DEF p, q
<1>2. Weights(p, S) /\ Weights(q, S)
  BY <1>1 DEF Weights
<1>3. total[{}] = 0
  <2>1. IsFiniteSet({})
    BY FS_EmptySet
  <2>2. SumFunctionOnSet(p, {}) = 0 /\ SumFunctionOnSet(q, {}) = 0
    BY <2>1, SumOfZeros
  <2>. QED  BY <2>2
<1>4. ASSUME NEW s \in SUBSET S, NEW x \in s
      PROVE  total[s] = f[x] + total[s \ {x}]
  <2>1. IsFiniteSet(s) /\ Weights(p, s) /\ Weights(q, s)
    BY <1>2, FS_Subset DEF Weights
  <2>2. IsFiniteSet(s \ {x}) /\ Weights(p, s \ {x}) /\ Weights(q, s \ {x})
    BY <2>1, FS_RemoveElement DEF Weights
  <2>3. /\ SumFunctionOnSet(p, s) = p[x] + SumFunctionOnSet(p, s \ {x})
        /\ SumFunctionOnSet(q, s) = q[x] + SumFunctionOnSet(q, s \ {x})
    BY <2>1, SumOfOne
  <2>4. SumFunctionOnSet(p, s \ {x}) \in Nat /\ SumFunctionOnSet(q, s \ {x}) \in Nat
    BY <2>2, SumIsNat
  <2>5. /\ total[s] = SumFunctionOnSet(p, s) - SumFunctionOnSet(q, s)
        /\ total[s \ {x}] = SumFunctionOnSet(p, s \ {x}) - SumFunctionOnSet(q, s \ {x})
    OBVIOUS
  <2>. HIDE DEF total
  <2>. QED  BY <1>1, <2>3, <2>4, <2>5
<1>5. total = [s \in SUBSET S |-> total[s]]
  OBVIOUS
<1>6. total[S] = SumFunctionOnSet(p, S) - SumFunctionOnSet(q, S)
  OBVIOUS
<1>. HIDE DEF total
<1>7. Totals(total, f, S)
  BY <1>3, <1>4, <1>5 DEF Totals
<1>8. SumFunctionOnSet(f, S) = total[S]
  BY <1>7, SumIsUnique
<1>. QED  BY <1>2, <1>6, <1>8 DEF p, q

\* A sum of integers is one.
LEMMA SumIsInt ==
  ASSUME NEW f, NEW S, IsFiniteSet(S), Whole(f, S)
  PROVE  SumFunctionOnSet(f, S) \in Int
<1>1. /\ SumFunctionOnSet(Positive(f, S), S) \in Nat
      /\ SumFunctionOnSet(Negative(f, S), S) \in Nat
  BY SumIsDifference, SumIsNat
<1>. QED  BY <1>1, SumIsDifference

\* One element of a sum of integers.
LEMMA IntSumOfOne ==
  ASSUME NEW f, NEW S, IsFiniteSet(S), Whole(f, S), NEW x \in S
  PROVE  /\ SumFunctionOnSet(f, S) = f[x] + SumFunctionOnSet(f, S \ {x})
         /\ f[x] \in Int /\ SumFunctionOnSet(f, S \ {x}) \in Int
<1>. DEFINE R == S \ {x}
            p == Positive(f, S)
            q == Negative(f, S)
<1>1. IsFiniteSet(R) /\ Whole(f, R) /\ f[x] \in Int
  BY FS_RemoveElement DEF Whole
<1>2. SumFunctionOnSet(f, R) \in Int
  <2>. HIDE DEF R
  <2>. QED  BY <1>1, SumIsInt
<1>3. Weights(p, S) /\ Weights(q, S) /\ Weights(p, R) /\ Weights(q, R)
  BY SumIsDifference DEF Weights
<1>4. p[x] \in Nat /\ q[x] \in Nat /\ f[x] = p[x] - q[x]
  BY <1>1 DEF Positive, Negative
<1>5. /\ SumFunctionOnSet(p, S) = p[x] + SumFunctionOnSet(p, R)
      /\ SumFunctionOnSet(q, S) = q[x] + SumFunctionOnSet(q, R)
  BY <1>3, SumOfOne
<1>6. /\ SumFunctionOnSet(p, R) = SumFunctionOnSet(Positive(f, R), R)
      /\ SumFunctionOnSet(q, R) = SumFunctionOnSet(Negative(f, R), R)
  <2>1. \A y \in R : p[y] = Positive(f, R)[y] /\ q[y] = Negative(f, R)[y]
    BY DEF Positive, Negative
  <2>. HIDE DEF R, p, q
  <2>. QED  BY <1>1, <1>3, <2>1, SumAgrees
<1>7. SumFunctionOnSet(p, R) \in Nat /\ SumFunctionOnSet(q, R) \in Nat
  <2>. HIDE DEF R, p, q
  <2>. QED  BY <1>1, <1>3, SumIsNat
<1>8. SumFunctionOnSet(f, S) = SumFunctionOnSet(p, S) - SumFunctionOnSet(q, S)
  BY SumIsDifference
<1>9. SumFunctionOnSet(f, R) = SumFunctionOnSet(p, R) - SumFunctionOnSet(q, R)
  <2>1. SumFunctionOnSet(f, R) = SumFunctionOnSet(Positive(f, R), R)
                                 - SumFunctionOnSet(Negative(f, R), R)
    <3>. HIDE DEF R
    <3>. QED  BY <1>1, SumIsDifference
  <2>. QED  BY <1>6, <2>1
<1>. HIDE DEF R, p, q
<1>10. SumFunctionOnSet(f, S) = f[x] + SumFunctionOnSet(f, R)
  BY <1>4, <1>5, <1>7, <1>8, <1>9
<1>. QED  BY <1>1, <1>2, <1>10 DEF R

\* The sums over the subsets of S.
LEMMA SumsAreTotals ==
  ASSUME NEW f, NEW S, IsFiniteSet(S), Whole(f, S)
  PROVE  /\ SumFunctionOnSet(f, {}) = 0
         /\ \A s \in SUBSET S :
               /\ SumFunctionOnSet(f, s) \in Int
               /\ \A x \in s : /\ SumFunctionOnSet(f, s)
                                     = f[x] + SumFunctionOnSet(f, s \ {x})
                               /\ f[x] \in Int /\ SumFunctionOnSet(f, s \ {x}) \in Int
<1>1. SumFunctionOnSet(f, {}) = 0
  BY SumOfZeros, FS_EmptySet
<1>2. ASSUME NEW s \in SUBSET S PROVE IsFiniteSet(s) /\ Whole(f, s)
  BY FS_Subset DEF Whole
<1>3. ASSUME NEW s \in SUBSET S PROVE SumFunctionOnSet(f, s) \in Int
  BY <1>2, SumIsInt
<1>4. ASSUME NEW s \in SUBSET S, NEW x \in s
      PROVE  /\ SumFunctionOnSet(f, s) = f[x] + SumFunctionOnSet(f, s \ {x})
             /\ f[x] \in Int /\ SumFunctionOnSet(f, s \ {x}) \in Int
  BY <1>2, IntSumOfOne
<1>. QED  BY <1>1, <1>3, <1>4

\* Functions that agree on S have one sum over it, integers too.
LEMMA IntSumAgrees ==
  ASSUME NEW f, NEW g, NEW S, IsFiniteSet(S), Whole(f, S), \A x \in S : f[x] = g[x]
  PROVE  SumFunctionOnSet(f, S) = SumFunctionOnSet(g, S)
<1>1. Positive(f, S) = Positive(g, S) /\ Negative(f, S) = Negative(g, S) /\ Whole(g, S)
  BY DEF Positive, Negative, Whole
<1>. QED  BY <1>1, SumIsDifference

\* A sum of integers is a sum of sums.
LEMMA SumOfSums ==
  ASSUME NEW f, NEW g, NEW h, NEW S, IsFiniteSet(S), Whole(f, S), Whole(g, S),
         \A x \in S : h[x] = f[x] + g[x]
  PROVE  SumFunctionOnSet(h, S) = SumFunctionOnSet(f, S) + SumFunctionOnSet(g, S)
<1>. DEFINE total == [s \in SUBSET S |-> SumFunctionOnSet(f, s) + SumFunctionOnSet(g, s)]
<1>1. total[{}] = 0
  BY SumsAreTotals
<1>2. ASSUME NEW s \in SUBSET S, NEW x \in s PROVE total[s] = h[x] + total[s \ {x}]
  <2>1. /\ SumFunctionOnSet(f, s) = f[x] + SumFunctionOnSet(f, s \ {x})
        /\ f[x] \in Int /\ SumFunctionOnSet(f, s \ {x}) \in Int
    BY SumsAreTotals
  <2>2. /\ SumFunctionOnSet(g, s) = g[x] + SumFunctionOnSet(g, s \ {x})
        /\ g[x] \in Int /\ SumFunctionOnSet(g, s \ {x}) \in Int
    BY SumsAreTotals
  <2>3. /\ total[s] = SumFunctionOnSet(f, s) + SumFunctionOnSet(g, s)
        /\ total[s \ {x}] = SumFunctionOnSet(f, s \ {x}) + SumFunctionOnSet(g, s \ {x})
    OBVIOUS
  <2>4. h[x] = f[x] + g[x]
    OBVIOUS
  <2>. HIDE DEF total
  <2>. QED  BY <2>1, <2>2, <2>3, <2>4
<1>3. total = [s \in SUBSET S |-> total[s]]
  OBVIOUS
<1>4. total[S] = SumFunctionOnSet(f, S) + SumFunctionOnSet(g, S)
  OBVIOUS
<1>. HIDE DEF total
<1>5. Totals(total, h, S)
  BY <1>1, <1>2, <1>3 DEF Totals
<1>. QED  BY <1>4, <1>5, SumIsUnique

\* Where a function is zero it adds nothing.
LEMMA SumOnPart ==
  ASSUME NEW f, NEW S, IsFiniteSet(S), Whole(f, S), NEW R \in SUBSET S,
         \A x \in S \ R : f[x] = 0
  PROVE  SumFunctionOnSet(f, S) = SumFunctionOnSet(f, R)
<1>. DEFINE total == [s \in SUBSET S |-> SumFunctionOnSet(f, s \cap R)]
<1>1. total[{}] = 0
  <2>1. {} \cap R = {}
    OBVIOUS
  <2>. QED  BY <2>1, SumsAreTotals
<1>2. ASSUME NEW s \in SUBSET S, NEW x \in s PROVE total[s] = f[x] + total[s \ {x}]
  <2>1. /\ total[s] = SumFunctionOnSet(f, s \cap R)
        /\ total[s \ {x}] = SumFunctionOnSet(f, (s \ {x}) \cap R)
    OBVIOUS
  <2>2. s \cap R \in SUBSET S
    OBVIOUS
  <2>. HIDE DEF total
  <2>3. CASE x \in R
    <3>1. (s \ {x}) \cap R = (s \cap R) \ {x} /\ x \in s \cap R
      BY <2>3
    <3>2. SumFunctionOnSet(f, s \cap R) = f[x] + SumFunctionOnSet(f, (s \cap R) \ {x})
      BY <2>2, <3>1, SumsAreTotals
    <3>. QED  BY <2>1, <3>1, <3>2
  <2>4. CASE x \notin R
    <3>1. (s \ {x}) \cap R = s \cap R /\ x \in S \ R
      BY <2>4
    <3>3. f[x] = 0
      BY <3>1
    <3>2. SumFunctionOnSet(f, s \cap R) \in Int
      BY <2>2, SumsAreTotals
    <3>. QED  BY <2>1, <3>1, <3>2, <3>3
  <2>. QED  BY <2>3, <2>4
<1>3. total = [s \in SUBSET S |-> total[s]]
  OBVIOUS
<1>4. total[S] = SumFunctionOnSet(f, R)
  <2>1. S \cap R = R
    OBVIOUS
  <2>. QED  BY <2>1
<1>. HIDE DEF total
<1>5. Totals(total, f, S)
  BY <1>1, <1>2, <1>3 DEF Totals
<1>. QED  BY <1>4, <1>5, SumIsUnique

\* A sum over two sets apart is the two sums.
LEMMA SumOfUnion ==
  ASSUME NEW f, NEW A, NEW B, IsFiniteSet(A), IsFiniteSet(B), A \cap B = {}, Whole(f, A \cup B)
  PROVE  SumFunctionOnSet(f, A \cup B) = SumFunctionOnSet(f, A) + SumFunctionOnSet(f, B)
<1>. DEFINE S == A \cup B
            a == [x \in S |-> IF x \in A THEN f[x] ELSE 0]
            b == [x \in S |-> IF x \in A THEN 0 ELSE f[x]]
<1>1. IsFiniteSet(S) /\ A \in SUBSET S /\ B \in SUBSET S
  BY FS_Union
<1>2. ASSUME NEW x \in S
      PROVE  /\ f[x] \in Int /\ a[x] \in Int /\ b[x] \in Int /\ f[x] = a[x] + b[x]
             /\ x \in A => a[x] = f[x]
             /\ x \notin A => a[x] = 0
             /\ x \in B => b[x] = f[x]
             /\ x \notin B => b[x] = 0
  BY DEF Whole
<1>. HIDE DEF S, a, b
<1>3. Whole(f, S) /\ Whole(a, S) /\ Whole(b, S) /\ Whole(f, A) /\ Whole(f, B)
  BY <1>1, <1>2 DEF Whole
<1>4. SumFunctionOnSet(f, S) = SumFunctionOnSet(a, S) + SumFunctionOnSet(b, S)
  BY <1>1, <1>2, <1>3, SumOfSums
<1>5. SumFunctionOnSet(a, S) = SumFunctionOnSet(a, A)
  BY <1>1, <1>2, <1>3, SumOnPart
<1>6. SumFunctionOnSet(b, S) = SumFunctionOnSet(b, B)
  BY <1>1, <1>2, <1>3, SumOnPart
<1>7. SumFunctionOnSet(f, A) = SumFunctionOnSet(a, A)
  BY <1>1, <1>2, <1>3, IntSumAgrees
<1>8. SumFunctionOnSet(f, B) = SumFunctionOnSet(b, B)
  BY <1>1, <1>2, <1>3, IntSumAgrees
<1>. QED  BY <1>4, <1>5, <1>6, <1>7, <1>8 DEF S

\* What the parts of a set add up to, by a key of its elements, adds up to
\* what the set does.
LEMMA SumOfParts ==
  ASSUME NEW f, NEW S, IsFiniteSet(S), Whole(f, S),
         NEW K, IsFiniteSet(K), NEW key, \A x \in S : key[x] \in K,
         NEW g, \A k \in K : g[k] = SumFunctionOnSet(f, {x \in S : key[x] = k})
  PROVE  SumFunctionOnSet(g, K) = SumFunctionOnSet(f, S)
<1>. DEFINE part(s) == {x \in S : key[x] \in s}
            total == [s \in SUBSET K |-> SumFunctionOnSet(f, part(s))]
<1>1. total[{}] = 0
  <2>1. part({}) = {}
    OBVIOUS
  <2>2. {} \in SUBSET K
    OBVIOUS
  <2>. HIDE DEF part
  <2>. QED  BY <2>1, <2>2, SumsAreTotals
<1>2. ASSUME NEW s \in SUBSET K, NEW k \in s PROVE total[s] = g[k] + total[s \ {k}]
  <2>. DEFINE A == {x \in S : key[x] = k}
              B == part(s \ {k})
  <2>1. A \in SUBSET S /\ B \in SUBSET S /\ A \cap B = {} /\ part(s) = A \cup B
    OBVIOUS
  <2>2. IsFiniteSet(A) /\ IsFiniteSet(B) /\ Whole(f, A \cup B)
    BY <2>1, FS_Subset DEF Whole
  <2>3. /\ total[s] = SumFunctionOnSet(f, part(s))
        /\ total[s \ {k}] = SumFunctionOnSet(f, B)
    OBVIOUS
  <2>4. g[k] = SumFunctionOnSet(f, A)
    OBVIOUS
  <2>. HIDE DEF A, B, part, total
  <2>. QED  BY <2>1, <2>2, <2>3, <2>4, SumOfUnion
<1>3. total = [s \in SUBSET K |-> total[s]]
  OBVIOUS
<1>4. total[K] = SumFunctionOnSet(f, S)
  <2>1. part(K) = S
    OBVIOUS
  <2>. HIDE DEF part
  <2>. QED  BY <2>1
<1>. HIDE DEF total
<1>5. Totals(total, g, K)
  BY <1>1, <1>2, <1>3 DEF Totals
<1>. QED  BY <1>4, <1>5, SumIsUnique

-----------------------------------------------------------------------------
(* The smallest of some numbers *)

\* Of some subsets of a finite set, one for each element, one is minimal.
LEMMA MinimalImage ==
  ASSUME NEW S, IsFiniteSet(S), S # {}, NEW f \in [S -> SUBSET S]
  PROVE  \E m \in S : \A u \in S : f[u] \subseteq f[m] => f[u] = f[m]
<1>. DEFINE T == {f[m] : m \in S}
<1>1. T \in SUBSET SUBSET S
  OBVIOUS
<1>2. T # {}
  OBVIOUS
<1>3. PICK w \in T : \A u \in T : u \subseteq w => u = w
  <2>. HIDE DEF T
  <2>. QED  BY <1>1, <1>2, MinimalSubset
<1>4. PICK m \in S : w = f[m]
  OBVIOUS
<1>5. ASSUME NEW u \in S, f[u] \subseteq f[m] PROVE f[u] = f[m]
  <2>1. f[u] \in T
    OBVIOUS
  <2>. HIDE DEF T
  <2>. QED  BY <1>3, <1>4, <1>5, <2>1
<1>. QED  BY <1>5

Within(S, k, n) == k \in Int /\ n \in Int /\ S \subseteq k..n

\* Of any numbers within bounds one is the smallest, and it is their Min.
LEMMA SmallestOfSome ==
  ASSUME NEW S, NEW k, NEW n, Within(S, k, n), S # {}
  PROVE  Min(S) \in S /\ \A u \in S : Min(S) <= u
<1>. DEFINE upto == [m \in S |-> {v \in S : v <= m}]
<1>1. IsFiniteSet(S)
  <2>1. IsFiniteSet(k..n) /\ S \subseteq k..n
    BY FS_Interval DEF Within
  <2>. QED  BY <2>1, FS_Subset
<1>2. PICK m \in S : \A u \in S : upto[u] \subseteq upto[m] => upto[u] = upto[m]
  <2>1. upto \in [S -> SUBSET S]
    OBVIOUS
  <2>. HIDE DEF upto
  <2>. QED  BY <1>1, <2>1, MinimalImage
<1>3. ASSUME NEW u \in S PROVE m <= u
  <2>1. SUFFICES ASSUME ~ (m <= u) PROVE FALSE
    OBVIOUS
  <2>2. S \subseteq Int /\ u \in Int /\ m \in Int
    BY DEF Within
  <2>3. upto[u] \subseteq upto[m]
    <3>1. ASSUME NEW v \in upto[u] PROVE v \in upto[m]
      <4>1. v \in S /\ v \in Int
        BY <2>2
      <4>. QED  BY <2>1, <2>2, <4>1
    <3>. QED  BY <3>1
  <2>4. m \in upto[m] /\ m \notin upto[u]
    BY <2>1, <2>2
  <2>. QED  BY <1>2, <2>3, <2>4
<1>. QED  BY <1>3 DEF Min

\* Of any numbers within bounds one is the largest, and it is their Max.
LEMMA LargestOfSome ==
  ASSUME NEW S, NEW k, NEW n, Within(S, k, n), S # {}
  PROVE  Max(S) \in S /\ \A u \in S : u <= Max(S)
<1>. DEFINE from == [m \in S |-> {v \in S : m <= v}]
<1>1. IsFiniteSet(S)
  <2>1. IsFiniteSet(k..n) /\ S \subseteq k..n
    BY FS_Interval DEF Within
  <2>. QED  BY <2>1, FS_Subset
<1>2. PICK m \in S : \A u \in S : from[u] \subseteq from[m] => from[u] = from[m]
  <2>1. from \in [S -> SUBSET S]
    OBVIOUS
  <2>. HIDE DEF from
  <2>. QED  BY <1>1, <2>1, MinimalImage
<1>3. ASSUME NEW u \in S PROVE u <= m
  <2>1. SUFFICES ASSUME ~ (u <= m) PROVE FALSE
    OBVIOUS
  <2>2. S \subseteq Int /\ u \in Int /\ m \in Int
    BY DEF Within
  <2>3. from[u] \subseteq from[m]
    <3>1. ASSUME NEW v \in from[u] PROVE v \in from[m]
      <4>1. v \in S /\ v \in Int
        BY <2>2
      <4>. QED  BY <2>1, <2>2, <4>1
    <3>. QED  BY <3>1
  <2>4. m \in from[m] /\ m \notin from[u]
    BY <2>1, <2>2
  <2>. QED  BY <1>2, <2>3, <2>4
<1>. QED  BY <1>3 DEF Max
=============================================================================
