---------------------------- MODULE TotalsProofs ----------------------------
(***************************************************************************)
(* How the total of a function changes with its values and its arguments.  *)
(***************************************************************************)
EXTENDS Totals, FiniteSetTheorems, TLAPS

\* The units of one argument are as many as its value.
LEMMA UnitsOfOne ==
    ASSUME NEW x, NEW n \in Nat
    PROVE  IsFiniteSet({x} \X (1 .. n)) /\ Cardinality({x} \X (1 .. n)) = n
<1>1. IsFiniteSet({x}) /\ Cardinality({x}) = 1
  BY FS_Singleton
<1>2. IsFiniteSet(1 .. n) /\ Cardinality(1 .. n) = n
  <2>1. 1 \in Int /\ n \in Int
    OBVIOUS
  <2>2. IsFiniteSet(1 .. n) /\ Cardinality(1 .. n) = IF 1 > n THEN 0 ELSE n - 1 + 1
    BY <2>1, FS_Interval
  <2> QED
    BY <2>2
<1>3. IsFiniteSet({x} \X (1 .. n)) /\ Cardinality({x} \X (1 .. n)) = Cardinality({x}) * Cardinality(1 .. n)
  BY <1>1, <1>2, FS_Product
<1> QED
  BY <1>1, <1>2, <1>3

\* A finite number of arguments has a finite number of units.
LEMMA UnitsFinite ==
    ASSUME NEW S, IsFiniteSet(S), NEW f \in [S -> Nat]
    PROVE  IsFiniteSet(Units(f))
<1> DEFINE g == [x \in S |-> {x} \X (1 .. f[x])]
           V == {g[x] : x \in S}
<1>1. g \in Surjection(S, V)
  BY DEF Surjection
<1>2. \A x \in S : IsFiniteSet(g[x])
  BY UnitsOfOne
<1>3. Units(f) = UNION V
  BY DEF Units
<1> HIDE DEF g
<1>4. IsFiniteSet(V)
  <2> HIDE DEF V
  <2> QED
    BY <1>1, FS_Surjection
<1> QED
  BY <1>2, <1>3, <1>4, FS_UNION

\* A total is a number.
LEMMA TotalType ==
    ASSUME NEW S, IsFiniteSet(S), NEW f \in [S -> Nat]
    PROVE  Total(f) \in Nat
BY UnitsFinite, FS_CardinalityType DEF Total

LEMMA TotalOfNone ==
    ASSUME NEW f, DOMAIN f = {}
    PROVE  Total(f) = 0
<1>1. Units(f) = {}
  BY DEF Units
<1> QED
  BY <1>1, FS_EmptySet DEF Total

LEMMA TotalOfOne ==
    ASSUME NEW x, NEW f, DOMAIN f = {x}, f[x] \in Nat
    PROVE  Total(f) = f[x]
<1>1. Units(f) = {x} \X (1 .. f[x])
  BY DEF Units
<1> QED
  BY <1>1, UnitsOfOne DEF Total

\* Fewer arguments and smaller values have a smaller total.
LEMMA TotalLess ==
    ASSUME NEW S, IsFiniteSet(S), NEW f \in [S -> Nat], NEW T \in SUBSET S,
           NEW g \in [T -> Nat], \A y \in T : g[y] <= f[y]
    PROVE  Total(g) <= Total(f)
<1>1. Units(g) \subseteq Units(f)
  BY DEF Units
<1>2. IsFiniteSet(Units(f))
  BY UnitsFinite
<1> QED
  BY <1>1, <1>2, FS_Subset DEF Total

\* The total is that of all arguments but one, and that one's value.
LEMMA TotalSplit ==
    ASSUME NEW S, IsFiniteSet(S), NEW f \in [S -> Nat], NEW x \in S
    PROVE  Total(f) = Total([y \in S \ {x} |-> f[y]]) + f[x]
<1> DEFINE T == S \ {x}
           g == [y \in T |-> f[y]]
           one == {x} \X (1 .. f[x])
<1>1. Units(f) = Units(g) \cup one
  BY DEF Units
<1>2. Units(g) \cap one = {}
  BY DEF Units
<1>3. IsFiniteSet(T) /\ g \in [T -> Nat]
  BY FS_RemoveElement
<1>4. IsFiniteSet(one) /\ Cardinality(one) = f[x]
  BY UnitsOfOne
<1> HIDE DEF T, g, one
<1>5. IsFiniteSet(Units(g))
  BY <1>3, UnitsFinite
<1>6. Cardinality(Units(g) \cup one)
        = Cardinality(Units(g)) + Cardinality(one) - Cardinality(Units(g) \cap one)
  BY <1>4, <1>5, FS_Union
<1>7. Cardinality(Units(g)) \in Nat /\ Cardinality(Units(g) \cap one) = 0 /\ f[x] \in Nat
  BY <1>2, <1>5, FS_CardinalityType, FS_EmptySet
<1>8. Total(f) = Total(g) + f[x]
  BY <1>1, <1>4, <1>6, <1>7 DEF Total
<1> QED
  BY <1>8 DEF g, T

\* One argument more adds its value.
LEMMA TotalMore ==
    ASSUME NEW S, IsFiniteSet(S), NEW f \in [S -> Nat], NEW x, x \notin S,
           NEW g \in [S \cup {x} -> Nat], \A y \in S : g[y] = f[y]
    PROVE  Total(g) = Total(f) + g[x]
<1>1. IsFiniteSet(S \cup {x}) /\ x \in S \cup {x}
  BY FS_AddElement
<1>2. Total(g) = Total([y \in (S \cup {x}) \ {x} |-> g[y]]) + g[x]
  BY <1>1, TotalSplit
<1>3. [y \in (S \cup {x}) \ {x} |-> g[y]] = f
  OBVIOUS
<1> QED
  BY <1>2, <1>3

\* The same for the numbers up to the next.
LEMMA TotalNext ==
    ASSUME NEW n, n \in Nat, NEW f, f \in [1 .. n -> Nat], NEW g, g \in [1 .. (n + 1) -> Nat],
           \A i \in 1 .. n : g[i] = f[i]
    PROVE  Total(g) = Total(f) + g[n + 1]
<1> DEFINE S == 1 .. n
           m == n + 1
<1>1. IsFiniteSet(S)
  BY FS_Interval
<1>2. m \notin S /\ 1 .. (n + 1) = S \cup {m}
  OBVIOUS
<1>3. m \notin S /\ f \in [S -> Nat] /\ g \in [S \cup {m} -> Nat] /\ \A i \in S : g[i] = f[i]
  BY <1>2
<1>4. ASSUME NEW T, NEW x, IsFiniteSet(T), x \notin T, f \in [T -> Nat],
             g \in [T \cup {x} -> Nat], \A y \in T : g[y] = f[y]
      PROVE  Total(g) = Total(f) + g[x]
  BY ONLY <1>4, TotalMore
<1> HIDE DEF S, m
<1>5. Total(g) = Total(f) + g[m]
  BY <1>1, <1>3, <1>4
<1> QED
  BY <1>5 DEF m

\* Another value of one argument changes the total by the difference.
LEMMA TotalChange ==
    ASSUME NEW S, IsFiniteSet(S), NEW f \in [S -> Nat], NEW x \in S,
           NEW g \in [S -> Nat], \A y \in S \ {x} : g[y] = f[y]
    PROVE  /\ Total(g) = Total(f) - f[x] + g[x]
           /\ f[x] <= Total(f)
           /\ Total(f) \in Nat /\ Total(g) \in Nat
<1> DEFINE h == [y \in S \ {x} |-> f[y]]
<1>1. h = [y \in S \ {x} |-> g[y]]
  OBVIOUS
<1>2. Total(f) = Total(h) + f[x] /\ Total(g) = Total(h) + g[x]
  <2>1. Total(f) = Total(h) + f[x]
    BY TotalSplit
  <2>2. Total(g) = Total([y \in S \ {x} |-> g[y]]) + g[x]
    BY TotalSplit
  <2> QED
    BY <1>1, <2>1, <2>2
<1>3. Total(h) \in Nat
  <2>1. IsFiniteSet(S \ {x}) /\ h \in [S \ {x} -> Nat]
    BY FS_RemoveElement
  <2> QED
    BY <2>1, TotalType
<1> HIDE DEF h
<1> QED
  BY <1>2, <1>3
=============================================================================
