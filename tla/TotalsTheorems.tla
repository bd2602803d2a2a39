--------------------------- MODULE TotalsTheorems ---------------------------
(* What proofs need to know of a sum over a finite set, for any set and    *)
(* any function.                                                           *)
EXTENDS Totals, FiniteSetTheorems, TLAPS

LEMMA UpTo ==
    ASSUME NEW n \in Nat
    PROVE  IsFiniteSet(1 .. n) /\ Cardinality(1 .. n) = n
<1>1. /\ IsFiniteSet(1 .. n)
      /\ Cardinality(1 .. n) = IF 1 > n THEN 0 ELSE n - 1 + 1
  BY FS_Interval
<1> QED
  BY <1>1

LEMMA UnitsFinite ==
    ASSUME NEW S, IsFiniteSet(S), NEW f, \A x \in S : f[x] \in Nat
    PROVE  IsFiniteSet(Units(f, S))
<1> DEFINE U(x) == {x} \X (1 .. f[x])
<1>1. IsFiniteSet({U(x) : x \in S})
  <2> DEFINE u == [x \in S |-> U(x)]
  <2>1. u \in Surjection(S, {U(x) : x \in S})
    BY DEF Surjection
  <2> QED
    BY <2>1, FS_Surjection
<1>2. ASSUME NEW x \in S
      PROVE  IsFiniteSet(U(x))
  <2>1. IsFiniteSet(1 .. f[x])
    BY UpTo
  <2>2. IsFiniteSet({x})
    BY FS_Singleton
  <2> QED
    BY <2>1, <2>2, FS_Product, Zenon
<1> QED
  BY <1>1, <1>2, FS_UNION DEF Units

LEMMA TotalType ==
    ASSUME NEW S, IsFiniteSet(S), NEW f, \A x \in S : f[x] \in Nat
    PROVE  Total(f, S) \in Nat
BY UnitsFinite, FS_CardinalityType DEF Total

LEMMA TotalEmpty ==
    ASSUME NEW f
    PROVE  Total(f, {}) = 0
<1>1. Units(f, {}) = {}
  BY DEF Units
<1> QED
  BY <1>1, FS_EmptySet DEF Total

(* Only the values on the set count.                                       *)
LEMMA TotalSame ==
    ASSUME NEW S, NEW f, NEW g, \A x \in S : f[x] = g[x]
    PROVE  Total(f, S) = Total(g, S)
<1>1. Units(f, S) = Units(g, S)
  BY DEF Units
<1> QED
  BY <1>1 DEF Total

LEMMA TotalUnion ==
    ASSUME NEW S, IsFiniteSet(S), NEW T, IsFiniteSet(T), S \cap T = {},
           NEW f, \A x \in S \cup T : f[x] \in Nat
    PROVE  Total(f, S \cup T) = Total(f, S) + Total(f, T)
<1>1. Units(f, S \cup T) = Units(f, S) \cup Units(f, T)
  BY DEF Units
<1>2. Units(f, S) \cap Units(f, T) = {}
  BY DEF Units
<1>3. IsFiniteSet(Units(f, S)) /\ IsFiniteSet(Units(f, T))
  BY UnitsFinite
<1>4. Cardinality(Units(f, S)) \in Nat /\ Cardinality(Units(f, T)) \in Nat
  BY <1>3, FS_CardinalityType
<1>5. /\ Cardinality(Units(f, S) \cup Units(f, T))
         = Cardinality(Units(f, S)) + Cardinality(Units(f, T)) - Cardinality({})
      /\ Cardinality({}) = 0
  BY <1>2, <1>3, FS_Union, FS_EmptySet
<1>6. /\ Total(f, S \cup T) = Cardinality(Units(f, S) \cup Units(f, T))
      /\ Total(f, S) = Cardinality(Units(f, S))
      /\ Total(f, T) = Cardinality(Units(f, T))
  BY <1>1, Zenon DEF Total
<1> QED
  BY <1>4, <1>5, <1>6

LEMMA TotalSingleton ==
    ASSUME NEW x, NEW f, f[x] \in Nat
    PROVE  Total(f, {x}) = f[x]
<1>1. Units(f, {x}) = {x} \X (1 .. f[x])
  BY DEF Units
<1>2. IsFiniteSet({x}) /\ Cardinality({x}) = 1
  BY FS_Singleton
<1>3. IsFiniteSet(1 .. f[x]) /\ Cardinality(1 .. f[x]) = f[x]
  BY UpTo
<1>4. Cardinality({x} \X (1 .. f[x])) = Cardinality({x}) * Cardinality(1 .. f[x])
  BY <1>2, <1>3, FS_Product, Zenon
<1>5. Total(f, {x}) = 1 * f[x]
  BY <1>1, <1>2, <1>3, <1>4, Zenon DEF Total
<1> QED
  BY <1>5

LEMMA TotalRemove ==
    ASSUME NEW S, IsFiniteSet(S), NEW x \in S, NEW f, \A y \in S : f[y] \in Nat
    PROVE  /\ Total(f, S) = Total(f, S \ {x}) + f[x]
           /\ Total(f, S \ {x}) \in Nat
<1>1. IsFiniteSet(S \ {x}) /\ IsFiniteSet({x})
  BY FS_RemoveElement, FS_Singleton
<1>2. S = (S \ {x}) \cup {x} /\ (S \ {x}) \cap {x} = {}
  OBVIOUS
<1>3. Total(f, (S \ {x}) \cup {x}) = Total(f, S \ {x}) + Total(f, {x})
  BY <1>1, <1>2, TotalUnion
<1> QED
  BY <1>1, <1>2, <1>3, TotalSingleton, TotalType

LEMMA TotalAdd ==
    ASSUME NEW S, IsFiniteSet(S), NEW x, x \notin S,
           NEW f, \A y \in S \cup {x} : f[y] \in Nat
    PROVE  Total(f, S \cup {x}) = Total(f, S) + f[x]
<1>1. IsFiniteSet({x}) /\ S \cap {x} = {}
  BY FS_Singleton
<1>2. Total(f, S \cup {x}) = Total(f, S) + Total(f, {x})
  BY <1>1, TotalUnion
<1> QED
  BY <1>2, TotalSingleton

(* One value changes, and the sum with it.                                 *)
LEMMA TotalChange ==
    ASSUME NEW S, IsFiniteSet(S), NEW x \in S,
           NEW f, NEW g, \A y \in S : f[y] \in Nat, \A y \in S : g[y] \in Nat,
           \A y \in S \ {x} : g[y] = f[y]
    PROVE  /\ Total(g, S) = Total(f, S) - f[x] + g[x]
           /\ f[x] <= Total(f, S) /\ g[x] <= Total(g, S)
<1>1. /\ Total(f, S) = Total(f, S \ {x}) + f[x]
      /\ Total(g, S) = Total(g, S \ {x}) + g[x]
      /\ Total(f, S \ {x}) \in Nat /\ Total(g, S \ {x}) \in Nat
  BY TotalRemove
<1>2. Total(g, S \ {x}) = Total(f, S \ {x})
  BY TotalSame
<1> QED
  BY <1>1, <1>2

LEMMA TotalZero ==
    ASSUME NEW S, IsFiniteSet(S), NEW f, \A x \in S : f[x] \in Nat
    PROVE  Total(f, S) = 0 <=> \A x \in S : f[x] = 0
<1>1. Total(f, S) = 0 <=> Units(f, S) = {}
  BY UnitsFinite, FS_EmptySet DEF Total
<1>2. Units(f, S) = {} <=> \A x \in S : f[x] = 0
  <2>1. ASSUME NEW x \in S, f[x] # 0
        PROVE  <<x, 1>> \in Units(f, S)
    BY <2>1 DEF Units
  <2>2. ASSUME \A x \in S : f[x] = 0
        PROVE  Units(f, S) = {}
    BY <2>2 DEF Units
  <2> QED
    BY <2>1, <2>2
<1> QED
  BY <1>1, <1>2

(* Larger values, or more of them, give a larger sum.                      *)
LEMMA TotalMonotone ==
    ASSUME NEW S, NEW T, S \subseteq T, IsFiniteSet(T),
           NEW f, \A x \in S : f[x] \in Nat,
           NEW g, \A x \in T : g[x] \in Nat,
           \A x \in S : f[x] <= g[x]
    PROVE  Total(f, S) <= Total(g, T)
<1>1. Units(f, S) \subseteq Units(g, T)
  BY DEF Units
<1>2. IsFiniteSet(Units(g, T))
  BY UnitsFinite
<1> QED
  BY <1>1, <1>2, FS_Subset DEF Total

LEMMA TotalConstant ==
    ASSUME NEW S, IsFiniteSet(S), NEW c \in Nat, NEW f, \A x \in S : f[x] = c
    PROVE  Total(f, S) = c * Cardinality(S)
<1>1. Units(f, S) = S \X (1 .. c)
  BY DEF Units
<1>2. IsFiniteSet(1 .. c) /\ Cardinality(1 .. c) = c /\ Cardinality(S) \in Nat
  BY UpTo, FS_CardinalityType
<1>3. Cardinality(S \X (1 .. c)) = Cardinality(S) * c
  BY <1>2, FS_Product
<1>4. Cardinality(S) * c = c * Cardinality(S)
  BY <1>2
<1> QED
  BY <1>1, <1>3, <1>4 DEF Total
=============================================================================
