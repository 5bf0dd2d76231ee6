--------------------------- MODULE CentSumsProofs ---------------------------
(***************************************************************************)
(* Facts about SumOver: it is a natural number, it splits over disjoint    *)
(* sets of rows, and it follows the update of one row.                     *)
(***************************************************************************)
EXTENDS CentSums, FiniteSetTheorems, TLAPS

\* A finite set of rows has finitely many coins.
LEMMA CoinsFinite ==
  ASSUME NEW S, IsFiniteSet(S), NEW f, \A x \in S : f[x] \in Nat
  PROVE  IsFiniteSet(Coins(f, S))
<1> DEFINE rolls == {{x} \X (1 .. f[x]) : x \in S}
           roll == [x \in S |-> {x} \X (1 .. f[x])]
<1>1. \A x \in S : IsFiniteSet({x} \X (1 .. f[x]))
  <2>1. TAKE x \in S
  <2>2. IsFiniteSet({x})
    BY FS_Singleton
  <2>3. IsFiniteSet(1 .. f[x])
    BY FS_Interval
  <2>4. QED
    BY <2>2, <2>3, FS_Product
<1>2. roll \in Surjection(S, rolls)
  BY DEF Surjection
<1>3. IsFiniteSet(rolls)
  BY <1>2, FS_Surjection
<1>4. QED
  BY <1>1, <1>3, FS_UNION DEF Coins

\* The sum of the amounts of a finite set of rows is an amount.
LEMMA SumNat ==
  ASSUME NEW S, IsFiniteSet(S), NEW f, \A x \in S : f[x] \in Nat
  PROVE  SumOver(f, S) \in Nat
BY CoinsFinite, FS_CardinalityType DEF SumOver

\* No rows, no cents.
LEMMA SumEmpty ==
  ASSUME NEW f
  PROVE  SumOver(f, {}) = 0
<1>1. Coins(f, {}) = {}
  BY DEF Coins
<1>2. QED
  BY <1>1, FS_EmptySet DEF SumOver

\* The sum depends only on the amounts of the rows it is taken over.
LEMMA SumSame ==
  ASSUME NEW S, NEW f, NEW g, \A x \in S : f[x] = g[x]
  PROVE  SumOver(f, S) = SumOver(g, S)
<1>1. Coins(f, S) = Coins(g, S)
  BY DEF Coins
<1>2. QED
  BY <1>1 DEF SumOver

\* The sum over two disjoint sets of rows is the sum of both.
LEMMA SumSplit ==
  ASSUME NEW S, IsFiniteSet(S), NEW T, IsFiniteSet(T), S \cap T = {},
         NEW f, \A x \in S \cup T : f[x] \in Nat
  PROVE  SumOver(f, S \cup T) = SumOver(f, S) + SumOver(f, T)
<1>1. IsFiniteSet(Coins(f, S)) /\ IsFiniteSet(Coins(f, T))
  BY CoinsFinite
<1>2. Coins(f, S \cup T) = Coins(f, S) \cup Coins(f, T)
  BY DEF Coins
<1>3. Coins(f, S) \cap Coins(f, T) = {}
  BY DEF Coins
<1>4. Cardinality(Coins(f, S) \cap Coins(f, T)) = 0
  BY <1>3, FS_EmptySet
<1>5. Cardinality(Coins(f, S)) \in Nat /\ Cardinality(Coins(f, T)) \in Nat
  BY <1>1, FS_CardinalityType
<1>6. Cardinality(Coins(f, S) \cup Coins(f, T)) =
        Cardinality(Coins(f, S)) + Cardinality(Coins(f, T)) - Cardinality(Coins(f, S) \cap Coins(f, T))
  BY <1>1, FS_Union
<1>7. Cardinality(Coins(f, S) \cup Coins(f, T)) = Cardinality(Coins(f, S)) + Cardinality(Coins(f, T))
  BY <1>4, <1>5, <1>6
<1>8. QED
  BY <1>2, <1>7, Zenon DEF SumOver

\* One row alone is worth its amount.
LEMMA SumOne ==
  ASSUME NEW x, NEW f, f[x] \in Nat
  PROVE  SumOver(f, {x}) = f[x]
<1>1. Coins(f, {x}) = {x} \X (1 .. f[x])
  BY DEF Coins
<1>2. IsFiniteSet({x}) /\ Cardinality({x}) = 1
  BY FS_Singleton
<1>3. IsFiniteSet(1 .. f[x]) /\ Cardinality(1 .. f[x]) = f[x]
  BY FS_Interval
<1>4. Cardinality({x} \X (1 .. f[x])) = Cardinality({x}) * Cardinality(1 .. f[x])
  BY <1>2, <1>3, FS_Product
<1>5. Cardinality({x} \X (1 .. f[x])) = 1 * f[x]
  BY <1>2, <1>3, <1>4, Zenon
<1>6. 1 * f[x] = f[x]
  OBVIOUS
<1>7. QED
  BY <1>1, <1>5, <1>6, Zenon DEF SumOver

\* A new row adds its amount.
LEMMA SumAdd ==
  ASSUME NEW S, IsFiniteSet(S), NEW x, x \notin S,
         NEW f, \A y \in S \cup {x} : f[y] \in Nat
  PROVE  SumOver(f, S \cup {x}) = SumOver(f, S) + f[x]
<1>1. IsFiniteSet({x}) /\ S \cap {x} = {}
  BY FS_Singleton
<1>2. SumOver(f, S \cup {x}) = SumOver(f, S) + SumOver(f, {x})
  BY <1>1, SumSplit
<1>3. QED
  BY <1>2, SumOne

\* When one row changes, the sum changes by what the row did.
LEMMA SumUpdate ==
  ASSUME NEW S, IsFiniteSet(S), NEW x \in S, NEW f, NEW g,
         \A y \in S : f[y] \in Nat /\ g[y] \in Nat,
         \A y \in S \ {x} : f[y] = g[y]
  PROVE  SumOver(g, S) = SumOver(f, S) - f[x] + g[x]
<1> DEFINE R == S \ {x}
<1>1. IsFiniteSet(R) /\ x \notin R /\ R \cup {x} = S
  BY FS_RemoveElement
<1>2. SumOver(f, S) = SumOver(f, R) + f[x]
  BY <1>1, SumAdd
<1>3. SumOver(g, S) = SumOver(g, R) + g[x]
  BY <1>1, SumAdd
<1>4. SumOver(f, R) = SumOver(g, R)
  BY SumSame
<1>5. SumOver(f, R) \in Nat
  BY <1>1, SumNat
<1>6. QED
  BY <1>2, <1>3, <1>4, <1>5

\* Fewer rows are worth at most as much.
LEMMA SumSubset ==
  ASSUME NEW S, IsFiniteSet(S), NEW T, T \subseteq S,
         NEW f, \A x \in S : f[x] \in Nat
  PROVE  SumOver(f, T) <= SumOver(f, S)
<1>1. IsFiniteSet(T) /\ IsFiniteSet(S \ T) /\ T \cap (S \ T) = {} /\ T \cup (S \ T) = S
  BY FS_Subset
<1>2. SumOver(f, S) = SumOver(f, T) + SumOver(f, S \ T)
  BY <1>1, SumSplit
<1>3. SumOver(f, T) \in Nat /\ SumOver(f, S \ T) \in Nat
  BY <1>1, SumNat
<1>4. QED
  BY <1>2, <1>3

\* An amount that moves from one row to another leaves the sum alone.
LEMMA SumMoved ==
  ASSUME NEW S, IsFiniteSet(S), NEW x \in S, NEW y \in S, x # y,
         NEW f \in [S -> Nat], NEW n \in Nat, n <= f[x],
         NEW g, g[x] = f[x] - n, g[y] = f[y] + n, \A z \in S \ {x, y} : g[z] = f[z]
  PROVE  SumOver(g, S) = SumOver(f, S)
<1> DEFINE h == [f EXCEPT ![x] = @ - n]
<1>1. /\ \A z \in S : f[z] \in Nat /\ g[z] \in Nat /\ h[z] \in Nat
      /\ h[x] = f[x] - n /\ h[y] = f[y]
      /\ \A z \in S \ {x} : f[z] = h[z]
      /\ \A z \in S \ {y} : h[z] = g[z]
  OBVIOUS
<1>2. SumOver(f, S) \in Nat /\ SumOver(g, S) \in Nat /\ SumOver(h, S) \in Nat
  BY <1>1, SumNat
<1> HIDE DEF h
<1>3. SumOver(h, S) = SumOver(f, S) - f[x] + h[x]
  BY <1>1, SumUpdate
<1>4. SumOver(g, S) = SumOver(h, S) - h[y] + g[y]
  BY <1>1, SumUpdate
<1>5. QED
  BY <1>1, <1>2, <1>3, <1>4
=============================================================================
