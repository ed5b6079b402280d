--------------------------- MODULE TotalsTheorems ---------------------------
(***************************************************************************)
(* Lemmas about byte sums: they are natural numbers, grow by one term when *)
(* an element is added, split over disjoint sets and are monotone.         *)
(***************************************************************************)
EXTENDS Totals, FiniteSetTheorems, TLAPS

\* The cells of one element are as many as its size.
LEMMA OneElement ==
  ASSUME NEW x, NEW n \in Nat
  PROVE  /\ IsFiniteSet({x} \X (1 .. n))
         /\ Cardinality({x} \X (1 .. n)) = n
<1>1. IsFiniteSet({x}) /\ Cardinality({x}) = 1
  BY FS_Singleton
<1>2. IsFiniteSet(1 .. n) /\ Cardinality(1 .. n) = n
  BY FS_Interval
<1>3. /\ IsFiniteSet({x} \X (1 .. n))
      /\ Cardinality({x} \X (1 .. n)) = Cardinality({x}) * Cardinality(1 .. n)
  BY <1>1, <1>2, FS_Product, Zenon
<1>4. Cardinality({x} \X (1 .. n)) = 1 * n
  BY <1>1, <1>2, <1>3
<1> QED
  BY <1>3, <1>4

\* A finite family of sizes occupies finitely many cells.
LEMMA CellsFinite ==
  ASSUME NEW S, IsFiniteSet(S), NEW w, \A x \in S : w[x] \in Nat
  PROVE  IsFiniteSet(Cells(S, w))
<1> DEFINE T == {{x} \X (1 .. w[x]) : x \in S}
           f == [x \in S |-> {x} \X (1 .. w[x])]
<1>1. f \in Surjection(S, T)
  BY DEF Surjection
<1>2. IsFiniteSet(T)
  BY <1>1, FS_Surjection
<1>3. ASSUME NEW x \in S
      PROVE  IsFiniteSet({x} \X (1 .. w[x]))
  <2>1. w[x] \in Nat
    OBVIOUS
  <2> QED
    BY <2>1, OneElement, Zenon
<1>4. \A t \in T : IsFiniteSet(t)
  BY <1>3, Zenon
<1> QED
  BY <1>2, <1>4, FS_UNION, Zenon DEF Cells

\* A sum of sizes is a natural number.
THEOREM TotalType ==
  ASSUME NEW S, IsFiniteSet(S), NEW w, \A x \in S : w[x] \in Nat
  PROVE  Total(S, w) \in Nat
BY CellsFinite, FS_CardinalityType DEF Total

\* The empty sum is zero.
THEOREM TotalEmpty ==
  ASSUME NEW w
  PROVE  Total({}, w) = 0
<1>1. Cells({}, w) = {}
  BY DEF Cells
<1> QED
  BY <1>1, FS_EmptySet DEF Total

\* A sum of zeros is zero.
THEOREM TotalZero ==
  ASSUME NEW S, NEW w, \A x \in S : w[x] = 0
  PROVE  Total(S, w) = 0
<1>1. \A x \in S : {x} \X (1 .. w[x]) = {}
  OBVIOUS
<1>2. Cells(S, w) = {}
  BY <1>1 DEF Cells
<1> QED
  BY <1>2, FS_EmptySet DEF Total

\* The sum over two disjoint sets is the sum of the two sums.
THEOREM TotalUnion ==
  ASSUME NEW S, IsFiniteSet(S), NEW T, IsFiniteSet(T), S \cap T = {},
         NEW w, \A x \in S \cup T : w[x] \in Nat
  PROVE  Total(S \cup T, w) = Total(S, w) + Total(T, w)
<1>1. IsFiniteSet(Cells(S, w)) /\ IsFiniteSet(Cells(T, w))
  BY CellsFinite
<1>2. Cells(S, w) \cap Cells(T, w) = {}
  BY DEF Cells
<1>3. Cardinality(Cells(S, w) \cup Cells(T, w))
        = Cardinality(Cells(S, w)) + Cardinality(Cells(T, w)) - Cardinality({})
  BY <1>1, <1>2, FS_Union
<1>4. Cardinality({}) = 0
  BY FS_EmptySet
<1>5. Cardinality(Cells(S, w)) \in Nat /\ Cardinality(Cells(T, w)) \in Nat
  BY <1>1, FS_CardinalityType
<1>6. Cells(S \cup T, w) = Cells(S, w) \cup Cells(T, w)
  BY DEF Cells
<1>7. Total(S \cup T, w) = Cardinality(Cells(S, w) \cup Cells(T, w))
  BY <1>6 DEF Total
<1> QED
  BY <1>3, <1>4, <1>5, <1>7 DEF Total

\* The sum over one element is its size.
THEOREM TotalOne ==
  ASSUME NEW x, NEW w, w[x] \in Nat
  PROVE  Total({x}, w) = w[x]
<1>1. Cells({x}, w) = {x} \X (1 .. w[x])
  BY DEF Cells
<1> QED
  BY <1>1, OneElement DEF Total

\* Adding an element adds its size.
THEOREM TotalAdd ==
  ASSUME NEW S, IsFiniteSet(S), NEW x, x \notin S,
         NEW w, w[x] \in Nat, \A y \in S : w[y] \in Nat
  PROVE  Total(S \cup {x}, w) = Total(S, w) + w[x]
<1>1. IsFiniteSet({x})
  BY FS_Singleton
<1> DEFINE T == {x}
<1>2. IsFiniteSet(T) /\ S \cap T = {} /\ \A y \in S \cup T : w[y] \in Nat
  BY <1>1
<1>3. Total(S \cup T, w) = Total(S, w) + Total(T, w)
  <2> HIDE DEF T
  <2> QED
    BY <1>2, TotalUnion
<1>4. Total({x}, w) = w[x]
  BY TotalOne, Zenon
<1> QED
  BY <1>3, <1>4

\* Removing an element removes its size.
THEOREM TotalRemove ==
  ASSUME NEW S, IsFiniteSet(S), NEW x \in S, NEW w, \A y \in S : w[y] \in Nat
  PROVE  Total(S \ {x}, w) = Total(S, w) - w[x]
<1>1. IsFiniteSet(S \ {x})
  BY FS_RemoveElement
<1>2. Total((S \ {x}) \cup {x}, w) = Total(S \ {x}, w) + w[x]
  BY <1>1, TotalAdd
<1>3. (S \ {x}) \cup {x} = S
  OBVIOUS
<1>4. Total(S \ {x}, w) \in Nat
  BY <1>1, TotalType
<1>5. w[x] \in Nat
  OBVIOUS
<1>6. Total(S, w) = Total(S \ {x}, w) + w[x]
  BY <1>2, <1>3, Zenon
<1> QED
  BY <1>4, <1>5, <1>6

\* A smaller set has a smaller sum.
THEOREM TotalMonotone ==
  ASSUME NEW S, IsFiniteSet(S), NEW T \in SUBSET S,
         NEW w, \A x \in S : w[x] \in Nat
  PROVE  Total(T, w) <= Total(S, w)
<1>1. IsFiniteSet(Cells(S, w))
  BY CellsFinite
<1>2. Cells(T, w) \subseteq Cells(S, w)
  BY DEF Cells
<1> QED
  BY <1>1, <1>2, FS_Subset DEF Total

\* Any two sets, disjoint or not, sum to at most the sum of the two sums.
THEOREM TotalSubadditive ==
  ASSUME NEW S, IsFiniteSet(S), NEW T, IsFiniteSet(T),
         NEW w, \A x \in S \cup T : w[x] \in Nat
  PROVE  Total(S \cup T, w) <= Total(S, w) + Total(T, w)
<1>1. IsFiniteSet(T \ S)
  BY FS_Difference
<1>2. Total(S \cup (T \ S), w) = Total(S, w) + Total(T \ S, w)
  BY <1>1, TotalUnion
<1>3. S \cup (T \ S) = S \cup T
  OBVIOUS
<1>4. Total(T \ S, w) <= Total(T, w)
  BY TotalMonotone
<1>5. /\ Total(S, w) \in Nat
      /\ Total(T, w) \in Nat
      /\ Total(T \ S, w) \in Nat
  BY <1>1, TotalType
<1>6. Total(S \cup T, w) = Total(S, w) + Total(T \ S, w)
  BY <1>2, <1>3, Zenon
<1> QED
  BY <1>4, <1>5, <1>6

\* A sum depends only on the sizes of the elements summed.
THEOREM TotalSame ==
  ASSUME NEW S, NEW w, NEW v, \A x \in S : w[x] = v[x]
  PROVE  Total(S, w) = Total(S, v)
<1>1. Cells(S, w) = Cells(S, v)
  BY DEF Cells
<1> QED
  BY <1>1 DEF Total

\* Smaller sizes make a smaller sum.
THEOREM TotalLess ==
  ASSUME NEW S, IsFiniteSet(S), NEW w, NEW v,
         \A x \in S : w[x] \in Nat /\ v[x] \in Nat /\ w[x] <= v[x]
  PROVE  Total(S, w) <= Total(S, v)
<1>1. IsFiniteSet(Cells(S, v))
  BY CellsFinite
<1>2. \A x \in S : {x} \X (1 .. w[x]) \subseteq {x} \X (1 .. v[x])
  OBVIOUS
<1>3. ASSUME NEW c \in Cells(S, w)
      PROVE  c \in Cells(S, v)
  <2>1. PICK x \in S : c \in {x} \X (1 .. w[x])
    BY DEF Cells
  <2>2. c \in {x} \X (1 .. v[x])
    BY <1>2, <2>1
  <2> QED
    BY <2>2 DEF Cells
<1> QED
  BY <1>1, <1>3, FS_Subset DEF Total

\* w with one more for each member of T.
Raised(S, w, T) == [x \in S |-> IF x \in T THEN w[x] + 1 ELSE w[x]]

\* One more for each of some elements adds as many as they are.
THEOREM TotalRaised ==
  ASSUME NEW S, IsFiniteSet(S), NEW T \in SUBSET S,
         NEW w, \A x \in S : w[x] \in Nat
  PROVE  Total(S, Raised(S, w, T)) = Total(S, w) + Cardinality(T)
<1> DEFINE top == {<<x, w[x] + 1>> : x \in T}
           f   == [x \in T |-> <<x, w[x] + 1>>]
           v   == Raised(S, w, T)
<1>1. IsFiniteSet(T) /\ Cardinality(T) \in Nat
  BY FS_Subset, FS_CardinalityType
<1>2. IsFiniteSet(top) /\ Cardinality(top) = Cardinality(T)
  <2>1. f \in Bijection(T, top)
    BY DEF Bijection, Injection, Surjection, IsInjective
  <2> HIDE DEF f, top
  <2>2. ExistsBijection(T, top)
    BY <2>1 DEF ExistsBijection
  <2> QED
    BY <1>1, <2>2, FS_Bijection
<1>3. IsFiniteSet(Cells(S, w)) /\ Total(S, w) \in Nat
  BY CellsFinite, TotalType
<1>4. \A x \in S : v[x] = IF x \in T THEN w[x] + 1 ELSE w[x]
  BY DEF Raised
<1> HIDE DEF v
<1>5. \A c : c \in Cells(S, w) <=> \E x \in S : \E i \in 1 .. w[x] : c = <<x, i>>
  BY DEF Cells
<1>6. \A c : c \in Cells(S, v) <=> \E x \in S : \E i \in 1 .. v[x] : c = <<x, i>>
  BY DEF Cells
<1>7. \A c : c \in top <=> \E x \in T : c = <<x, w[x] + 1>>
  OBVIOUS
<1> HIDE DEF top
<1>8. Cells(S, v) = Cells(S, w) \cup top
  <2>1. ASSUME NEW x \in S, NEW i \in 1 .. v[x]
        PROVE  i \in 1 .. w[x] \/ (x \in T /\ i = w[x] + 1)
    BY <1>4, <2>1
  <2>2. Cells(S, v) \subseteq Cells(S, w) \cup top
    BY <1>5, <1>6, <1>7, <2>1
  <2>3. ASSUME NEW x \in S, NEW i \in 1 .. w[x]
        PROVE  i \in 1 .. v[x]
    BY <1>4, <2>3
  <2>4. ASSUME NEW x \in T
        PROVE  w[x] + 1 \in 1 .. v[x]
    BY <1>4, <2>4
  <2>5. Cells(S, w) \cup top \subseteq Cells(S, v)
    BY <1>5, <1>6, <1>7, <2>3, <2>4
  <2> QED
    BY <2>2, <2>5
<1>9. Cells(S, w) \cap top = {}
  BY <1>5, <1>7
<1>10. Cardinality(Cells(S, w) \cup top) = Cardinality(Cells(S, w)) + Cardinality(top)
  <2>1. Cardinality(Cells(S, w) \cap top) = 0
    BY <1>9, FS_EmptySet
  <2>2. /\ Cardinality(Cells(S, w)) \in Nat /\ IsFiniteSet(Cells(S, w))
        /\ Cardinality(top) \in Nat /\ IsFiniteSet(top)
    BY <1>1, <1>2, <1>3 DEF Total
  <2> DEFINE U == Cells(S, w)
  <2> HIDE DEF U
  <2>3. Cardinality(U \cup top) = Cardinality(U) + Cardinality(top) - Cardinality(U \cap top)
    BY <2>2, FS_Union DEF U
  <2> QED
    BY <2>1, <2>2, <2>3 DEF U
<1> QED
  BY <1>2, <1>8, <1>10 DEF Total, v
=============================================================================
