--------------------------- MODULE CountingProofs ---------------------------
(* Facts about Total, by counting the units. *)
EXTENDS Counting, FiniteSetTheorems, TLAPS

\* A finite set of rows has finitely many units, so a sum is a number.
LEMMA TotalNat ==
    ASSUME NEW f, NEW S, IsFiniteSet(S)
    PROVE  IsFiniteSet(Units(f, S)) /\ Total(f, S) \in Nat
<1>1. IsFiniteSet(1..MaxInt)
  BY MaxIntAssumption, FS_Interval
<1>2. IsFiniteSet(S \X (1..MaxInt))
  BY <1>1, FS_Product
<1>3. Units(f, S) \in SUBSET (S \X (1..MaxInt))
  BY DEF Units
<1>4. IsFiniteSet(Units(f, S))
  BY <1>2, <1>3, FS_Subset
<1> QED
  BY <1>4, FS_CardinalityType DEF Total

\* Sums depend only on the values that are summed.
LEMMA TotalSame ==
    ASSUME NEW f, NEW g, NEW S, \A x \in S : f[x] = g[x]
    PROVE  Total(f, S) = Total(g, S)
BY DEF Total, Units

\* A sum splits over disjoint parts.
LEMMA TotalSplit ==
    ASSUME NEW f, NEW S, NEW T, IsFiniteSet(S), IsFiniteSet(T), S \cap T = {}
    PROVE  Total(f, S \cup T) = Total(f, S) + Total(f, T)
<1>1. Units(f, S \cup T) = Units(f, S) \cup Units(f, T)
  BY DEF Units
<1>2. Units(f, S) \cap Units(f, T) = {}
  BY DEF Units
<1>3. /\ IsFiniteSet(Units(f, S))
      /\ IsFiniteSet(Units(f, T))
  BY TotalNat
<1>4. Cardinality(Units(f, S) \cup Units(f, T))
        = Total(f, S) + Total(f, T) - Cardinality({})
  BY <1>2, <1>3, FS_Union DEF Total
<1>5. Total(f, S) \in Nat /\ Total(f, T) \in Nat /\ Cardinality({}) = 0
  BY TotalNat, FS_EmptySet
<1>6. Total(f, S \cup T) = Cardinality(Units(f, S) \cup Units(f, T))
  BY <1>1 DEF Total
<1> QED
  BY <1>4, <1>5, <1>6

\* One row contributes its value.
LEMMA TotalOne ==
    ASSUME NEW f, NEW x, f[x] \in Int32
    PROVE  Total(f, {x}) = f[x]
<1>1. f[x] \in Nat /\ f[x] <= MaxInt
  BY MaxIntAssumption DEF Int32
<1>2. Units(f, {x}) = {x} \X (1..f[x])
  BY <1>1, MaxIntAssumption DEF Units
<1>3. IsFiniteSet(1..f[x]) /\ Cardinality(1..f[x]) = f[x]
  <2>1. IsFiniteSet(1..f[x]) /\ Cardinality(1..f[x]) = IF 1 > f[x] THEN 0 ELSE f[x] - 1 + 1
    BY <1>1, FS_Interval
  <2> QED
    BY <1>1, <2>1
<1>4. IsFiniteSet({x}) /\ Cardinality({x}) = 1
  BY FS_Singleton
<1>5. Cardinality({x} \X (1..f[x])) = 1 * f[x]
  <2>1. Cardinality({x} \X (1..f[x])) = Cardinality({x}) * Cardinality(1..f[x])
    BY <1>3, <1>4, FS_Product
  <2> QED
    BY <1>3, <1>4, <2>1
<1>6. Total(f, {x}) = Cardinality({x} \X (1..f[x]))
  BY <1>2 DEF Total
<1> QED
  BY <1>1, <1>5, <1>6

\* Rows of value zero contribute nothing.
LEMMA TotalZero ==
    ASSUME NEW f, NEW S, \A x \in S : f[x] = 0
    PROVE  Total(f, S) = 0
<1>1. Units(f, S) = {}
  BY MaxIntAssumption DEF Units
<1> QED
  BY <1>1, FS_EmptySet DEF Total

\* A sum is its rows in T and the others.
LEMMA TotalPart ==
    ASSUME NEW f, NEW S, NEW T, IsFiniteSet(S), T \subseteq S
    PROVE  Total(f, S) = Total(f, T) + Total(f, S \ T)
<1>1. IsFiniteSet(T) /\ IsFiniteSet(S \ T)
  BY FS_Subset
<1>2. T \cap (S \ T) = {} /\ T \cup (S \ T) = S
  OBVIOUS
<1> QED
  BY <1>1, <1>2, TotalSplit

\* Giving a row that was zero a value adds that value.
LEMMA TotalRaise ==
    ASSUME NEW f, NEW g, NEW S, IsFiniteSet(S), NEW x \in S,
           f[x] = 0, g[x] \in Int32, \A y \in S \ {x} : g[y] = f[y]
    PROVE  Total(g, S) = Total(f, S) + g[x]
<1>1. /\ Total(f, S) = Total(f, {x}) + Total(f, S \ {x})
      /\ Total(g, S) = Total(g, {x}) + Total(g, S \ {x})
  <2>1. {x} \subseteq S
    OBVIOUS
  <2> QED
    BY <2>1, TotalPart
<1>2. Total(f, {x}) = 0
  BY TotalZero
<1>3. Total(g, {x}) = g[x]
  BY TotalOne
<1>4. Total(f, S \ {x}) = Total(g, S \ {x})
  BY TotalSame
<1>5. Total(f, S \ {x}) \in Nat
  <2>1. IsFiniteSet(S \ {x})
    BY FS_Subset
  <2> QED
    BY <2>1, TotalNat
<1> QED
  BY <1>1, <1>2, <1>3, <1>4, <1>5, MaxIntAssumption DEF Int32

\* Setting rows to zero takes away what they had.
LEMMA TotalClear ==
    ASSUME NEW f, NEW g, NEW S, NEW T, IsFiniteSet(S), T \subseteq S,
           \A x \in T : g[x] = 0, \A x \in S \ T : g[x] = f[x]
    PROVE  Total(g, S) = Total(f, S) - Total(f, T)
<1>1. /\ Total(f, S) = Total(f, T) + Total(f, S \ T)
      /\ Total(g, S) = Total(g, T) + Total(g, S \ T)
  BY TotalPart
<1>2. Total(g, T) = 0
  BY TotalZero
<1>3. Total(f, S \ T) = Total(g, S \ T)
  BY TotalSame
<1>4. Total(f, T) \in Nat /\ Total(f, S \ T) \in Nat
  <2>1. IsFiniteSet(T) /\ IsFiniteSet(S \ T)
    BY FS_Subset
  <2> QED
    BY <2>1, TotalNat
<1> QED
  BY <1>1, <1>2, <1>3, <1>4
\* A set of rows adds up to at least what a part of it and one row more do.
LEMMA TotalMonotone ==
    ASSUME NEW f, NEW S, IsFiniteSet(S), NEW T, T \subseteq S, NEW x \in S \ T,
           f[x] \in Int32
    PROVE  Total(f, S) >= Total(f, T) + f[x]
<1>1. /\ IsFiniteSet(T) /\ IsFiniteSet(S \ T)
      /\ Total(f, S) = Total(f, T) + Total(f, S \ T)
  BY TotalPart, FS_Subset
<1>2. /\ IsFiniteSet((S \ T) \ {x})
      /\ Total(f, S \ T) = Total(f, {x}) + Total(f, (S \ T) \ {x})
  <2>1. {x} \subseteq S \ T
    OBVIOUS
  <2> QED
    BY <1>1, <2>1, TotalPart, FS_Subset
<1>3. Total(f, {x}) = f[x]
  BY TotalOne
<1>4. Total(f, T) \in Nat /\ Total(f, (S \ T) \ {x}) \in Nat
  BY <1>1, <1>2, TotalNat
<1>5. f[x] \in Nat
  BY MaxIntAssumption DEF Int32
<1> QED
  BY <1>1, <1>2, <1>3, <1>4, <1>5

-----------------------------------------------------------------------------
(* Induction on finite sets.  The family F holds the sets for which what is *)
(* to be shown is true: the strict subset ordering being well founded, a    *)
(* smallest subset outside it would have an element to take away.           *)

Family(F, S) == F \subseteq SUBSET S /\ F # {}
Minimal(T, F) == T \in F /\ \A U \in F : U \subseteq T => U = T

\* A nonempty family of subsets of a finite set has a minimal member.
LEMMA MinimalSubset ==
    ASSUME NEW S, IsFiniteSet(S), NEW F, Family(F, S)
    PROVE  \E T : Minimal(T, F)
<1>1. IsWellFoundedOn(StrictSubsetOrdering(S), SUBSET S)
  BY FS_StrictSubsetOrderingWellFounded, FS_FiniteSubsetsOfFinite
<1>2. PICK T \in F : \A U \in F : <<U, T>> \notin StrictSubsetOrdering(S)
  BY <1>1, WFMin DEF Family
<1>3. Minimal(T, F)
  BY <1>2 DEF StrictSubsetOrdering, Minimal, Family
<1> QED
  BY <1>3

\* Induction on subsets: the empty set, then one element more.
LEMMA SubsetInduction ==
    ASSUME NEW S, IsFiniteSet(S), NEW F, {} \in F,
           \A T \in SUBSET S, x \in S : T \in F /\ x \notin T => T \cup {x} \in F
    PROVE  S \in F
<1>. SUFFICES ASSUME S \notin F PROVE FALSE
  OBVIOUS
<1> DEFINE Bad == (SUBSET S) \ F
<1>1. Family(Bad, S)
  BY DEF Family
<1>2. PICK T : T \in Bad /\ \A U \in Bad : U \subseteq T => U = T
  <2> HIDE DEF Bad
  <2>1. \E T : Minimal(T, Bad)
    BY <1>1, MinimalSubset
  <2> QED
    BY <2>1 DEF Minimal
<1>3. PICK x \in T : TRUE
  BY <1>2
<1>4. T \ {x} \in F
  BY <1>2
<1>5. (T \ {x}) \cup {x} \in F
  <2>1. T \ {x} \in SUBSET S /\ x \in S /\ x \notin T \ {x}
    BY <1>2
  <2> QED
    BY <1>4, <2>1
<1>6. (T \ {x}) \cup {x} = T
  OBVIOUS
<1> QED
  BY <1>2, <1>5, <1>6

\* A finite nonempty set of numbers has a largest element.
LEMMA LargestNumber ==
    ASSUME NEW S, IsFiniteSet(S), S \subseteq Nat, S # {}
    PROVE  \E m \in S : \A k \in S : k <= m
<1> DEFINE F == {{k \in S : k >= m} : m \in S}
<1>1. Family(F, S)
  BY DEF Family
<1>2. PICK T : T \in F /\ \A U \in F : U \subseteq T => U = T
  <2> HIDE DEF F
  <2>1. \E T : Minimal(T, F)
    BY <1>1, MinimalSubset
  <2> QED
    BY <2>1 DEF Minimal
<1>3. PICK m \in S : T = {k \in S : k >= m}
  BY <1>2
<1>4. ASSUME NEW j \in S PROVE j <= m
  <2>1. SUFFICES ASSUME j > m PROVE FALSE
    BY <1>4
  <2>2. {k \in S : k >= j} \in F
    BY <1>4
  <2>4. {k \in S : k >= j} \subseteq T
    <3>1. j \in Nat /\ m \in Nat /\ j > m
      BY <1>3, <1>4, <2>1
    <3>2. \A k \in Nat : k >= j => k >= m
      BY <3>1
    <3> QED
      BY <1>3, <3>2
  <2>3. m \in T /\ m \notin {k \in S : k >= j}
    BY <2>1, <1>3, <1>4
  <2> QED
    BY <2>2, <2>3, <2>4, <1>2
<1> QED
  BY <1>4

\* Induction on sets of numbers, the largest one added last.
LEMMA AscendingInduction ==
    ASSUME NEW S, IsFiniteSet(S), S \subseteq Nat, NEW F, {} \in F,
           \A T \in SUBSET S, x \in S :
              T \in F /\ (\A y \in T : y < x) => T \cup {x} \in F
    PROVE  S \in F
<1>. SUFFICES ASSUME S \notin F PROVE FALSE
  OBVIOUS
<1> DEFINE Bad == (SUBSET S) \ F
<1>1. Family(Bad, S)
  BY DEF Family
<1>2. PICK T : T \in Bad /\ \A U \in Bad : U \subseteq T => U = T
  <2> HIDE DEF Bad
  <2>1. \E T : Minimal(T, Bad)
    BY <1>1, MinimalSubset
  <2> QED
    BY <2>1 DEF Minimal
<1>3. PICK x \in T : \A y \in T : y <= x
  <2>1. IsFiniteSet(T) /\ T \subseteq Nat /\ T # {}
    BY <1>2, FS_Subset
  <2> QED
    BY <2>1, LargestNumber
<1>4. T \ {x} \in F
  BY <1>2
<1>5. \A y \in T \ {x} : y < x
  <2>1. T \subseteq Nat
    BY <1>2
  <2>2. \A y \in T : y \in Nat /\ x \in Nat /\ y <= x
    BY <1>3, <2>1
  <2> QED
    BY <2>2
<1>6. (T \ {x}) \cup {x} \in F
  <2>1. T \ {x} \in SUBSET S /\ x \in S
    BY <1>2
  <2> QED
    BY <1>4, <1>5, <2>1
<1>7. (T \ {x}) \cup {x} = T
  OBVIOUS
<1> QED
  BY <1>2, <1>6, <1>7

-----------------------------------------------------------------------------
\* One row more adds its value.
LEMMA TotalInsert ==
    ASSUME NEW f, NEW S, IsFiniteSet(S), NEW x, x \notin S, f[x] \in Int32
    PROVE  Total(f, S \cup {x}) = Total(f, S) + f[x]
<1>1. IsFiniteSet({x}) /\ S \cap {x} = {}
  BY FS_Singleton
<1>2. Total(f, S \cup {x}) = Total(f, S) + Total(f, {x})
  BY <1>1, TotalSplit
<1> QED
  BY <1>2, TotalOne

\* A sum of INT columns over n rows is at most n times the largest INT.
LEMMA TotalBound ==
    ASSUME NEW f, NEW S, IsFiniteSet(S)
    PROVE  /\ MaxInt * Cardinality(S) \in Nat
           /\ Total(f, S) <= MaxInt * Cardinality(S)
<1>1. IsFiniteSet(1..MaxInt) /\ Cardinality(1..MaxInt) = MaxInt
  BY MaxIntAssumption, FS_Interval
<1>2. /\ IsFiniteSet(S \X (1..MaxInt))
      /\ Cardinality(S \X (1..MaxInt)) = Cardinality(S) * MaxInt
  BY <1>1, FS_Product
<1>3. Units(f, S) \in SUBSET (S \X (1..MaxInt))
  BY DEF Units
<1>4. Total(f, S) <= Cardinality(S) * MaxInt
  BY <1>2, <1>3, FS_Subset DEF Total
<1>5. Cardinality(S) \in Nat
  BY FS_CardinalityType
<1> QED
  BY <1>4, <1>5, MaxIntAssumption

\* Sums of two columns add up to the sum of the rows' sums.
LEMMA TotalAdd ==
    ASSUME NEW S, IsFiniteSet(S), NEW f, NEW g, NEW h,
           \A x \in S : /\ f[x] \in Int32 /\ g[x] \in Int32 /\ h[x] \in Int32
                       /\ h[x] = f[x] + g[x]
    PROVE  Total(h, S) = Total(f, S) + Total(g, S)
<1> DEFINE F == {T \in SUBSET S : Total(h, T) = Total(f, T) + Total(g, T)}
<1>1. {} \in F
  <2>1. Total(f, {}) = 0 /\ Total(g, {}) = 0 /\ Total(h, {}) = 0
    BY TotalZero
  <2> QED
    BY <2>1
<1>2. ASSUME NEW T \in SUBSET S, NEW x \in S, T \in F, x \notin T
      PROVE  T \cup {x} \in F
  <2>1. IsFiniteSet(T)
    BY FS_Subset
  <2>2. /\ Total(f, T \cup {x}) = Total(f, T) + f[x]
        /\ Total(g, T \cup {x}) = Total(g, T) + g[x]
        /\ Total(h, T \cup {x}) = Total(h, T) + h[x]
    BY <1>2, <2>1, TotalInsert
  <2>3. Total(f, T) \in Nat /\ Total(g, T) \in Nat
    BY <2>1, TotalNat
  <2>4. Total(h, T) = Total(f, T) + Total(g, T) /\ h[x] = f[x] + g[x]
    BY <1>2
  <2>5. f[x] \in Nat /\ g[x] \in Nat
    BY MaxIntAssumption DEF Int32
  <2> HIDE DEF F
  <2>6. Total(h, T \cup {x}) = Total(f, T \cup {x}) + Total(g, T \cup {x})
    BY <2>2, <2>3, <2>4, <2>5
  <2> QED
    BY <2>6 DEF F
<1>3. S \in F
  <2> HIDE DEF F
  <2> QED
    BY <1>1, <1>2, SubsetInduction
<1> QED
  BY <1>3

\* Going through rows in ascending order and taking from each what the ones
\* before it could not give, all of them together give q, or all they have.
LEMMA TotalGreedy ==
    ASSUME NEW S, IsFiniteSet(S), S \subseteq Nat, NEW f, NEW g, NEW q \in Nat,
           \A x \in S : f[x] \in Int32,
           \A x \in S : g[x] = AtMost(f[x], AtLeastZero(q - Total(f, {y \in S : y < x})))
    PROVE  Total(g, S) = AtMost(q, Total(f, S))
<1> DEFINE Initial(T) == \A x \in T, y \in S : y < x => y \in T
           F == {T \in SUBSET S : Initial(T) => Total(g, T) = AtMost(q, Total(f, T))}
<1>1. {} \in F
  <2>1. Total(f, {}) = 0 /\ Total(g, {}) = 0
    BY TotalZero
  <2> QED
    BY <2>1 DEF AtMost
<1>2. ASSUME NEW T \in SUBSET S, NEW x \in S, T \in F, \A y \in T : y < x
      PROVE  T \cup {x} \in F
  <2>1. SUFFICES ASSUME Initial(T \cup {x})
                 PROVE  Total(g, T \cup {x}) = AtMost(q, Total(f, T \cup {x}))
    OBVIOUS
  <2>2. x \in Nat /\ x \notin T /\ T \subseteq Nat
    BY <1>2
  <2>3. T = {y \in S : y < x}
    <3>1. \A y \in S : y < x => y \in T
      <4>1. \A y \in S : y < x => y \in T \cup {x} /\ y # x
        BY <2>1, <2>2
      <4> QED
        BY <4>1
    <3>2. \A y \in T : y \in S /\ y < x
      BY <1>2
    <3> QED
      BY <3>1, <3>2
  <2>4. Initial(T)
    BY <2>2, <2>3
  <2>5. Total(g, T) = AtMost(q, Total(f, T))
    BY <1>2, <2>4
  <2>6. IsFiniteSet(T)
    BY FS_Subset
  <2>7. f[x] \in Nat /\ f[x] <= MaxInt /\ Total(f, T) \in Nat
    BY <2>6, TotalNat, MaxIntAssumption DEF Int32
  <2>8. g[x] = AtMost(f[x], AtLeastZero(q - Total(f, T)))
    BY <2>3
  <2>9. g[x] \in Int32
    BY <2>7, <2>8, MaxIntAssumption DEF Int32, AtMost, AtLeastZero
  <2>10. /\ Total(f, T \cup {x}) = Total(f, T) + f[x]
         /\ Total(g, T \cup {x}) = Total(g, T) + g[x]
    BY <2>2, <2>6, <2>9, TotalInsert
  <2> HIDE DEF F
  <2> QED
    BY <2>5, <2>7, <2>8, <2>10 DEF AtMost, AtLeastZero
<1>3. S \in F
  <2> HIDE DEF F
  <2> QED
    BY <1>1, <1>2, AscendingInduction
<1>4. Initial(S)
  OBVIOUS
<1> QED
  BY <1>3, <1>4
=============================================================================
