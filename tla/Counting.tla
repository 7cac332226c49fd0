------------------------------ MODULE Counting ------------------------------
(***************************************************************************)
(* Sums of INT columns over sets of rows.  A sum is the number of units it *)
(* counts, one for every x and every i with 1 <= i <= f[x]: the library's  *)
(* facts about cardinality are then facts about sums.                      *)
(***************************************************************************)
EXTENDS Integers, FiniteSets

CONSTANT MaxInt     \* the largest value of an INT column

ASSUME MaxIntAssumption == MaxInt \in Nat

\* What an INT column with CHECK (... >= 0) holds.
Int32 == 0..MaxInt

Units(f, S) == {u \in S \X (1..MaxInt) : u[2] <= f[u[1]]}
Total(f, S) == Cardinality(Units(f, S))

\* The sum of values read into Go's int32.
Wrapped(n) == ((n + MaxInt + 1) % (2 * (MaxInt + 1))) - (MaxInt + 1)

AtMost(m, n) == IF m <= n THEN m ELSE n
AtLeastZero(n) == IF n < 0 THEN 0 ELSE n
=============================================================================
