----------------------------- MODULE MCCheckout -----------------------------
(* Instances of Checkout for TLC. *)
EXTENDS Checkout, TLC

CONSTANTS b1, b2, k1, k2, x1, x2, s1, s2, s3

OneSupplierEach == [p \in Products |-> p]

FullStock == Init /\ stock = [p \in Products |-> MaxStock]

\* Nobody outside checkout changes the stock: what is short stays short until
\* it is given back.
FixedStock == FullStock /\ [][Handlers]_vars

Symmetry ==
    Permutations({s1, s2}) \cup Permutations({k1, k2}) \cup Permutations({b1, b2})
SessionSymmetry == Permutations({s1, s2, s3}) \cup Permutations({k1, k2})
=============================================================================
