------------------------------ MODULE MCOrders ------------------------------
(* Instances of Orders for TLC. *)
EXTENDS Orders, TLC

CONSTANTS o1, x1, x2, h1, h2, h3, s1, s2

TwoOfOneOneOfTheOther ==
    [o \in Orders |-> [p \in Products |-> IF p = x1 THEN 2 ELSE 1]]
OneOfEach == [o \in Orders |-> [p \in Products |-> 1]]

Symmetry == Permutations({h1, h2, h3}) \cup Permutations({s1, s2})
=============================================================================
