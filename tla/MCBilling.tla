----------------------------- MODULE MCBilling -----------------------------
(* Instances of Billing for TLC. *)
EXTENDS Billing, TLC

CONSTANTS c1, c2, r1, r2, s1, s2

OneOfEach == [l \in Lines |-> 1]
OneAndTwo == [l \in Lines |-> l]

Symmetry == Permutations({c1, c2}) \cup Permutations({r1, r2}) \cup Permutations({s1, s2})
=============================================================================
