----------------------------- MODULE MCInventory -----------------------------
(* Instances of Inventory for TLC. *)
EXTENDS Inventory, TLC

CONSTANTS v1, a, b, r1, r2, p1, p2, p3

OneLevel == [l \in Lots |-> v1]

Symmetry == Permutations({r1, r2}) \cup Permutations({p1, p2})
SymmetryOfThree == Permutations({r1, r2}) \cup Permutations({p1, p2, p3})

\* A level stocked by one push per lot, before the first reservation.
Stocked ==
    /\ level = [v \in Levels |-> [exists |-> TRUE, avail |-> Cardinality(Lots),
                                  reserved |-> 0, total |-> Cardinality(Lots)]]
    /\ lot = [l \in Lots |-> [status |-> "active", number |-> IF l = 1 THEN a ELSE b,
                              initial |-> 1, avail |-> 1, reserved |-> 0]]
    /\ res = [r \in Requests |-> [l \in Lots |-> NoRow]]
    /\ record = [l \in Lots |-> [i \in 1..MaxRecords |-> NoRecord]]
    /\ tx = [p \in Procs |-> Idle]

\* From there on nobody pushes, adjusts or quarantines: the run is about what
\* reservations and releases make of several lots.
OnStocked == \E p \in Procs : Reserve(p) \/ Release(p) \/ Rollback(p)

StockedSpec == Stocked /\ [][OnStocked]_vars
=============================================================================
