----------------------------- MODULE VersionLog -----------------------------
(***************************************************************************)
(* What a versioned text promises: versions are numbered from one without  *)
(* gaps, none is ever changed or lost, and the newest one, and no other,   *)
(* is in force.  Publishing and Contracts implement it.                    *)
(***************************************************************************)
EXTENDS Naturals, Sequences

CONSTANT Texts

VARIABLES
    log,        \* the texts of the versions
    inForce     \* the versions in force

LogInit == log = <<>> /\ inForce = {}

NewVersion == \E t \in Texts :
    /\ log' = Append(log, t)
    /\ inForce' = {Len(log) + 1}

LogSpec == LogInit /\ [][NewVersion]_<<log, inForce>>
=============================================================================
