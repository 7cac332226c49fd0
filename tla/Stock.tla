-------------------------------- MODULE Stock --------------------------------
(***************************************************************************)
(* What the rest of the platform relies on the inventory module for: units *)
(* of a stock level are granted to a request, all that were asked for or   *)
(* none of them, and a grant goes back whole, at most once.  Which lots it *)
(* is taken from, and how supplier pushes, adjustments and quarantines     *)
(* change the stock, is left open.                                         *)
(*                                                                         *)
(* Two requests that carry the same id and run at the same time can both   *)
(* find that the id has no rows yet: an id may be granted twice.  These    *)
(* are two grants, and a release of the id gives back those it has seen.   *)
(***************************************************************************)
EXTENDS Counting

CONSTANTS Levels, Grants

VARIABLES
    stock,  \* units of each level that no grant holds
    held,   \* units of each level that each grant holds
    used    \* the grants ever made

stockVars == <<stock, held, used>>

HoldNothing ==
    /\ held = [g \in Grants |-> [v \in Levels |-> 0]]
    /\ used = {}

Init == stock \in [Levels -> Nat] /\ HoldNothing

\* A new grant holds all that was asked for.
Hold(g, v, n) ==
    /\ g \notin used
    /\ stock[v] >= n
    /\ stock' = [stock EXCEPT ![v] = @ - n]
    /\ held' = [held EXCEPT ![g][v] = @ + n]
    /\ used' = used \cup {g}

\* All that the grants in G hold goes back.
GiveBack(G) ==
    /\ stock' = [v \in Levels |->
                   stock[v] + Total([g \in Grants |-> held[g][v]], G)]
    /\ held' = [g \in Grants |-> IF g \in G THEN [v \in Levels |-> 0] ELSE held[g]]
    /\ UNCHANGED used

\* Suppliers, administrators and quarantines change what is not held.
Supply == stock' \in [Levels -> Nat] /\ UNCHANGED <<held, used>>

Next ==
    \/ Supply
    \/ \E g \in Grants, v \in Levels, n \in 1..MaxInt : Hold(g, v, n)
    \/ \E G \in SUBSET used : GiveBack(G)

Spec == Init /\ [][Next]_stockVars
=============================================================================
