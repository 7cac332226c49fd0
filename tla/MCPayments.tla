----------------------------- MODULE MCPayments -----------------------------
(***************************************************************************)
(* Instances for TLC of Payments, and of Promotions and Accounts, which    *)
(* share no state with it or with each other.  They are explored one at a  *)
(* time: while one moves, the others are as they started.                  *)
(***************************************************************************)
EXTENDS Payments, Promotions, Accounts, TLC

CONSTANTS i1, i2, e1, f1, a, b, s1, p1, p2, d1, d2, m1, b1, b2, r1, r2

NoLines == [l \in Lines |-> 0]
AllAboutOne == [e \in Events |-> i1]
AllSucceeded == [e \in Events |-> "succeeded"]
OneUnevenCart == [x \in Buyers |-> IF x = b1 THEN <<1, 1, 1>> ELSE <<1, 2>>]
NoCarts == [x \in Buyers |-> <<1>>]

MCPaymentsInit == PaymentsInit /\ PromotionsInit /\ AccountsInit

PaymentsOnly == PromotionsInit /\ AccountsInit
    /\ PaymentsNext /\ UNCHANGED <<promotionVars, accountVars>>
PromotionsOnly == PaymentsInit /\ AccountsInit
    /\ PromotionsNext /\ UNCHANGED <<paymentsVars, accountVars>>
AccountsOnly == PaymentsInit /\ PromotionsInit
    /\ AccountsNext /\ UNCHANGED <<paymentsVars, promotionVars>>

MCPaymentsSpec ==
    /\ MCPaymentsInit
    /\ [][PaymentsOnly \/ PromotionsOnly \/ AccountsOnly]_
         <<paymentsVars, promotionVars, accountVars>>

MCPaymentsTypeOK == PaymentsTypeOK /\ PromotionsTypeOK /\ AccountsTypeOK

Symmetry == Permutations({a, b})
=============================================================================
