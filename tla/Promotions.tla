----------------------------- MODULE Promotions -----------------------------
(***************************************************************************)
(* A promotion and the discounts given on it: administrators edit it -     *)
(* each request reads the row, checks, and writes the fields it was given, *)
(* in two statements of their own - while buyers check out, a checkout     *)
(* computing its discount before the transaction that redeems it.          *)
(*                                                                         *)
(* A buyer's cart is the list of its suppliers' subtotals, and each buyer  *)
(* checks out until one order set is placed, one request at a time (module *)
(* Checkout has the others).  A promotion's window is open or it is not.   *)
(***************************************************************************)
EXTENDS Counting, Sequences

CONSTANTS
    Admins, Buyers,
    Subtotals,      \* Subtotals[b]: what b's cart costs, per supplier
    Values,         \* value_minor: an amount, or a percentage
    Budgets         \* max_redemptions

ASSUME BuyersAssumption == IsFiniteSet(Buyers)
ASSUME SubtotalsAssumption == Subtotals \in [Buyers -> Seq(1..MaxInt) \ {<<>>}]
ASSUME ValuesAssumption == Values \subseteq Nat \ {0} /\ Budgets \subseteq Nat \ {0}

VARIABLES
    promotion,  \* promotions.promotion
    edit,       \* edit[a]: the administrator's request, between read and write
    placing,    \* placing[b]: the buyer's checkout, after it has its discount
    orders      \* orders[b]: discounts_minor of the placed orders, by supplier

promotionVars == <<promotion, edit, placing, orders>>

-----------------------------------------------------------------------------
PromotionStatuses == {"draft", "published", "archived"}
Unlimited == 0
NoPlacing == [discount |-> -1]

\* A request names the fields to write; those that it leaves out are kept.
Kept == "kept"
Unset == 0
NoEdit == [status |-> Kept, value |-> Unset, max |-> Unset]

NoPromotion == [status |-> "none", kind |-> "none", value |-> 0, max |-> Unlimited,
                redeemed |-> 0, open |-> FALSE]

PromotionsInit ==
    /\ promotion = NoPromotion
    /\ edit = [a \in Admins |-> NoEdit]
    /\ placing = [b \in Buyers |-> NoPlacing]
    /\ orders = [b \in Buyers |-> <<>>]

-----------------------------------------------------------------------------
(* Administration *)

CreatePromotion ==
    /\ promotion = NoPromotion
    /\ promotion' \in [status : {"draft"}, kind : {"percent", "fixed"}, value : Values,
                       max : Budgets \cup {Unlimited}, redeemed : {0}, open : BOOLEAN]
    /\ promotion'.kind = "percent" => promotion'.value <= 100
    /\ UNCHANGED <<edit, placing, orders>>

validPromotionTransition(from, to) ==
    \/ from = "draft" /\ to \in {"published", "archived"}
    \/ from = "published" /\ to = "archived"

\* What a request may ask to write, by the row it has read.  A percentage
\* above 100 is no value; a budget is set, raised or lowered, never cleared.
\* An edit of the window is a WindowMoves.
Edits(read) ==
    [status : {Kept} \cup {s \in PromotionStatuses : validPromotionTransition(read.status, s)},
     value : {Unset} \cup {v \in Values : read.kind = "percent" => v <= 100},
     max : {Unset} \cup Budgets]

UpdatePromotionRead(a) ==
    /\ edit[a] = NoEdit /\ promotion # NoPromotion
    /\ \E fields \in Edits(promotion) : edit' = [edit EXCEPT ![a] = fields]
    /\ UNCHANGED <<promotion, placing, orders>>

\* The statement does not repeat the checks.
UpdatePromotionWrite(a) ==
    LET e == edit[a]
    IN  /\ e # NoEdit
        /\ promotion' = [promotion EXCEPT
               !.status = IF e.status = Kept THEN @ ELSE e.status,
               !.value = IF e.value = Unset THEN @ ELSE e.value,
               !.max = IF e.max = Unset THEN @ ELSE e.max]
        /\ edit' = [edit EXCEPT ![a] = NoEdit]
        /\ UNCHANGED <<placing, orders>>

\* Time passes, or an administrator moves the window.
WindowMoves ==
    /\ promotion # NoPromotion
    /\ promotion' = [promotion EXCEPT !.open = ~@]
    /\ UNCHANGED <<edit, placing, orders>>

-----------------------------------------------------------------------------
(* Checkout *)

HasRedeemed(b) == orders[b] # <<>>
HasBudget == promotion.max # Unlimited => promotion.redeemed < promotion.max
Redeemable == promotion.status = "published" /\ promotion.open /\ HasBudget

Worth(subtotals) == Total(subtotals, DOMAIN subtotals)

ComputeDiscount(p, subtotal) ==
    LET discount == IF p.kind = "percent" THEN (subtotal * p.value) \div 100 ELSE p.value
    IN  IF discount > subtotal THEN subtotal ELSE discount

\* The first of the largest subtotals.
Largest(subtotals) == CHOOSE i \in DOMAIN subtotals :
    /\ \A j \in DOMAIN subtotals : subtotals[j] <= subtotals[i]
    /\ \A j \in 1..(i - 1) : subtotals[j] < subtotals[i]

\* Test variant: the remainder is dropped.
SplitWithoutRemainder(subtotals, discount) ==
    [i \in DOMAIN subtotals |-> (discount * subtotals[i]) \div Worth(subtotals)]

\* Shares in proportion, rounded down; the rest goes to the largest.
splitDiscount(subtotals, discount) ==
    LET share == [i \in DOMAIN subtotals |-> (discount * subtotals[i]) \div Worth(subtotals)]
    IN  [share EXCEPT ![Largest(subtotals)] = @ + discount - Worth(share)]

\* ValidateVoucher and the discount, before anything is locked.
ValidateVoucher(b) ==
    /\ placing[b] = NoPlacing
    /\ Redeemable /\ ~HasRedeemed(b)
    /\ placing' = [placing EXCEPT ![b] =
           [discount |-> ComputeDiscount(promotion, Worth(Subtotals[b]))]]
    /\ UNCHANGED <<promotion, edit, orders>>

\* total_minor >= 0 of every order row.
TotalsCheck(subtotals, shares) == \A i \in DOMAIN subtotals : shares[i] <= subtotals[i]

\* ConsumeBudget and the order rows, one transaction.
CreateOrderSet(b) ==
    LET shares == splitDiscount(Subtotals[b], placing[b].discount)
    IN  /\ placing[b] # NoPlacing /\ ~HasRedeemed(b)
        /\ Redeemable
        /\ TotalsCheck(Subtotals[b], shares)
        /\ promotion' = [promotion EXCEPT !.redeemed = @ + 1]
        /\ orders' = [orders EXCEPT ![b] = shares]
        /\ UNCHANGED <<edit, placing>>

\* A guard of the transaction fails, or the request stops: nothing is kept.
CheckoutFails(b) ==
    /\ placing[b] # NoPlacing /\ ~HasRedeemed(b)
    /\ placing' = [placing EXCEPT ![b] = NoPlacing]
    /\ UNCHANGED <<promotion, edit, orders>>

PromotionsNext ==
    \/ CreatePromotion
    \/ \E a \in Admins : UpdatePromotionRead(a) \/ UpdatePromotionWrite(a)
    \/ WindowMoves
    \/ \E b \in Buyers : ValidateVoucher(b) \/ CreateOrderSet(b) \/ CheckoutFails(b)

-----------------------------------------------------------------------------
EditType == [status : PromotionStatuses \cup {Kept}, value : Values \cup {Unset},
             max : Budgets \cup {Unset}]
PromotionType == [status : PromotionStatuses, kind : {"percent", "fixed"}, value : Values,
                  max : Budgets \cup {Unlimited}, redeemed : Nat, open : BOOLEAN]

\* Every variable has the form its table gives it.
PromotionsTypeOK ==
    /\ promotion \in {NoPromotion} \cup PromotionType
    /\ edit \in [Admins -> EditType]
    /\ placing \in [Buyers -> {NoPlacing} \cup [discount : Nat]]
    /\ \A b \in Buyers : placing[b].discount <= Worth(Subtotals[b])
    /\ orders \in [Buyers -> Seq(0..MaxInt)]

\* The orders of a checkout share out exactly the discount the checkout
\* computed, none is charged less than nothing for it, and the promotion has
\* counted one redemption for each checkout that redeemed it - whatever was
\* edited between the discount and the orders (createOrderSet, splitDiscount
\* and the CHECK on total_minor).
DiscountsAddUp ==
    /\ \A b \in Buyers : HasRedeemed(b) =>
           /\ Worth(orders[b]) = placing[b].discount
           /\ \A i \in DOMAIN orders[b] : orders[b][i] \in 0..Subtotals[b][i]
    /\ promotion.redeemed = Cardinality({b \in Buyers : HasRedeemed(b)})
=============================================================================
