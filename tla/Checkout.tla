------------------------------ MODULE Checkout ------------------------------
(***************************************************************************)
(* Checkout: a buyer's cart becomes one order per supplier, with stock     *)
(* held for every line, under an idempotency key the client chooses.       *)
(*                                                                         *)
(* A checkout is a chain of transactions: claim the key, validate, hold    *)
(* each line in the inventory module, and commit the orders; a failure     *)
(* after the claim gives the held stock back and deletes the claim.  The   *)
(* chain may stop anywhere: the process dies, the client disconnects, or   *)
(* the 60 s request timeout cancels every call still to come.              *)
(*                                                                         *)
(* A claim pending for five minutes may be taken over.  Since a request    *)
(* lives 60 s at most, its owner has stopped by then.                      *)
(***************************************************************************)
EXTENDS Counting

CONSTANTS
    Buyers, Keys, Products, Suppliers,
    SupplierOf,     \* the supplier of each product
    Sessions,       \* concurrent requests
    Budget,         \* the promotion's max_redemptions
    MaxQty,         \* bound: the largest quantity of a cart line
    MaxClaims,      \* bound: idempotency claims ever inserted
    MaxStock        \* bound: what suppliers ever stock of a product

ASSUME SupplierOfAssumption == SupplierOf \in [Products -> Suppliers]
ASSUME FiniteAssumption == IsFiniteSet(Products)
ASSUME CheckoutBounds == /\ Budget \in Nat /\ MaxQty \in Nat
                         /\ MaxClaims \in Nat /\ MaxStock \in Nat

VARIABLES
    cart,       \* commerce.cart and its active lines: quantity per product
    claim,      \* commerce.checkout_idempotency, per buyer and key
    claims,     \* the last id given to a claim
    orders,     \* commerce.order with its lines
    redeemed,   \* promotions.promotion.redeemed_count
    stock, held, used,  \* the inventory module, see Stock
    session     \* what each request has read, and how far it has come

commerce == <<cart, claim, claims, orders, redeemed>>
inventory == <<stock, held, used>>
vars == <<commerce, inventory, session>>

-----------------------------------------------------------------------------
\* reservationRequestID
RequestId(b, k, p) == <<b, k, p>>

\* An id is its own grant: the requests that reserve or release under it work
\* for one claim, one after the other, so that it is granted at most once and a
\* release has all of its rows.
Inventory == INSTANCE Stock WITH Levels <- Products,
                                 Grants <- Buyers \X Keys \X Products

NoLines == [p \in Products |-> 0]
NoClaim == [status |-> "none", id |-> 0]
Idle == [at |-> "idle"]

Ordered(lines) == {p \in Products : lines[p] > 0}

\* The buyer has used the voucher: HasRedeemed counts redemption rows.
HasRedeemed(b) == \E o \in orders : o.buyer = b /\ o.redeemed

ValidateVoucher(b) == redeemed < Budget /\ ~HasRedeemed(b)

\* Requests that still run hold their claim.
Alive(id) == \E s \in Sessions :
    session[s].at \in {"claimed", "reserve", "fail", "forget"} /\ session[s].id = id

Become(s, t) == session' = [session EXCEPT ![s] = t]

Init ==
    /\ cart = [b \in Buyers |-> [lines |-> NoLines, voucher |-> FALSE]]
    /\ claim = [b \in Buyers |-> [k \in Keys |-> NoClaim]]
    /\ claims = 0
    /\ orders = {}
    /\ redeemed = 0
    /\ stock \in [Products -> 0..MaxStock]
    /\ Inventory!HoldNothing
    /\ session = [s \in Sessions |-> Idle]

-----------------------------------------------------------------------------
(* The cart *)

SetLine(b, p, q) ==
    /\ cart' = [cart EXCEPT ![b].lines[p] = q]
    /\ UNCHANGED <<claim, claims, orders, redeemed, inventory, session>>

AddCartItem(b, p) == \E q \in 1..MaxQty : /\ cart[b].lines[p] + q <= MaxQty
                                          /\ SetLine(b, p, cart[b].lines[p] + q)
UpdateCartItem(b, p) == cart[b].lines[p] > 0 /\ \E q \in 1..MaxQty : SetLine(b, p, q)
DeleteCartItem(b, p) == cart[b].lines[p] > 0 /\ SetLine(b, p, 0)

\* ApplyVoucher validates first and writes the cart later.
ApplyVoucher(s, b) ==
    /\ session[s] = Idle
    /\ ValidateVoucher(b)
    /\ Become(s, [at |-> "apply", buyer |-> b])
    /\ UNCHANGED <<commerce, inventory>>

SetCartVoucher(s) ==
    /\ session[s].at = "apply"
    /\ cart' = [cart EXCEPT ![session[s].buyer].voucher = TRUE]
    /\ Become(s, Idle)
    /\ UNCHANGED <<claim, claims, orders, redeemed, inventory>>

-----------------------------------------------------------------------------
(* Checkout: the key.  The cart row and the cart's lines are read by two    *)
(* statements; together they are the payload of the request.                *)

ReadCart(s, b, k) ==
    /\ session[s] = Idle
    /\ Become(s, [at |-> "lines", buyer |-> b, key |-> k, voucher |-> cart[b].voucher])
    /\ UNCHANGED <<commerce, inventory>>

ReadLines(s) ==
    LET t == session[s] IN
    /\ t.at = "lines"
    /\ Become(s, [at |-> "claim", buyer |-> t.buyer, key |-> t.key, stale |-> 0,
                  payload |-> [lines |-> cart[t.buyer].lines, voucher |-> t.voucher]])
    /\ UNCHANGED <<commerce, inventory>>

Claimed(s) == claim[session[s].buyer][session[s].key]

\* A first attempt is one whose request ids have never held anything.
ClaimIdempotency(s) ==
    LET t == session[s] IN
    /\ t.at = "claim" /\ t.stale <= 0
    /\ Claimed(s).status = "none"
    /\ claims < MaxClaims
    /\ claims' = claims + 1
    /\ claim' = [claim EXCEPT ![t.buyer][t.key] =
                    [status |-> "pending", id |-> claims + 1]]
    /\ Become(s, [at |-> "claimed", buyer |-> t.buyer, key |-> t.key, payload |-> t.payload,
                  id |-> claims + 1,
                  first |-> \A p \in Products : RequestId(t.buyer, t.key, p) \notin used])
    /\ UNCHANGED <<cart, orders, redeemed, inventory>>

\* Replayed, refused for a different payload, or in flight.
AnswerClaimed(s) ==
    /\ session[s].at = "claim" /\ session[s].stale <= 0
    /\ Claimed(s).status # "none"
    /\ Become(s, Idle)
    /\ UNCHANGED <<commerce, inventory>>

\* Test variant: any pending claim is taken for a crashed owner's.
StalePendingAny(s) ==
    /\ session[s].at = "claim"
    /\ session[s].stale = 0
    /\ Claimed(s).status = "pending"
    /\ Become(s, [session[s] EXCEPT !.stale = Claimed(s).id])
    /\ UNCHANGED <<commerce, inventory>>

StalePending(s) ==
    /\ session[s].at = "claim"
    /\ session[s].stale = 0
    /\ Claimed(s).status = "pending"
    /\ ~Alive(Claimed(s).id)
    /\ Become(s, [session[s] EXCEPT !.stale = Claimed(s).id])
    /\ UNCHANGED <<commerce, inventory>>

\* DeleteIdempotency deletes the row with this id, if it is still there.
Delete(b, k, id) == claim' = IF claim[b][k].id = id
                             THEN [claim EXCEPT ![b][k] = NoClaim]
                             ELSE claim

DeleteStale(s) ==
    LET t == session[s] IN
    /\ t.at = "claim"
    /\ t.stale > 0
    /\ Delete(t.buyer, t.key, t.stale)
    /\ Become(s, [t EXCEPT !.stale = -1])
    /\ UNCHANGED <<cart, claims, orders, redeemed, inventory>>

-----------------------------------------------------------------------------
(* Checkout: the attempt *)

\* What is left to do when nothing, or nothing any more, is to be given back.
Forget(t) == [at |-> "forget", buyer |-> t.buyer, key |-> t.key, id |-> t.id]

\* Everything that can refuse the attempt before it holds stock: an empty cart,
\* the catalog, prices, the voucher, the credit limit, the availability check.
Refuse(s) ==
    /\ session[s].at = "claimed"
    /\ Become(s, Forget(session[s]))
    /\ UNCHANGED <<commerce, inventory>>

Validate(s) ==
    LET t == session[s] IN
    /\ t.at = "claimed"
    /\ Ordered(t.payload.lines) # {}
    /\ t.payload.voucher => ValidateVoucher(t.buyer)
    /\ Become(s, [at |-> "reserve", buyer |-> t.buyer, key |-> t.key, payload |-> t.payload,
                  id |-> t.id, first |-> t.first, done |-> {}])
    /\ UNCHANGED <<commerce, inventory>>

\* ReserveStock: an id with rows, whatever their status and quantity, is
\* answered with them; otherwise the whole quantity is held.
Reserve(s, p) ==
    LET t == session[s]
        r == RequestId(t.buyer, t.key, p)
    IN /\ t.at = "reserve"
       /\ p \in Ordered(t.payload.lines) \ t.done
       /\ \/ r \in used /\ UNCHANGED inventory
          \/ r \notin used /\ Inventory!Hold(r, p, t.payload.lines[p])
       /\ Become(s, [t EXCEPT !.done = @ \cup {p}])
       /\ UNCHANGED commerce

\* Too little stock, a changed cart, an exhausted voucher, any other error.
Fail(s) ==
    /\ session[s].at = "reserve"
    /\ Become(s, [at |-> "fail", buyer |-> session[s].buyer, key |-> session[s].key,
                  id |-> session[s].id, done |-> session[s].done])
    /\ UNCHANGED <<commerce, inventory>>

\* One order per supplier of the cart.
OrderSet(t, discounted) ==
    {[claim |-> t.id, buyer |-> t.buyer, key |-> t.key, supplier |-> x, first |-> t.first,
      redeemed |-> discounted,
      lines |-> [p \in Products |-> IF SupplierOf[p] = x THEN t.payload.lines[p] ELSE 0]] :
        x \in {SupplierOf[p] : p \in Ordered(t.payload.lines)}}

\* Test variants: the cart read at the start is not compared with the locked
\* one; ConsumeBudget increments without a guard.
SameCartUnchecked(t) == TRUE
ConsumeBudgetUnguarded(deal) == redeemed' = IF deal THEN redeemed + 1 ELSE redeemed

\* canonicalPayloadHash of the locked cart.
SameCart(t) == cart[t.buyer] = t.payload

ConsumeBudget(deal) == IF deal THEN redeemed < Budget /\ redeemed' = redeemed + 1
                               ELSE UNCHANGED redeemed

\* The transaction of createOrderSet.  A redemption row is written for each
\* order with a share of the discount, which may have been rounded to nothing.
CreateOrderSet(s) ==
    LET t == session[s] IN
    /\ t.at = "reserve"
    /\ t.done = Ordered(t.payload.lines)
    /\ Ordered(cart[t.buyer].lines) # {}
    /\ SameCart(t)
    /\ ConsumeBudget(t.payload.voucher)
    /\ \E discounted \in {FALSE, t.payload.voucher} :
         orders' = orders \cup OrderSet(t, discounted)
    /\ cart' = [cart EXCEPT ![t.buyer].lines = NoLines, ![t.buyer].voucher = FALSE]
    /\ claim' = IF Claimed(s).id = t.id
                THEN [claim EXCEPT ![t.buyer][t.key].status = "completed"]
                ELSE claim
    /\ Become(s, Idle)
    /\ UNCHANGED <<claims, inventory>>

\* fail(): give back what this attempt has reserved, which may itself fail,
\* then delete the claim.
ReleaseReservationAttempt(s) ==
    LET t == session[s] IN
    /\ t.at = "fail"
    /\ \/ Inventory!GiveBack({RequestId(t.buyer, t.key, p) : p \in t.done})
       \/ UNCHANGED inventory
    /\ Become(s, Forget(t))
    /\ UNCHANGED commerce

DeleteIdempotency(s) ==
    LET t == session[s] IN
    /\ t.at = "forget"
    /\ Delete(t.buyer, t.key, t.id)
    /\ Become(s, Idle)
    /\ UNCHANGED <<cart, claims, orders, redeemed, inventory>>

\* The request stops where it is.
Stop(s) ==
    /\ session[s] # Idle
    /\ Become(s, Idle)
    /\ UNCHANGED <<commerce, inventory>>

\* What suppliers, administrators and other buyers do to the stock.
Supply == /\ stock' \in [Products -> 0..MaxStock]
          /\ UNCHANGED <<held, used, commerce, session>>

-----------------------------------------------------------------------------
Cart(b, p) == AddCartItem(b, p) \/ UpdateCartItem(b, p) \/ DeleteCartItem(b, p)
Voucher(s) == (\E b \in Buyers : ApplyVoucher(s, b)) \/ SetCartVoucher(s)
Key(s) == \/ \E b \in Buyers, k \in Keys : ReadCart(s, b, k)
          \/ ReadLines(s) \/ ClaimIdempotency(s) \/ AnswerClaimed(s)
          \/ StalePending(s) \/ DeleteStale(s)
Attempt(s) == \/ Refuse(s) \/ Validate(s) \/ Fail(s)
              \/ \E p \in Products : Reserve(s, p)
              \/ CreateOrderSet(s) \/ ReleaseReservationAttempt(s) \/ DeleteIdempotency(s)

Handlers ==
    \/ \E b \in Buyers, p \in Products : Cart(b, p)
    \/ \E s \in Sessions : Voucher(s) \/ Key(s) \/ Attempt(s) \/ Stop(s)

Next == Handlers \/ Supply

Spec == Init /\ [][Next]_vars

-----------------------------------------------------------------------------
(* Properties *)

Lines == [Products -> 0..MaxQty]
Payload == [lines : Lines, voucher : BOOLEAN]
ClaimRow == [status : {"none", "pending", "completed"}, id : 0..MaxClaims]
Order == [claim : 1..MaxClaims, buyer : Buyers, key : Keys, supplier : Suppliers,
          first : BOOLEAN, redeemed : BOOLEAN, lines : Lines]

\* What a request remembers at each step.
Request ==
    {Idle}
    \cup [at : {"apply"}, buyer : Buyers]
    \cup [at : {"lines"}, buyer : Buyers, key : Keys, voucher : BOOLEAN]
    \cup [at : {"claim"}, buyer : Buyers, key : Keys, payload : Payload,
          stale : (-1)..MaxClaims]
    \cup [at : {"claimed"}, buyer : Buyers, key : Keys, payload : Payload,
          id : 1..MaxClaims, first : BOOLEAN]
    \cup [at : {"reserve"}, buyer : Buyers, key : Keys, payload : Payload,
          id : 1..MaxClaims, first : BOOLEAN, done : SUBSET Products]
    \cup [at : {"fail"}, buyer : Buyers, key : Keys, id : 1..MaxClaims,
          done : SUBSET Products]
    \cup [at : {"forget"}, buyer : Buyers, key : Keys, id : 1..MaxClaims]

\* The type invariant.
TypeOK ==
    /\ cart \in [Buyers -> Payload]
    /\ claim \in [Buyers -> [Keys -> ClaimRow]]
    /\ claims \in 0..MaxClaims
    /\ orders \subseteq Order
    /\ redeemed \in 0..Budget
    /\ stock \in [Products -> Nat]
    /\ held \in [Buyers \X Keys \X Products -> [Products -> Nat]]
    /\ used \subseteq Buyers \X Keys \X Products
    /\ session \in [Sessions -> Request]

\* Exactly once: the key of every order set is remembered as completed, by the
\* claim that placed it, so a retry is answered with it and never places
\* another; whatever crashes, takeovers and retries happened.
PlacedIsRemembered ==
    \A o \in orders : /\ claim[o.buyer][o.key].status = "completed"
                       /\ claim[o.buyer][o.key].id = o.claim

\* Orders are placed for exactly what is in the cart at that moment, one per
\* supplier, and take it out of the cart: no line is ordered twice, dropped, or
\* ordered in a quantity the buyer has since changed, and a discount is only
\* given for the voucher that is then in the cart.
PlacedIsTheCart ==
    [][orders' # orders =>
         \E b \in Buyers :
            LET placed == orders' \ orders IN
            /\ \A o \in placed : o.buyer = b /\ (o.redeemed => cart[b].voucher)
            /\ \A p \in Products : \A o \in placed :
                 o.lines[p] = IF o.supplier = SupplierOf[p] THEN cart[b].lines[p] ELSE 0
            /\ \A p \in Ordered(cart[b].lines) : \E o \in placed : o.supplier = SupplierOf[p]
            /\ Ordered(cart'[b].lines) = {}]_vars

\* The promotion's budget is consumed once per order set that used the voucher,
\* never beyond max_redemptions.
BudgetKept ==
    /\ redeemed <= Budget
    /\ Cardinality({o.claim : o \in {x \in orders : x.redeemed}}) <= redeemed

\* An order placed by the first attempt under its key has every unit held, and
\* no other request's rollback ever gives it back.
FirstAttemptIsHeld ==
    \A o \in orders : o.first =>
        \A p \in Products : held[RequestId(o.buyer, o.key, p)][p] >= o.lines[p]

\* checkout.go:17-18 and 110-112: a failed attempt's reservations are released
\* "so the same key may be retried", and retried attempts "replay reservations
\* instead of duplicating them": an order's lines are always held.  (They are
\* not: the retry is answered with the released reservations.)
OrdersAreHeld ==
    \A o \in orders :
        \A p \in Products : held[RequestId(o.buyer, o.key, p)][p] >= o.lines[p]

\* docs/06-data-and-events.md:136: "A voucher is redeemed once per buyer".
\* (It may be redeemed again when ApplyVoucher overlaps a checkout.)
RedeemedOncePerBuyer ==
    \A o1, o2 \in orders : o1.redeemed /\ o2.redeemed /\ o1.buyer = o2.buyer
                            => o1.claim = o2.claim
=============================================================================
