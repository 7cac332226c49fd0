------------------------------- MODULE Orders -------------------------------
(***************************************************************************)
(* What becomes of an order after checkout placed it: staff and suppliers  *)
(* move it along its state machine, put it on hold, ship parts of it, or   *)
(* cancel it, which gives the stock held for its lines back.               *)
(*                                                                         *)
(* Every operation first checks what it read without a lock, to refuse a   *)
(* misuse early; then, in one transaction, it locks the order's row and    *)
(* checks again.  Reads whose only outcome is an early refusal are one     *)
(* step.  A shipment is updated under a lock of its own row, not of the    *)
(* order's, so it may change while a transaction holds the order.          *)
(***************************************************************************)
EXTENDS Counting

CONSTANTS
    Orders,     \* orders that checkout has placed
    Products,   \* products; an order has one line per product at most
    Quantity,   \* the quantity of each order line: lines never change
    Shipments,  \* bound: shipment rows ever inserted
    Sessions    \* concurrent requests

ASSUME QuantityAssumption == Quantity \in [Orders -> [Products -> Int32]]
ASSUME FiniteAssumption == IsFiniteSet(Shipments) /\ IsFiniteSet(Products)

VARIABLES
    order,      \* commerce.order: status and on_hold
    shipment,   \* commerce.shipment with its lines
    stock, held, used,  \* the inventory module, see Stock
    session     \* what each request has read, and what it has locked

inventory == <<stock, held, used>>
vars == <<order, shipment, inventory, session>>

-----------------------------------------------------------------------------
\* reservationRequestID: from the key, buyer, product and supplier of a line.
RequestId(o, p) == <<o, p>>
LineIds(o) == {RequestId(o, p) : p \in {q \in Products : Quantity[o][q] > 0}}

\* An id is its own grant: all of its rows are there before the order is.
Inventory == INSTANCE Stock WITH Levels <- Products, Grants <- Orders \X Products

Idle == [at |-> "idle"]
NoShipment == [status |-> "none"]

\* Test variant: the code knows a status that the order_status type has not.
NextStatusReturned ==
    [placed |-> {"confirmed", "cancelled"}, confirmed |-> {"processing", "cancelled"},
     processing |-> {"shipped", "cancelled"}, shipped |-> {"delivered", "returned"},
     delivered |-> {}, cancelled |-> {}, returned |-> {}]

\* validTransitions; cancelling has an operation of its own.
NextStatus ==
    [placed |-> {"confirmed", "cancelled"}, confirmed |-> {"processing", "cancelled"},
     processing |-> {"shipped", "cancelled"}, shipped |-> {"delivered"},
     delivered |-> {}, cancelled |-> {}]

\* validShipmentTransitions, and an update that leaves the status alone.
ShipmentMayBecome(from, to) ==
    to \in CASE from = "preparing" -> {"preparing", "shipped", "delivered", "cancelled"}
             [] from = "shipped" -> {"shipped", "delivered", "cancelled"}
             [] OTHER -> {from}

Over(o) == order[o].status \in {"delivered", "cancelled"}

ActiveShipments(o) ==
    {x \in Shipments : /\ shipment[x].status \notin {"none", "cancelled"}
                       /\ shipment[x].order = o}

ShippedQuantity(o, p) ==
    Total([x \in Shipments |-> IF x \in ActiveShipments(o) THEN shipment[x].lines[p]
                                                           ELSE 0], Shipments)

FulfillmentCovered(o) == \A p \in Products : ShippedQuantity(o, p) >= Quantity[o][p]

\* Some session holds the lock of the order's row.
RowLocked(o) == \E s \in Sessions :
    /\ session[s].at \in {"transitionWrite", "cancelRelease", "cancelWrite"}
    /\ session[s].order = o

Become(s, t) == session' = [session EXCEPT ![s] = t]

Init ==
    /\ order = [o \in Orders |-> [status |-> "placed", hold |-> FALSE]]
    /\ shipment = [x \in Shipments |-> NoShipment]
    /\ stock = [p \in Products |-> 0]
    /\ held = [r \in Orders \X Products |->
                 [p \in Products |-> IF p = r[2] THEN Quantity[r[1]][p] ELSE 0]]
    /\ used = UNION {LineIds(o) : o \in Orders}
    /\ session = [s \in Sessions |-> Idle]

-----------------------------------------------------------------------------
(* TransitionOrder, which AcknowledgeOrder calls too *)

TransitionOrder(s, o) ==
    /\ session[s] = Idle
    /\ ~order[o].hold
    /\ \E to \in NextStatus[order[o].status] \ {"cancelled"} :
         Become(s, [at |-> "transition", order |-> o, from |-> order[o].status, to |-> to])
    /\ UNCHANGED <<order, shipment, inventory>>

\* Test variants: the checks under the lock forget the hold, or the status.
LockUnlessHeld(s) ==
    ~RowLocked(session[s].order) /\ order[session[s].order].status = session[s].from
LockUnlessMoved(s) ==
    ~RowLocked(session[s].order) /\ ~order[session[s].order].hold

\* The row is locked, and is what it was when the operation began.
LockOrder(s) ==
    LET o == session[s].order IN
    /\ ~RowLocked(o)
    /\ ~order[o].hold
    /\ order[o].status = session[s].from

TransitionLock(s) ==
    LET t == session[s] IN
    /\ t.at = "transition"
    /\ LockOrder(s)
    /\ t.to = "shipped" => FulfillmentCovered(t.order)
    /\ Become(s, [t EXCEPT !.at = "transitionWrite"])
    /\ UNCHANGED <<order, shipment, inventory>>

TransitionCommit(s) ==
    LET t == session[s] IN
    /\ t.at = "transitionWrite"
    /\ order' = [order EXCEPT ![t.order].status = t.to]
    /\ Become(s, Idle)
    /\ UNCHANGED <<shipment, inventory>>

-----------------------------------------------------------------------------
(* CancelOrder: while the order's row is locked, the inventory module gives *)
(* the stock back in a transaction of its own, which commits at once.       *)

CancelOrder(s, o) ==
    /\ session[s] = Idle
    /\ ~order[o].hold
    /\ "cancelled" \in NextStatus[order[o].status]
    /\ ActiveShipments(o) = {}
    /\ Become(s, [at |-> "cancel", order |-> o, from |-> order[o].status])
    /\ UNCHANGED <<order, shipment, inventory>>

\* Test variant: shipments are not looked for again under the lock.
CancelLockOnly(s) ==
    /\ session[s].at = "cancel"
    /\ LockOrder(s)
    /\ Become(s, [session[s] EXCEPT !.at = "cancelRelease"])
    /\ UNCHANGED <<order, shipment, inventory>>

CancelLock(s) ==
    /\ session[s].at = "cancel"
    /\ LockOrder(s)
    /\ ActiveShipments(session[s].order) = {}
    /\ Become(s, [session[s] EXCEPT !.at = "cancelRelease"])
    /\ UNCHANGED <<order, shipment, inventory>>

CancelRelease(s) ==
    /\ session[s].at = "cancelRelease"
    /\ Inventory!GiveBack(LineIds(session[s].order))
    /\ Become(s, [session[s] EXCEPT !.at = "cancelWrite"])
    /\ UNCHANGED <<order, shipment>>

CancelCommit(s) ==
    /\ session[s].at = "cancelWrite"
    /\ order' = [order EXCEPT ![session[s].order].status = "cancelled"]
    /\ Become(s, Idle)
    /\ UNCHANGED <<shipment, inventory>>

-----------------------------------------------------------------------------
(* HoldOrder and ReleaseHoldOrder *)

HoldOrder(s, o) ==
    /\ session[s] = Idle
    /\ ~Over(o) /\ ~order[o].hold
    /\ Become(s, [at |-> "hold", order |-> o])
    /\ UNCHANGED <<order, shipment, inventory>>

HoldCommit(s) ==
    LET o == session[s].order IN
    /\ session[s].at = "hold"
    /\ ~RowLocked(o)
    /\ ~Over(o)
    /\ order' = [order EXCEPT ![o].hold = TRUE]
    /\ Become(s, Idle)
    /\ UNCHANGED <<shipment, inventory>>

\* What it reads without a lock, it reads again and does not compare.
ReleaseHoldOrder(o) ==
    /\ order[o].hold
    /\ ~RowLocked(o)
    /\ order' = [order EXCEPT ![o].hold = FALSE]
    /\ UNCHANGED <<shipment, inventory, session>>

-----------------------------------------------------------------------------
(* Shipments *)

\* Nothing beyond what was ordered is shipped; a line named twice in one
\* request would be refused by the unique index of shipment_line.
Fits(o, lines) ==
    /\ \E p \in Products : lines[p] > 0
    /\ \A p \in Products : ShippedQuantity(o, p) + lines[p] <= Quantity[o][p]

Shippable(o) == ~order[o].hold /\ ~Over(o)

CreateShipment(s, o, lines) ==
    /\ session[s] = Idle
    /\ Shippable(o)
    /\ Fits(o, lines)
    /\ Become(s, [at |-> "ship", order |-> o, lines |-> lines])
    /\ UNCHANGED <<order, shipment, inventory>>

Insert(t) == \E x \in Shipments :
    /\ shipment[x] = NoShipment
    /\ shipment' = [shipment EXCEPT ![x] = [status |-> "preparing", order |-> t.order,
                                            lines |-> t.lines]]

\* Test variant: the lines are not looked at again under the lock.
ShipmentCommitAnyLines(s) ==
    LET t == session[s] IN
    /\ t.at = "ship"
    /\ ~RowLocked(t.order)
    /\ Shippable(t.order)
    /\ Insert(t)
    /\ Become(s, Idle)
    /\ UNCHANGED <<order, inventory>>

ShipmentCommit(s) ==
    LET t == session[s] IN
    /\ t.at = "ship"
    /\ ~RowLocked(t.order)
    /\ Shippable(t.order)
    /\ Fits(t.order, t.lines)
    /\ Insert(t)
    /\ Become(s, Idle)
    /\ UNCHANGED <<order, inventory>>

UpdateShipment(s, x) ==
    /\ session[s] = Idle
    /\ shipment[x] # NoShipment
    /\ \E to \in {"preparing", "shipped", "delivered", "cancelled"} :
         /\ ShipmentMayBecome(shipment[x].status, to)
         /\ Become(s, [at |-> "update", shipment |-> x, to |-> to])
    /\ UNCHANGED <<order, shipment, inventory>>

UpdateShipmentCommit(s) ==
    LET t == session[s] IN
    /\ t.at = "update"
    /\ ShipmentMayBecome(shipment[t.shipment].status, t.to)
    /\ shipment' = [shipment EXCEPT ![t.shipment].status = t.to]
    /\ Become(s, Idle)
    /\ UNCHANGED <<order, inventory>>

\* A check under the lock fails, the release or any statement fails, the client
\* disconnects, the process dies: the open transaction is rolled back.
Rollback(s) ==
    /\ session[s] # Idle
    /\ Become(s, Idle)
    /\ UNCHANGED <<order, shipment, inventory>>

-----------------------------------------------------------------------------
Move(s) == (\E o \in Orders : TransitionOrder(s, o)) \/ TransitionLock(s) \/ TransitionCommit(s)
Cancel(s) == \/ \E o \in Orders : CancelOrder(s, o)
             \/ CancelLock(s) \/ CancelRelease(s) \/ CancelCommit(s)
Hold(s) == (\E o \in Orders : HoldOrder(s, o)) \/ HoldCommit(s)
Ship(s) == \/ \E o \in Orders : \E lines \in [Products -> Int32] :
                CreateShipment(s, o, lines)
           \/ ShipmentCommit(s)
           \/ \E x \in Shipments : UpdateShipment(s, x)
           \/ UpdateShipmentCommit(s)

Next ==
    \/ \E s \in Sessions : Move(s) \/ Cancel(s) \/ Hold(s) \/ Ship(s) \/ Rollback(s)
    \/ \E o \in Orders : ReleaseHoldOrder(o)

Spec == Init /\ [][Next]_vars

-----------------------------------------------------------------------------
(* Properties *)

Status == {"placed", "confirmed", "processing", "shipped", "delivered", "cancelled"}
ShipmentStatus == {"preparing", "shipped", "delivered", "cancelled"}
Lines == [Products -> Int32]

Request ==
    {Idle}
    \cup [at : {"transition", "transitionWrite"}, order : Orders, from : Status, to : Status]
    \cup [at : {"cancel", "cancelRelease", "cancelWrite"}, order : Orders, from : Status]
    \cup [at : {"hold"}, order : Orders]
    \cup [at : {"ship"}, order : Orders, lines : Lines]
    \cup [at : {"update"}, shipment : Shipments, to : ShipmentStatus]

\* The type invariant.
TypeOK ==
    /\ order \in [Orders -> [status : Status, hold : BOOLEAN]]
    /\ shipment \in [Shipments -> {NoShipment} \cup
                        [status : ShipmentStatus, order : Orders, lines : Lines]]
    /\ stock \in [Products -> Nat]
    /\ held \in [Orders \X Products -> [Products -> Nat]]
    /\ session \in [Sessions -> Request]

\* A cancelled order is done with: nothing of it is being shipped, and none of
\* the stock is still held for it, however its cancellation met shipments,
\* holds and transitions.
CancelledIsFree ==
    \A o \in Orders : order[o].status = "cancelled" =>
        /\ ActiveShipments(o) = {}
        /\ \A r \in LineIds(o), p \in Products : held[r][p] = 0

\* fulfillment.go:4-5: "over-shipping a line is rejected": shipments that are not
\* cancelled never add up to more than was ordered.
ShippedWithinOrdered ==
    \A o \in Orders, p \in Products : ShippedQuantity(o, p) <= Quantity[o][p]

\* lifecycle.go:313-314: while an order is on hold its status stays, and
\* nothing new is shipped; a finished order is not put on hold.
HoldFreezes ==
    [][\A o \in Orders :
         /\ order[o].hold => /\ order'[o].status = order[o].status
                             /\ ActiveShipments(o)' \subseteq ActiveShipments(o)
         /\ Over(o) /\ order'[o].hold => order[o].hold]_vars

\* Orders and shipments move along their state machines, one transition at a
\* time: of two requests that read the same status, one is refused.
OneTransitionAtATime ==
    [][/\ \A o \in Orders : order'[o].status # order[o].status =>
             order'[o].status \in NextStatus[order[o].status]
       /\ \A x \in Shipments : shipment[x] # NoShipment =>
             /\ ShipmentMayBecome(shipment[x].status, shipment'[x].status)
             /\ shipment'[x].lines = shipment[x].lines]_vars

\* lifecycle.go:216-223: the release runs while the order is locked, since
\* otherwise a concurrent ship could commit "between release and status update,
\* freeing stock for a shipped order": the stock of an order that has shipped is
\* still held for it.  (It need not be: the release has committed when the rest
\* of the cancellation fails, and the order goes on without its stock.)
ShippedHoldsStock ==
    \A o \in Orders : order[o].status \in {"shipped", "delivered"} =>
        \A p \in Products : held[RequestId(o, p)][p] = Quantity[o][p]
=============================================================================
