---------------------------- MODULE OrdersProofs ----------------------------
(***************************************************************************)
(* Theorems about Orders, for any orders, lines, shipments and requests.   *)
(*                                                                         *)
(* The inductive invariant says what the lock of an order's row is good    *)
(* for: one request holds it at a time, and while it does, the order is    *)
(* what the request saw, and no shipment of it appears.                    *)
(***************************************************************************)
EXTENDS Orders, CountingProofs

Locking == {"transitionWrite", "cancelRelease", "cancelWrite"}
Cancelling == {"cancelRelease", "cancelWrite"}

LockExclusive ==
    \A s, u \in Sessions : /\ session[s].at \in Locking /\ session[u].at \in Locking
                           /\ session[s].order = session[u].order
                           => s = u

GivenBack(o) == \A r \in LineIds(o), p \in Products : held[r][p] = 0

\* What a request may rely on while it remembers t.
Seen(t) ==
    /\ t.at \in {"transition", "transitionWrite"} =>
          t.to \in NextStatus[t.from] \ {"cancelled"}
    /\ t.at \in {"cancel"} \cup Cancelling => "cancelled" \in NextStatus[t.from]
    /\ t.at \in Locking => ~order[t.order].hold /\ order[t.order].status = t.from
    /\ t.at \in Cancelling => ActiveShipments(t.order) = {}
    /\ t.at = "cancelWrite" => GivenBack(t.order)

SeenUnderLock == \A s \in Sessions : Seen(session[s])

OInv == /\ TypeOK /\ LockExclusive /\ SeenUnderLock
        /\ CancelledIsFree /\ ShippedWithinOrdered

-----------------------------------------------------------------------------
\* What a request remembers is told by the step it is at.
LEMMA RequestKinds ==
    ASSUME NEW t \in Request
    PROVE  /\ t.at \in {"transition", "transitionWrite"} =>
                t \in [at : {"transition", "transitionWrite"}, order : Orders,
                      from : Status, to : Status]
           /\ t.at \in {"cancel"} \cup Cancelling =>
                t \in [at : {"cancel", "cancelRelease", "cancelWrite"}, order : Orders,
                      from : Status]
           /\ t.at = "hold" => t \in [at : {"hold"}, order : Orders]
           /\ t.at = "ship" => t \in [at : {"ship"}, order : Orders, lines : Lines]
           /\ t.at = "update" =>
                t \in [at : {"update"}, shipment : Shipments, to : ShipmentStatus]
BY DEF Request, Idle, Cancelling

LEMMA Machine ==
    ASSUME NEW f \in Status, NEW to \in NextStatus[f]
    PROVE  to \in Status /\ f \notin {"delivered", "cancelled"}
BY DEF Status, NextStatus

LEMMA ShipmentMachine ==
    ASSUME NEW f \in ShipmentStatus, NEW to, ShipmentMayBecome(f, to)
    PROVE  to \in ShipmentStatus /\ (f = "cancelled" => to = "cancelled")
BY DEF ShipmentStatus, ShipmentMayBecome

\* Giving back keeps the types, and leaves nothing held.
LEMMA GiveBackTypes ==
    ASSUME TypeOK, NEW o \in Orders, Inventory!GiveBack(LineIds(o))
    PROVE  /\ stock' \in [Products -> Nat]
           /\ held' \in [Orders \X Products -> [Products -> Nat]]
           /\ \A r \in LineIds(o), p \in Products : held'[r][p] = 0
           /\ \A r \in Orders \X Products, p \in Products :
                 held[r][p] = 0 => held'[r][p] = 0
<1>1. LineIds(o) \subseteq Orders \X Products
  BY DEF LineIds, RequestId
<1>2. IsFiniteSet(LineIds(o))
  <2>1. IsFiniteSet({o} \X Products)
    BY FiniteAssumption, FS_Singleton, FS_Product
  <2>2. LineIds(o) \subseteq {o} \X Products
    BY DEF LineIds, RequestId
  <2> QED
    BY <2>1, <2>2, FS_Subset
<1>3. \A f : Inventory!Total(f, LineIds(o)) \in Nat
  <2> TAKE f
  <2>1. Inventory!Total(f, LineIds(o)) = Total(f, LineIds(o))
    BY DEF Inventory!Total, Inventory!Units, Total, Units, Inventory!Cardinality, Cardinality
  <2> QED
    BY <1>2, <2>1, TotalNat
<1>4. /\ stock' = [p \in Products |-> stock[p] + Inventory!Total(
                       [r \in Orders \X Products |-> held[r][p]], LineIds(o))]
      /\ held' = [r \in Orders \X Products |->
                    IF r \in LineIds(o) THEN [p \in Products |-> 0] ELSE held[r]]
  BY DEF Inventory!GiveBack
<1>5. stock' \in [Products -> Nat]
  <2> SUFFICES ASSUME NEW p \in Products
               PROVE  stock[p] + Inventory!Total(
                        [r \in Orders \X Products |-> held[r][p]], LineIds(o)) \in Nat
    BY <1>4
  <2>1. Inventory!Total([r \in Orders \X Products |-> held[r][p]], LineIds(o)) \in Nat
    BY <1>3
  <2>2. stock[p] \in Nat
    BY DEF TypeOK
  <2> QED
    BY <2>1, <2>2
<1> QED
  BY <1>1, <1>4, <1>5 DEF TypeOK

-----------------------------------------------------------------------------
LEMMA IdleSeesNothing == Idle \in Request /\ Seen(Idle) /\ Idle.at \notin Locking
BY DEF Idle, Request, Seen, Cancelling, Locking

\* Only a session changes, and it remembers what is so.
LEMMA Remember ==
    ASSUME OInv, NEW s \in Sessions, NEW t \in Request, Become(s, t), Seen(t),
           t.at \in Locking =>
              \A u \in Sessions : session[u].at \in Locking => session[u].order # t.order,
           UNCHANGED <<order, shipment, inventory>>
    PROVE  OInv'
<1>1. session' = [session EXCEPT ![s] = t] /\ session \in [Sessions -> Request]
  BY DEF OInv, TypeOK, Become
<1>2. UNCHANGED <<order, shipment, stock, held, used>>
  BY DEF inventory
<1>3. TypeOK'
  BY <1>1, <1>2 DEF OInv, TypeOK
<1>4. LockExclusive'
  <2> SUFFICES ASSUME NEW u \in Sessions, NEW w \in Sessions,
                      session'[u].at \in Locking, session'[w].at \in Locking,
                      session'[u].order = session'[w].order
               PROVE  u = w
    BY DEF LockExclusive
  <2>1. CASE u = s \/ w = s
    BY <1>1, <2>1
  <2>2. CASE u # s /\ w # s
    BY <1>1, <2>2 DEF OInv, LockExclusive
  <2> QED
    BY <2>1, <2>2
<1>5. SeenUnderLock'
  <2> SUFFICES ASSUME NEW u \in Sessions PROVE Seen(session'[u])
    BY <1>2 DEF SeenUnderLock, Seen, ActiveShipments, GivenBack
  <2>1. CASE u = s
    BY <1>1, <2>1
  <2>2. CASE u # s
    BY <1>1, <2>2 DEF OInv, SeenUnderLock
  <2> QED
    BY <2>1, <2>2
<1>6. CancelledIsFree' /\ ShippedWithinOrdered'
  BY <1>2 DEF OInv, CancelledIsFree, ShippedWithinOrdered, ActiveShipments, ShippedQuantity
<1> QED
  BY <1>3, <1>4, <1>5, <1>6 DEF OInv

\* A row of an order is written by the request that has it locked, or by one
\* that finds it unlocked; requests can only have become idle.
LEMMA OrderWritten ==
    ASSUME OInv, NEW o \in Orders, NEW row \in [status : Status, hold : BOOLEAN],
           order' = [order EXCEPT ![o] = row],
           UNCHANGED <<shipment, inventory>>,
           session' \in [Sessions -> Request],
           \A u \in Sessions : session'[u] \in {session[u], Idle},
           \A u \in Sessions : session'[u].at \in Locking => session'[u].order # o,
           row.status = "cancelled" => ActiveShipments(o) = {} /\ GivenBack(o)
    PROVE  OInv'
<1>1. UNCHANGED <<shipment, stock, held, used>>
  BY DEF inventory
<1>2. TypeOK'
  BY <1>1 DEF OInv, TypeOK
<1>3. LockExclusive'
  <2> SUFFICES ASSUME NEW u \in Sessions, NEW w \in Sessions,
                      session'[u].at \in Locking, session'[w].at \in Locking,
                      session'[u].order = session'[w].order
               PROVE  u = w
    BY DEF LockExclusive
  <2>1. session'[u] = session[u] /\ session'[w] = session[w]
    BY IdleSeesNothing
  <2> QED
    BY <2>1 DEF OInv, LockExclusive
<1>4. SeenUnderLock'
  <2> SUFFICES ASSUME NEW u \in Sessions PROVE Seen(session[u])'
    BY DEF SeenUnderLock
  <2>1. CASE session'[u] = Idle
    BY <2>1 DEF Idle, Seen, Locking, Cancelling
  <2>2. CASE session'[u] = session[u]
    <3>1. Seen(session[u])
      BY DEF OInv, SeenUnderLock
    <3>2. session[u].at \in Locking => session[u].order # o
      BY <2>2
    <3>3. session[u].at \in Locking => order'[session[u].order] = order[session[u].order]
      BY <3>2 DEF OInv, TypeOK
    <3> QED
      BY <1>1, <2>2, <3>1, <3>3 DEF Seen, ActiveShipments, GivenBack
  <2> QED
    BY <2>1, <2>2
<1>5. CancelledIsFree'
  <2> SUFFICES ASSUME NEW q \in Orders, order'[q].status = "cancelled"
               PROVE  ActiveShipments(q) = {} /\ GivenBack(q)
    BY <1>1 DEF CancelledIsFree, ActiveShipments, GivenBack
  <2>1. CASE q = o
    BY <2>1 DEF OInv, TypeOK
  <2>2. CASE q # o
    BY <2>2 DEF OInv, CancelledIsFree, GivenBack
  <2> QED
    BY <2>1, <2>2
<1>6. ShippedWithinOrdered'
  BY <1>1 DEF OInv, ShippedWithinOrdered, ActiveShipments, ShippedQuantity
<1> QED
  BY <1>2, <1>3, <1>4, <1>5, <1>6 DEF OInv

-----------------------------------------------------------------------------
\* The sum that ShippedQuantity takes, as a function of the shipment.
Share(o, p) == [x \in Shipments |-> IF x \in ActiveShipments(o) THEN shipment[x].lines[p]
                                                                ELSE 0]

LEMMA ShippedIsNat ==
    ASSUME NEW o, NEW p
    PROVE  ShippedQuantity(o, p) = Total(Share(o, p), Shipments)
           /\ ShippedQuantity(o, p) \in Nat
<1>1. ShippedQuantity(o, p) = Total(Share(o, p), Shipments)
  BY DEF ShippedQuantity, Share
<1> QED
  BY <1>1, TotalNat, FiniteAssumption

\* A new shipment of o adds its lines to what is shipped of o, and nothing else.
LEMMA Inserted ==
    ASSUME TypeOK, NEW o \in Orders, NEW lines \in Lines, NEW x \in Shipments,
           shipment[x] = NoShipment,
           shipment' = [shipment EXCEPT ![x] = [status |-> "preparing", order |-> o,
                                                lines |-> lines]]
    PROVE  /\ \A q \in Orders \ {o} : ActiveShipments(q)' = ActiveShipments(q)
           /\ \A q \in Orders \ {o}, p \in Products :
                ShippedQuantity(q, p)' = ShippedQuantity(q, p)
           /\ \A p \in Products :
                ShippedQuantity(o, p)' = ShippedQuantity(o, p) + lines[p]
<1>0. shipment' \in [Shipments -> {NoShipment} \cup
                        [status : ShipmentStatus, order : Orders, lines : Lines]]
  BY DEF TypeOK, ShipmentStatus
<1>1. \A y \in Shipments \ {x} : shipment'[y] = shipment[y]
  BY DEF TypeOK
<1>2. shipment'[x] = [status |-> "preparing", order |-> o, lines |-> lines]
  BY DEF TypeOK
<1>3. \A q \in Orders : x \notin ActiveShipments(q)
  BY DEF ActiveShipments, NoShipment
<1>4. \A q \in Orders \ {o} : ActiveShipments(q)' = ActiveShipments(q)
  BY <1>1, <1>2, <1>3 DEF ActiveShipments
<1>5. ActiveShipments(o)' = ActiveShipments(o) \cup {x}
  BY <1>1, <1>2, <1>3 DEF ActiveShipments
<1>6. ASSUME NEW q \in Orders \ {o}, NEW p \in Products
      PROVE  ShippedQuantity(q, p)' = ShippedQuantity(q, p)
  <2>1. \A y \in ActiveShipments(q) : shipment'[y] = shipment[y]
    BY <1>1, <1>3 DEF ActiveShipments
  <2>2. \A y \in Shipments : Share(q, p)'[y] = Share(q, p)[y]
    BY <1>4, <2>1 DEF Share
  <2>3. Total(Share(q, p)', Shipments) = Total(Share(q, p), Shipments)
    BY <2>2, TotalSame
  <2> QED
    BY <2>3 DEF ShippedQuantity, Share
<1>7. ASSUME NEW p \in Products
      PROVE  ShippedQuantity(o, p)' = ShippedQuantity(o, p) + lines[p]
  <2>1. Share(o, p)[x] = 0
    BY <1>3 DEF Share
  <2>2. Share(o, p)'[x] = lines[p]
    BY <1>2, <1>5 DEF Share
  <2>3. \A y \in Shipments \ {x} : Share(o, p)'[y] = Share(o, p)[y]
    BY <1>1, <1>5 DEF Share
  <2>4. lines[p] \in Int32
    BY DEF Lines
  <2>5. Total(Share(o, p)', Shipments) = Total(Share(o, p), Shipments) + lines[p]
    BY <2>1, <2>2, <2>3, <2>4, TotalRaise, FiniteAssumption
  <2> QED
    BY <2>5 DEF ShippedQuantity, Share
<1> QED
  BY <1>4, <1>6, <1>7

LEMMA InsertStep ==
    ASSUME OInv, NEW s \in Sessions, ShipmentCommit(s)
    PROVE  OInv'
<1>1. PICK o \in Orders, lines \in Lines :
        session[s] = [at |-> "ship", order |-> o, lines |-> lines]
  <2>1. session[s] \in [at : {"ship"}, order : Orders, lines : Lines]
    BY RequestKinds DEF OInv, TypeOK, ShipmentCommit
  <2> QED
    BY <2>1
<1>2. PICK x \in Shipments :
        /\ shipment[x] = NoShipment
        /\ shipment' = [shipment EXCEPT ![x] = [status |-> "preparing", order |-> o,
                                                lines |-> lines]]
  <2>1. Insert(session[s])
    BY DEF ShipmentCommit
  <2>2. session[s].order = o /\ session[s].lines = lines
    BY <1>1
  <2> QED
    BY <2>1, <2>2 DEF Insert
<1>3. /\ \A q \in Orders \ {o} : ActiveShipments(q)' = ActiveShipments(q)
      /\ \A q \in Orders \ {o}, p \in Products :
           ShippedQuantity(q, p)' = ShippedQuantity(q, p)
      /\ \A p \in Products :
           ShippedQuantity(o, p)' = ShippedQuantity(o, p) + lines[p]
  BY <1>2, Inserted DEF OInv
<1>4. /\ UNCHANGED <<order, stock, held, used>>
      /\ session' = [session EXCEPT ![s] = Idle]
      /\ ~RowLocked(o) /\ ~Over(o)
      /\ \A p \in Products : ShippedQuantity(o, p) + lines[p] <= Quantity[o][p]
  BY <1>1 DEF ShipmentCommit, Shippable, Fits, Become, inventory
<1>5. TypeOK'
  BY <1>1, <1>2, <1>4, IdleSeesNothing DEF OInv, TypeOK, ShipmentStatus
<1>6. \A u \in Sessions : session'[u] = IF u = s THEN Idle ELSE session[u]
  BY <1>4 DEF OInv, TypeOK
<1>7. LockExclusive'
  BY <1>6, IdleSeesNothing DEF OInv, LockExclusive
<1>8. SeenUnderLock'
  <2> SUFFICES ASSUME NEW u \in Sessions PROVE Seen(session[u])'
    BY DEF SeenUnderLock
  <2>1. CASE u = s
    BY <1>6, <2>1 DEF Idle, Seen, Locking, Cancelling
  <2>2. CASE u # s
    <3>1. Seen(session[u]) /\ session'[u] = session[u] /\ session[u] \in Request
      BY <1>6, <2>2 DEF OInv, SeenUnderLock, TypeOK
    <3>2. session[u].at \in Cancelling => session[u].order \in Orders \ {o}
      BY <1>4, <3>1, RequestKinds DEF RowLocked, Cancelling
    <3> QED
      BY <1>3, <1>4, <3>1, <3>2 DEF Seen, GivenBack
  <2> QED
    BY <2>1, <2>2
<1>9. CancelledIsFree'
  BY <1>3, <1>4 DEF OInv, CancelledIsFree, Over
<1>10. ShippedWithinOrdered'
  BY <1>3, <1>4 DEF OInv, ShippedWithinOrdered
<1> QED
  BY <1>5, <1>7, <1>8, <1>9, <1>10 DEF OInv

LEMMA RowTurns ==
    ASSUME NEW r \in [status : ShipmentStatus, order : Orders, lines : Lines], NEW to
    PROVE  [r EXCEPT !.status = to] = [status |-> to, order |-> r.order, lines |-> r.lines]
OBVIOUS

\* An update changes one shipment's status, and never makes a cancelled one
\* active, so what is shipped does not grow.
LEMMA Updated ==
    ASSUME TypeOK, NEW x \in Shipments, NEW to \in ShipmentStatus,
           shipment[x] # NoShipment, ShipmentMayBecome(shipment[x].status, to),
           shipment' = [shipment EXCEPT ![x] = [status |-> to, order |-> shipment[x].order,
                                                lines |-> shipment[x].lines]]
    PROVE  /\ shipment' \in [Shipments -> {NoShipment} \cup
                        [status : ShipmentStatus, order : Orders, lines : Lines]]
           /\ \A q \in Orders : ActiveShipments(q)' \subseteq ActiveShipments(q)
           /\ \A q \in Orders, p \in Products :
                ShippedQuantity(q, p)' <= ShippedQuantity(q, p)
<1>1. shipment[x] \in [status : ShipmentStatus, order : Orders, lines : Lines]
  BY DEF TypeOK
<1>2. /\ \A y \in Shipments \ {x} : shipment'[y] = shipment[y]
      /\ shipment'[x] = [status |-> to, order |-> shipment[x].order,
                         lines |-> shipment[x].lines]
  BY DEF TypeOK
<1>3. \A q \in Orders : ActiveShipments(q)' \in {ActiveShipments(q), ActiveShipments(q) \ {x}}
  <2> TAKE q \in Orders
  <2>1. shipment[x].status = "cancelled" => to = "cancelled"
    BY <1>1, ShipmentMachine
  <2>2. \A y \in Shipments \ {x} : y \in ActiveShipments(q)' <=> y \in ActiveShipments(q)
    BY <1>2 DEF ActiveShipments
  <2>3. x \in ActiveShipments(q)' => x \in ActiveShipments(q)
    BY <1>1, <1>2, <2>1 DEF ActiveShipments, ShipmentStatus
  <2>4. ActiveShipments(q)' \subseteq Shipments /\ ActiveShipments(q) \subseteq Shipments
    BY DEF ActiveShipments
  <2> QED
    BY <2>2, <2>3, <2>4
<1>4. ASSUME NEW q \in Orders, NEW p \in Products
      PROVE  ShippedQuantity(q, p)' <= ShippedQuantity(q, p)
  <2>1. \A y \in Shipments : Share(q, p)[y] = IF y \in ActiveShipments(q)
                                             THEN shipment[y].lines[p] ELSE 0
    BY DEF Share
  <2>2. \A y \in Shipments : Share(q, p)'[y] = IF y \in ActiveShipments(q)'
                                             THEN shipment[y].lines[p] ELSE 0
    BY <1>2 DEF Share
  <2>3. ShippedQuantity(q, p)' = Total(Share(q, p)', Shipments)
    BY DEF ShippedQuantity, Share
  <2>4. CASE ActiveShipments(q)' = ActiveShipments(q)
    <3>1. \A y \in Shipments : Share(q, p)'[y] = Share(q, p)[y]
      BY <2>1, <2>2, <2>4
    <3>2. Total(Share(q, p)', Shipments) = Total(Share(q, p), Shipments)
      BY <3>1, TotalSame
    <3> QED
      BY <2>3, <3>2, ShippedIsNat
  <2>5. CASE ActiveShipments(q)' = ActiveShipments(q) \ {x}
    <3>1. Share(q, p)'[x] = 0 /\ \A y \in Shipments \ {x} : Share(q, p)'[y] = Share(q, p)[y]
      BY <2>1, <2>2, <2>5
    <3>2. Total(Share(q, p)', Shipments)
            = Total(Share(q, p), Shipments) - Total(Share(q, p), {x})
      <4>1. {x} \subseteq Shipments
        OBVIOUS
      <4>2. \A y \in {x} : Share(q, p)'[y] = 0
        BY <3>1
      <4> QED
        BY <3>1, <4>1, <4>2, TotalClear, FiniteAssumption
    <3>3. Total(Share(q, p), {x}) \in Nat
      BY TotalNat, FS_Singleton
    <3> QED
      BY <2>3, <3>2, <3>3, ShippedIsNat
  <2> QED
    BY <1>3, <2>4, <2>5
<1>5. shipment' \in [Shipments -> {NoShipment} \cup
                        [status : ShipmentStatus, order : Orders, lines : Lines]]
  BY <1>1 DEF TypeOK
<1> QED
  BY <1>3, <1>4, <1>5

\* Shipments only lose what is active, and a request becomes idle.
LEMMA UpdateStep ==
    ASSUME OInv, NEW s \in Sessions, UpdateShipmentCommit(s)
    PROVE  OInv'
<1>1. PICK x \in Shipments, to \in ShipmentStatus :
        session[s] = [at |-> "update", shipment |-> x, to |-> to]
  <2>1. session[s] \in [at : {"update"}, shipment : Shipments, to : ShipmentStatus]
    BY RequestKinds DEF OInv, TypeOK, UpdateShipmentCommit
  <2> QED
    BY <2>1
<1>2. /\ ShipmentMayBecome(shipment[x].status, to)
      /\ shipment' = [shipment EXCEPT ![x] = [shipment[x] EXCEPT !.status = to]]
      /\ session' = [session EXCEPT ![s] = Idle]
      /\ UNCHANGED <<order, stock, held, used>>
  <2>1. session[s].shipment = x /\ session[s].to = to
    BY <1>1
  <2>2. /\ ShipmentMayBecome(shipment[session[s].shipment].status, session[s].to)
        /\ shipment' = [shipment EXCEPT ![session[s].shipment].status = session[s].to]
        /\ session' = [session EXCEPT ![s] = Idle]
        /\ UNCHANGED <<order, stock, held, used>>
    BY Zenon DEF UpdateShipmentCommit, Become, inventory
  <2> QED
    BY <2>1, <2>2, Zenon
<1>3. /\ shipment' \in [Shipments -> {NoShipment} \cup
                        [status : ShipmentStatus, order : Orders, lines : Lines]]
      /\ \A q \in Orders : ActiveShipments(q)' \subseteq ActiveShipments(q)
      /\ \A q \in Orders, p \in Products :
           ShippedQuantity(q, p)' <= ShippedQuantity(q, p)
  <2>1. ShipmentMayBecome(shipment[x].status, to)
    BY <1>2
  <2>2. shipment[x] # NoShipment
    BY <2>1 DEF ShipmentMayBecome, NoShipment, ShipmentStatus
  <2>3. shipment[x] \in [status : ShipmentStatus, order : Orders, lines : Lines]
    BY <2>2 DEF OInv, TypeOK
  <2>4. [shipment[x] EXCEPT !.status = to] =
          [status |-> to, order |-> shipment[x].order, lines |-> shipment[x].lines]
    BY <2>3, RowTurns
  <2>5. shipment' = [shipment EXCEPT ![x] = [status |-> to, order |-> shipment[x].order,
                                             lines |-> shipment[x].lines]]
    BY <1>2, <2>4, Zenon
  <2> QED
    BY <1>2, <2>2, <2>5, Updated DEF OInv
<1>4. \A u \in Sessions : session'[u] = IF u = s THEN Idle ELSE session[u]
  BY <1>2, Zenon DEF OInv, TypeOK
<1>5. TypeOK'
  BY <1>2, <1>3, IdleSeesNothing DEF OInv, TypeOK
<1>6. LockExclusive'
  BY <1>4, IdleSeesNothing DEF OInv, LockExclusive
<1>7. SeenUnderLock'
  <2> SUFFICES ASSUME NEW u \in Sessions PROVE Seen(session[u])'
    BY DEF SeenUnderLock
  <2>1. CASE u = s
    BY <1>4, <2>1 DEF Idle, Seen, Locking, Cancelling
  <2>2. CASE u # s
    <3>1. Seen(session[u]) /\ session'[u] = session[u] /\ session[u] \in Request
      BY <1>4, <2>2 DEF OInv, SeenUnderLock, TypeOK
    <3>2. session[u].at \in Cancelling => session[u].order \in Orders
      BY <3>1, RequestKinds DEF Cancelling
    <3>3. session[u].at \in Cancelling => ActiveShipments(session[u].order)' = {}
      <4> SUFFICES ASSUME session[u].at \in Cancelling, NEW o \in Orders,
                          o = session[u].order
                   PROVE  ActiveShipments(o)' = {}
        BY <3>1, <3>2 DEF ActiveShipments
      <4> QED
        BY <1>3, <3>1 DEF Seen
    <3> QED
      BY <1>2, <3>1, <3>3 DEF Seen, GivenBack
  <2> QED
    BY <2>1, <2>2
<1>8. CancelledIsFree'
  BY <1>2, <1>3 DEF OInv, CancelledIsFree
<1>9. ShippedWithinOrdered'
  <2> SUFFICES ASSUME NEW o \in Orders, NEW p \in Products
               PROVE  ShippedQuantity(o, p)' <= Quantity[o][p]
    BY DEF ShippedWithinOrdered
  <2>1. ShippedQuantity(o, p) <= Quantity[o][p]
    BY DEF OInv, ShippedWithinOrdered
  <2>2. ShippedQuantity(o, p) \in Nat /\ ShippedQuantity(o, p)' \in Nat
    <3>1. ShippedQuantity(o, p)' = Total(Share(o, p)', Shipments)
      BY DEF ShippedQuantity, Share
    <3> QED
      BY <3>1, ShippedIsNat, TotalNat, FiniteAssumption
  <2>3. Quantity[o][p] \in Nat
    BY QuantityAssumption, MaxIntAssumption DEF Int32
  <2>4. ShippedQuantity(o, p)' <= ShippedQuantity(o, p)
    BY <1>3
  <2> QED
    BY <2>1, <2>2, <2>3, <2>4
<1> QED
  BY <1>5, <1>6, <1>7, <1>8, <1>9 DEF OInv

LEMMA CancelReleaseStep ==
    ASSUME OInv, NEW s \in Sessions, CancelRelease(s)
    PROVE  OInv'
<1>1. PICK o \in Orders, from \in Status :
        session[s] = [at |-> "cancelRelease", order |-> o, from |-> from]
  <2>1. session[s] \in [at : {"cancel", "cancelRelease", "cancelWrite"}, order : Orders,
                        from : Status]
    BY RequestKinds DEF OInv, TypeOK, CancelRelease, Cancelling
  <2> QED
    BY <2>1 DEF CancelRelease
<1>2. PICK t \in Request : t = [at |-> "cancelWrite", order |-> o, from |-> from]
  BY <1>1 DEF Request
<1>3. /\ Inventory!GiveBack(LineIds(o))
      /\ session' = [session EXCEPT ![s] = t]
      /\ UNCHANGED <<order, shipment>>
  <2>1. session[s].order = o /\ [session[s] EXCEPT !.at = "cancelWrite"] = t
    BY <1>1, <1>2
  <2>2. /\ Inventory!GiveBack(LineIds(session[s].order))
        /\ session' = [session EXCEPT ![s] = [session[s] EXCEPT !.at = "cancelWrite"]]
        /\ UNCHANGED <<order, shipment>>
    BY DEF CancelRelease, Become
  <2> QED
    BY <2>1, <2>2, Zenon
<1>4. /\ stock' \in [Products -> Nat]
      /\ held' \in [Orders \X Products -> [Products -> Nat]]
      /\ \A r \in LineIds(o), p \in Products : held'[r][p] = 0
      /\ \A r \in Orders \X Products, p \in Products : held[r][p] = 0 => held'[r][p] = 0
  BY <1>3, GiveBackTypes DEF OInv
<1>5. \A q \in Orders : GivenBack(q) => \A r \in LineIds(q), p \in Products : held'[r][p] = 0
  <2>1. \A q \in Orders : LineIds(q) \subseteq Orders \X Products
    BY DEF LineIds, RequestId
  <2> QED
    BY <1>4, <2>1 DEF GivenBack
<1>6. \A u \in Sessions : session'[u] = IF u = s THEN t ELSE session[u]
  BY <1>3 DEF OInv, TypeOK
<1>7. TypeOK'
  BY <1>3, <1>4 DEF OInv, TypeOK
<1>8. LockExclusive'
  <2> SUFFICES ASSUME NEW u \in Sessions, NEW w \in Sessions,
                      session'[u].at \in Locking, session'[w].at \in Locking,
                      session'[u].order = session'[w].order
               PROVE  u = w
    BY DEF LockExclusive
  <2>1. /\ session[u].at \in Locking /\ session[w].at \in Locking
        /\ session[u].order = session[w].order
    BY <1>1, <1>2, <1>6 DEF Locking
  <2> QED
    BY <2>1 DEF OInv, LockExclusive
<1>9. SeenUnderLock'
  <2> SUFFICES ASSUME NEW u \in Sessions PROVE Seen(session[u])'
    BY DEF SeenUnderLock
  <2>1. CASE u = s
    <3>1. Seen(session[s])
      BY DEF OInv, SeenUnderLock
    <3>2. session'[u] = t
      BY <1>6, <2>1
    <3>3. /\ session[s].at = "cancelRelease" /\ session[s].order = o /\ session[s].from = from
          /\ t.at = "cancelWrite" /\ t.order = o /\ t.from = from
      BY <1>1, <1>2
    <3>4. "cancelled" \in NextStatus[from]
      BY <3>1, <3>3 DEF Seen, Cancelling
    <3>5. ~order'[o].hold /\ order'[o].status = from
      BY <1>3, <3>1, <3>3 DEF Seen, Locking
    <3>6. ActiveShipments(o)' = {}
      BY <1>3, <3>1, <3>3 DEF Seen, Cancelling, ActiveShipments
    <3>7. GivenBack(o)'
      BY <1>4 DEF GivenBack, LineIds
    <3>8. Seen(t)'
      BY <3>3, <3>4, <3>5, <3>6, <3>7 DEF Seen
    <3> QED
      BY <3>2, <3>8
  <2>2. CASE u # s
    <3>1. Seen(session[u]) /\ session'[u] = session[u] /\ session[u] \in Request
      BY <1>6, <2>2 DEF OInv, SeenUnderLock, TypeOK
    <3>2. session[u].at = "cancelWrite" => session[u].order \in Orders
      BY <3>1, RequestKinds DEF Cancelling
    <3> QED
      BY <1>3, <1>5, <3>1, <3>2 DEF Seen, ActiveShipments, GivenBack, LineIds
  <2> QED
    BY <2>1, <2>2
<1>10. CancelledIsFree'
  BY <1>3, <1>5 DEF OInv, CancelledIsFree, GivenBack, ActiveShipments
<1>11. ShippedWithinOrdered'
  BY <1>3 DEF OInv, ShippedWithinOrdered, ActiveShipments, ShippedQuantity
<1> QED
  BY <1>7, <1>8, <1>9, <1>10, <1>11 DEF OInv

-----------------------------------------------------------------------------
\* What a request that locks o finds out is so, and nobody else has locked o.
LEMMA Unlocked ==
    ASSUME NEW o, ~RowLocked(o)
    PROVE  \A u \in Sessions : session[u].at \in Locking => session[u].order # o
BY DEF RowLocked, Locking

\* The request that has an order locked writes its status and is done.
LEMMA CommitWrites ==
    ASSUME OInv, NEW s \in Sessions, NEW o \in Orders, NEW to \in Status,
           session[s].at \in Locking, session[s].order = o,
           order' = [order EXCEPT ![o] = [order[o] EXCEPT !.status = to]],
           Become(s, Idle), UNCHANGED <<shipment, inventory>>,
           to = "cancelled" => ActiveShipments(o) = {} /\ GivenBack(o)
    PROVE  OInv'
<1> DEFINE row == [order[o] EXCEPT !.status = to]
<1>1. row \in [status : Status, hold : BOOLEAN] /\ row.status = to
  BY DEF OInv, TypeOK
<1>2. \A u \in Sessions : session'[u] = IF u = s THEN Idle ELSE session[u]
  BY DEF OInv, TypeOK, Become
<1>3. session' \in [Sessions -> Request]
  BY IdleSeesNothing DEF OInv, TypeOK, Become
<1>4. \A u \in Sessions : session'[u].at \in Locking => session'[u].order # o
  BY <1>2, IdleSeesNothing DEF OInv, LockExclusive
<1> HIDE DEF row
<1> QED
  BY <1>1, <1>2, <1>3, <1>4, OrderWritten DEF row

LEMMA TransitionSession ==
    ASSUME OInv, NEW s \in Sessions, session[s].at \in {"transition", "transitionWrite"}
    PROVE  \E o \in Orders, from \in Status, to \in Status :
             /\ to \in NextStatus[from] \ {"cancelled"}
             /\ session[s] = [at |-> session[s].at, order |-> o, from |-> from, to |-> to]
<1>1. session[s] \in [at : {"transition", "transitionWrite"}, order : Orders,
                      from : Status, to : Status]
  BY RequestKinds DEF OInv, TypeOK
<1>2. session[s].to \in NextStatus[session[s].from] \ {"cancelled"}
  BY DEF OInv, SeenUnderLock, Seen
<1> QED
  BY <1>1, <1>2

LEMMA MoveStep ==
    ASSUME OInv, NEW s \in Sessions, Move(s)
    PROVE  OInv'
<1>1. CASE \E o \in Orders : TransitionOrder(s, o)
  <2>1. PICK o \in Orders : TransitionOrder(s, o)
    BY <1>1
  <2>2. PICK to \in NextStatus[order[o].status] \ {"cancelled"} :
          /\ Become(s, [at |-> "transition", order |-> o, from |-> order[o].status, to |-> to])
          /\ UNCHANGED <<order, shipment, inventory>>
    BY <2>1 DEF TransitionOrder
  <2> DEFINE t == [at |-> "transition", order |-> o, from |-> order[o].status, to |-> to]
  <2>3. order[o].status \in Status /\ to \in Status
    BY Machine DEF OInv, TypeOK
  <2>4. t \in Request /\ Seen(t) /\ t.at \notin Locking
    BY <2>3 DEF Request, Seen, Locking, Cancelling
  <2> HIDE DEF t
  <2> QED
    BY <2>2, <2>4, Remember DEF t
<1>2. CASE TransitionLock(s)
  <2>1. PICK o \in Orders, from \in Status, to \in Status :
          /\ to \in NextStatus[from] \ {"cancelled"}
          /\ session[s] = [at |-> "transition", order |-> o, from |-> from, to |-> to]
    BY <1>2, TransitionSession DEF TransitionLock
  <2> DEFINE t == [at |-> "transitionWrite", order |-> o, from |-> from, to |-> to]
  <2>2. ~RowLocked(o) /\ ~order[o].hold /\ order[o].status = from
    BY <1>2, <2>1 DEF TransitionLock, LockOrder
  <2>3. Become(s, t) /\ UNCHANGED <<order, shipment, inventory>>
    <3>1. [session[s] EXCEPT !.at = "transitionWrite"] = t
      BY <2>1
    <3> QED
      BY <1>2, <3>1, Zenon DEF TransitionLock
  <2>4. t \in Request /\ Seen(t) /\ t.order = o
    BY <2>1, <2>2 DEF Request, Seen, Locking, Cancelling
  <2> HIDE DEF t
  <2> QED
    BY <2>2, <2>3, <2>4, Remember, Unlocked
<1>3. CASE TransitionCommit(s)
  <2>1. PICK o \in Orders, from \in Status, to \in Status :
          /\ to \in NextStatus[from] \ {"cancelled"}
          /\ session[s] = [at |-> "transitionWrite", order |-> o, from |-> from, to |-> to]
    BY <1>3, TransitionSession DEF TransitionCommit
  <2>2. /\ order' = [order EXCEPT ![o] = [order[o] EXCEPT !.status = to]]
        /\ Become(s, Idle) /\ UNCHANGED <<shipment, inventory>>
    <3>1. session[s].order = o /\ session[s].to = to
      BY <2>1
    <3> QED
      BY <1>3, <3>1, Zenon DEF TransitionCommit
  <2>3. session[s].at \in Locking /\ session[s].order = o
    BY <2>1 DEF Locking
  <2> QED
    BY <2>1, <2>2, <2>3, CommitWrites
<1> QED
  BY <1>1, <1>2, <1>3 DEF Move

LEMMA CancelSession ==
    ASSUME OInv, NEW s \in Sessions, session[s].at \in {"cancel"} \cup Cancelling
    PROVE  \E o \in Orders, from \in Status :
             /\ "cancelled" \in NextStatus[from]
             /\ session[s] = [at |-> session[s].at, order |-> o, from |-> from]
<1>1. session[s] \in [at : {"cancel", "cancelRelease", "cancelWrite"}, order : Orders,
                      from : Status]
  BY RequestKinds DEF OInv, TypeOK
<1>2. "cancelled" \in NextStatus[session[s].from]
  BY DEF OInv, SeenUnderLock, Seen
<1> QED
  BY <1>1, <1>2

LEMMA CancelStep ==
    ASSUME OInv, NEW s \in Sessions, Cancel(s)
    PROVE  OInv'
<1>1. CASE \E o \in Orders : CancelOrder(s, o)
  <2>1. PICK o \in Orders : CancelOrder(s, o)
    BY <1>1
  <2> DEFINE t == [at |-> "cancel", order |-> o, from |-> order[o].status]
  <2>2. Become(s, t) /\ UNCHANGED <<order, shipment, inventory>>
    BY <2>1 DEF CancelOrder
  <2>3. order[o].status \in Status /\ "cancelled" \in NextStatus[order[o].status]
    BY <2>1 DEF OInv, TypeOK, CancelOrder
  <2>4. t \in Request /\ Seen(t) /\ t.at \notin Locking
    BY <2>3 DEF Request, Seen, Locking, Cancelling
  <2> HIDE DEF t
  <2> QED
    BY <2>2, <2>4, Remember
<1>2. CASE CancelLock(s)
  <2>1. PICK o \in Orders, from \in Status :
          /\ "cancelled" \in NextStatus[from]
          /\ session[s] = [at |-> "cancel", order |-> o, from |-> from]
    BY <1>2, CancelSession DEF CancelLock
  <2> DEFINE t == [at |-> "cancelRelease", order |-> o, from |-> from]
  <2>2. /\ ~RowLocked(o) /\ ~order[o].hold /\ order[o].status = from
        /\ ActiveShipments(o) = {}
    BY <1>2, <2>1 DEF CancelLock, LockOrder
  <2>3. Become(s, t) /\ UNCHANGED <<order, shipment, inventory>>
    <3>1. [session[s] EXCEPT !.at = "cancelRelease"] = t
      BY <2>1
    <3> QED
      BY <1>2, <3>1, Zenon DEF CancelLock
  <2>4. t \in Request /\ Seen(t) /\ t.order = o
    BY <2>1, <2>2 DEF Request, Seen, Locking, Cancelling
  <2> HIDE DEF t
  <2> QED
    BY <2>2, <2>3, <2>4, Remember, Unlocked
<1>3. CASE CancelRelease(s)
  BY <1>3, CancelReleaseStep
<1>4. CASE CancelCommit(s)
  <2>1. PICK o \in Orders, from \in Status :
          session[s] = [at |-> "cancelWrite", order |-> o, from |-> from]
    BY <1>4, CancelSession DEF CancelCommit, Cancelling
  <2>2. session[s].order = o /\ session[s].at = "cancelWrite"
    BY <2>1
  <2>3. /\ order' = [order EXCEPT ![o] = [order[o] EXCEPT !.status = "cancelled"]]
        /\ Become(s, Idle) /\ UNCHANGED <<shipment, inventory>>
    BY <1>4, <2>2, Zenon DEF CancelCommit
  <2>4. ActiveShipments(o) = {} /\ GivenBack(o)
    BY <2>2 DEF OInv, SeenUnderLock, Seen, Cancelling
  <2>5. session[s].at \in Locking /\ "cancelled" \in Status
    BY <2>2 DEF Locking, Status
  <2> QED
    BY <2>2, <2>3, <2>4, <2>5, CommitWrites
<1> QED
  BY <1>1, <1>2, <1>3, <1>4 DEF Cancel

\* Nobody has the order locked, so that its hold may change.
LEMMA HoldWrites ==
    ASSUME OInv, NEW o \in Orders, NEW b \in BOOLEAN, ~RowLocked(o),
           order' = [order EXCEPT ![o] = [order[o] EXCEPT !.hold = b]],
           session' \in [Sessions -> Request],
           \A u \in Sessions : session'[u] \in {session[u], Idle},
           UNCHANGED <<shipment, inventory>>
    PROVE  OInv'
<1> DEFINE row == [order[o] EXCEPT !.hold = b]
<1>1. row \in [status : Status, hold : BOOLEAN] /\ row.status = order[o].status
  BY DEF OInv, TypeOK
<1>2. \A u \in Sessions : session'[u].at \in Locking => session'[u].order # o
  BY Unlocked, IdleSeesNothing
<1>3. order[o].status = "cancelled" => ActiveShipments(o) = {} /\ GivenBack(o)
  BY DEF OInv, CancelledIsFree, GivenBack
<1> HIDE DEF row
<1> QED
  BY <1>1, <1>2, <1>3, OrderWritten DEF row

LEMMA HoldStep ==
    ASSUME OInv, NEW s \in Sessions, Hold(s)
    PROVE  OInv'
<1>1. CASE \E o \in Orders : HoldOrder(s, o)
  <2>1. PICK o \in Orders : HoldOrder(s, o)
    BY <1>1
  <2> DEFINE t == [at |-> "hold", order |-> o]
  <2>2. Become(s, t) /\ UNCHANGED <<order, shipment, inventory>>
    BY <2>1 DEF HoldOrder
  <2>3. t \in Request /\ Seen(t) /\ t.at \notin Locking
    BY DEF Request, Seen, Locking, Cancelling
  <2> HIDE DEF t
  <2> QED
    BY <2>2, <2>3, Remember
<1>2. CASE HoldCommit(s)
  <2>1. PICK o \in Orders : o = session[s].order
    BY <1>2, RequestKinds DEF OInv, TypeOK, HoldCommit
  <2>2. /\ order' = [order EXCEPT ![o] = [order[o] EXCEPT !.hold = TRUE]]
        /\ Become(s, Idle) /\ UNCHANGED <<shipment, inventory>>
        /\ ~RowLocked(o)
    BY <1>2, <2>1, Zenon DEF HoldCommit
  <2>3. /\ session' \in [Sessions -> Request]
        /\ \A u \in Sessions : session'[u] \in {session[u], Idle}
    BY <2>2, IdleSeesNothing DEF OInv, TypeOK, Become
  <2> QED
    BY <2>2, <2>3, HoldWrites
<1> QED
  BY <1>1, <1>2 DEF Hold

LEMMA ReleaseHoldStep ==
    ASSUME OInv, NEW o \in Orders, ReleaseHoldOrder(o)
    PROVE  OInv'
<1>1. /\ order' = [order EXCEPT ![o] = [order[o] EXCEPT !.hold = FALSE]]
      /\ ~RowLocked(o) /\ UNCHANGED <<shipment, inventory>> /\ session' = session
  BY Zenon DEF ReleaseHoldOrder
<1>2. /\ session' \in [Sessions -> Request]
      /\ \A u \in Sessions : session'[u] \in {session[u], Idle}
  BY <1>1 DEF OInv, TypeOK
<1> QED
  BY <1>1, <1>2, HoldWrites

LEMMA ShipStep ==
    ASSUME OInv, NEW s \in Sessions, Ship(s)
    PROVE  OInv'
<1>1. CASE \E o \in Orders, lines \in [Products -> Int32] : CreateShipment(s, o, lines)
  <2>1. PICK o \in Orders, lines \in Lines : CreateShipment(s, o, lines)
    BY <1>1 DEF Lines
  <2> DEFINE t == [at |-> "ship", order |-> o, lines |-> lines]
  <2>2. Become(s, t) /\ UNCHANGED <<order, shipment, inventory>>
    BY <2>1 DEF CreateShipment
  <2>3. t \in Request /\ Seen(t) /\ t.at \notin Locking
    BY DEF Request, Seen, Locking, Cancelling
  <2> HIDE DEF t
  <2> QED
    BY <2>2, <2>3, Remember
<1>2. CASE ShipmentCommit(s)
  BY <1>2, InsertStep
<1>3. CASE \E x \in Shipments : UpdateShipment(s, x)
  <2>1. PICK x \in Shipments, to \in ShipmentStatus :
          /\ Become(s, [at |-> "update", shipment |-> x, to |-> to])
          /\ UNCHANGED <<order, shipment, inventory>>
    BY <1>3 DEF UpdateShipment, ShipmentStatus
  <2> DEFINE t == [at |-> "update", shipment |-> x, to |-> to]
  <2>2. t \in Request /\ Seen(t) /\ t.at \notin Locking
    BY DEF Request, Seen, Locking, Cancelling
  <2> HIDE DEF t
  <2> QED
    BY <2>1, <2>2, Remember DEF t
<1>4. CASE UpdateShipmentCommit(s)
  BY <1>4, UpdateStep
<1> QED
  BY <1>1, <1>2, <1>3, <1>4 DEF Ship

LEMMA RollbackStep ==
    ASSUME OInv, NEW s \in Sessions, Rollback(s)
    PROVE  OInv'
BY Remember, IdleSeesNothing DEF Rollback

LEMMA OrdersInit == Init => OInv
<1> SUFFICES ASSUME Init PROVE OInv
  OBVIOUS
<1>1. TypeOK
  <2>1. \A r \in Orders \X Products, p \in Products :
          (IF p = r[2] THEN Quantity[r[1]][p] ELSE 0) \in Nat
    BY QuantityAssumption, MaxIntAssumption DEF Int32
  <2>2. held \in [Orders \X Products -> [Products -> Nat]]
    BY <2>1 DEF Init
  <2> QED
    BY <2>2, IdleSeesNothing DEF Init, TypeOK, Status
<1>2. \A s \in Sessions : session[s] = Idle
  BY DEF Init
<1>3. LockExclusive /\ SeenUnderLock
  BY <1>2, IdleSeesNothing DEF LockExclusive, SeenUnderLock
<1>4. CancelledIsFree
  BY DEF Init, CancelledIsFree
<1>5. ShippedWithinOrdered
  <2> SUFFICES ASSUME NEW o \in Orders, NEW p \in Products
               PROVE  ShippedQuantity(o, p) <= Quantity[o][p]
    BY DEF ShippedWithinOrdered
  <2>1. \A x \in Shipments : Share(o, p)[x] = 0
    BY DEF Init, Share, ActiveShipments, NoShipment
  <2>2. ShippedQuantity(o, p) = 0
    BY <2>1, TotalZero, ShippedIsNat
  <2>3. Quantity[o][p] \in Nat
    BY QuantityAssumption, MaxIntAssumption DEF Int32
  <2> QED
    BY <2>2, <2>3
<1> QED
  BY <1>1, <1>3, <1>4, <1>5 DEF OInv

LEMMA OrdersStep == OInv /\ [Next]_vars => OInv'
<1> SUFFICES ASSUME OInv, [Next]_vars PROVE OInv'
  OBVIOUS
<1>1. CASE Next
  <2>1. CASE \E s \in Sessions : Move(s) \/ Cancel(s) \/ Hold(s) \/ Ship(s) \/ Rollback(s)
    BY <2>1, MoveStep, CancelStep, HoldStep, ShipStep, RollbackStep
  <2>2. CASE \E o \in Orders : ReleaseHoldOrder(o)
    BY <2>2, ReleaseHoldStep
  <2> QED
    BY <1>1, <2>1, <2>2 DEF Next
<1>2. CASE UNCHANGED vars
  <2>1. UNCHANGED <<order, shipment, stock, held, used, session>>
    BY <1>2 DEF vars, inventory
  <2>2. TypeOK' /\ LockExclusive'
    BY <2>1 DEF OInv, TypeOK, LockExclusive
  <2>3. SeenUnderLock'
    BY <2>1 DEF OInv, SeenUnderLock, Seen, GivenBack, ActiveShipments, LineIds
  <2>4. CancelledIsFree' /\ ShippedWithinOrdered'
    BY <2>1 DEF OInv, CancelledIsFree, ShippedWithinOrdered, ShippedQuantity,
       ActiveShipments
  <2> QED
    BY <2>2, <2>3, <2>4 DEF OInv
<1> QED
  BY <1>1, <1>2

LEMMA OrdersInvariant == Spec => []OInv
BY OrdersInit, OrdersStep, PTL DEF Spec

\* Every state reachable by any mix of transitions, cancellations, holds and
\* shipments is well typed (lifecycle.go, fulfillment.go).
THEOREM OrdersTypeCorrect == Spec => []TypeOK
<1>1. OInv => TypeOK
  BY DEF OInv
<1> QED
  BY <1>1, OrdersInvariant, PTL

\* CancelOrder leaves nothing of an order: no active shipment, no stock held.
THEOREM CancelledOrdersAreFree == Spec => []CancelledIsFree
<1>1. OInv => CancelledIsFree
  BY DEF OInv
<1> QED
  BY <1>1, OrdersInvariant, PTL

\* CreateShipment never over-ships a line, however many requests it races.
THEOREM NeverOverShipped == Spec => []ShippedWithinOrdered
<1>1. OInv => ShippedWithinOrdered
  BY DEF OInv
<1> QED
  BY <1>1, OrdersInvariant, PTL

-----------------------------------------------------------------------------
\* What a step may do to an order: nothing; a transition of the state machine
\* while it is not on hold; or a change of the hold.
OrderStep(o) ==
    \/ order'[o] = order[o]
    \/ /\ ~order[o].hold /\ ~order'[o].hold
       /\ order'[o].status \in NextStatus[order[o].status]
    \/ /\ order'[o].status = order[o].status
       /\ order'[o].hold => ~Over(o)

\* What a step may do to a shipment: nothing; create it, for an order that is
\* not on hold; or move it along its own state machine.
ShipmentStep(x) ==
    \/ shipment'[x] = shipment[x]
    \/ /\ shipment[x] = NoShipment /\ ~order[shipment'[x].order].hold
    \/ /\ shipment[x] # NoShipment
       /\ ShipmentMayBecome(shipment[x].status, shipment'[x].status)
       /\ shipment'[x].lines = shipment[x].lines
       /\ \A q \in Orders : x \in ActiveShipments(q)' => x \in ActiveShipments(q)

LEMMA StatusWritten ==
    ASSUME OInv, NEW s \in Sessions, TransitionCommit(s) \/ CancelCommit(s)
    PROVE  \A o \in Orders : OrderStep(o)
<1>1. PICK o \in Orders, to \in Status :
        /\ order' = [order EXCEPT ![o] = [order[o] EXCEPT !.status = to]]
        /\ session[s].at \in Locking /\ session[s].order = o
        /\ to \in NextStatus[session[s].from]
  <2>1. CASE TransitionCommit(s)
    <3>1. PICK o \in Orders, from \in Status, to \in Status :
            /\ to \in NextStatus[from] \ {"cancelled"}
            /\ session[s] = [at |-> "transitionWrite", order |-> o, from |-> from, to |-> to]
      BY <2>1, TransitionSession DEF TransitionCommit
    <3>2. /\ session[s].order = o /\ session[s].to = to /\ session[s].from = from
          /\ session[s].at \in Locking
      BY <3>1 DEF Locking
    <3>3. order' = [order EXCEPT ![o] = [order[o] EXCEPT !.status = to]]
      BY <2>1, <3>2, Zenon DEF TransitionCommit
    <3> QED
      BY <3>1, <3>2, <3>3
  <2>2. CASE CancelCommit(s)
    <3>1. PICK o \in Orders, from \in Status :
            /\ "cancelled" \in NextStatus[from]
            /\ session[s] = [at |-> "cancelWrite", order |-> o, from |-> from]
      BY <2>2, CancelSession DEF CancelCommit, Cancelling
    <3>2. /\ session[s].order = o /\ session[s].from = from
          /\ session[s].at \in Locking /\ "cancelled" \in Status
      BY <3>1 DEF Locking, Status
    <3>3. order' = [order EXCEPT ![o] = [order[o] EXCEPT !.status = "cancelled"]]
      BY <2>2, <3>2, Zenon DEF CancelCommit
    <3> QED
      BY <3>1, <3>2, <3>3
  <2> QED
    BY <2>1, <2>2
<1>2. order[o].status = session[s].from /\ ~order[o].hold
  BY <1>1 DEF OInv, SeenUnderLock, Seen
<1>3. order \in [Orders -> [status : Status, hold : BOOLEAN]]
  BY DEF OInv, TypeOK
<1> QED
  BY <1>1, <1>2, <1>3 DEF OrderStep

LEMMA OrderSteps ==
    ASSUME OInv, [Next]_vars, NEW o \in Orders
    PROVE  OrderStep(o)
<1>1. CASE \E s \in Sessions : TransitionCommit(s) \/ CancelCommit(s)
  BY <1>1, StatusWritten
<1>2. CASE \E s \in Sessions : HoldCommit(s)
  <2>1. PICK s \in Sessions : HoldCommit(s)
    BY <1>2
  <2>2. PICK q \in Orders : q = session[s].order
    BY <2>1, RequestKinds DEF OInv, TypeOK, HoldCommit
  <2>3. order' = [order EXCEPT ![q] = [order[q] EXCEPT !.hold = TRUE]] /\ ~Over(q)
    BY <2>1, <2>2, Zenon DEF HoldCommit
  <2> QED
    BY <2>3 DEF OInv, TypeOK, OrderStep
<1>3. CASE \E q \in Orders : ReleaseHoldOrder(q)
  <2>1. PICK q \in Orders : order' = [order EXCEPT ![q] = [order[q] EXCEPT !.hold = FALSE]]
    BY <1>3, Zenon DEF ReleaseHoldOrder
  <2> QED
    BY <2>1 DEF OInv, TypeOK, OrderStep
<1>4. CASE UNCHANGED order
  BY <1>4 DEF OrderStep
<1> QED
  <2>1. CASE Next
    BY <2>1, <1>1, <1>2, <1>3, <1>4 DEF Next, Move, Cancel, Hold, Ship, Rollback,
       TransitionOrder, TransitionLock, CancelOrder, CancelLock, CancelRelease, HoldOrder,
       CreateShipment, ShipmentCommit, UpdateShipment, UpdateShipmentCommit
  <2>2. CASE UNCHANGED vars
    BY <2>2, <1>4 DEF vars
  <2> QED
    BY <2>1, <2>2

LEMMA ShipmentSteps ==
    ASSUME OInv, [Next]_vars, NEW x \in Shipments
    PROVE  ShipmentStep(x)
<1>1. CASE \E s \in Sessions : ShipmentCommit(s)
  <2>1. PICK s \in Sessions : ShipmentCommit(s)
    BY <1>1
  <2>2. PICK o \in Orders : o = session[s].order
    BY <2>1, RequestKinds DEF OInv, TypeOK, ShipmentCommit
  <2>3. Insert(session[s]) /\ ~order[o].hold
    BY <2>1, <2>2 DEF ShipmentCommit, Shippable
  <2>4. PICK y \in Shipments :
          /\ shipment[y] = NoShipment
          /\ shipment' = [shipment EXCEPT ![y] = [status |-> "preparing", order |-> o,
                                                  lines |-> session[s].lines]]
    BY <2>2, <2>3, Zenon DEF Insert
  <2> QED
    BY <2>3, <2>4 DEF OInv, TypeOK, ShipmentStep
<1>2. CASE \E s \in Sessions : UpdateShipmentCommit(s)
  <2>1. PICK s \in Sessions : UpdateShipmentCommit(s)
    BY <1>2
  <2>2. PICK y \in Shipments, to \in ShipmentStatus :
          /\ y = session[s].shipment /\ to = session[s].to
    BY <2>1, RequestKinds DEF OInv, TypeOK, UpdateShipmentCommit
  <2>3. /\ ShipmentMayBecome(shipment[y].status, to)
        /\ shipment' = [shipment EXCEPT ![y] = [shipment[y] EXCEPT !.status = to]]
    BY <2>1, <2>2, Zenon DEF UpdateShipmentCommit
  <2>4. ShipmentMayBecome(shipment[y].status, to)
    BY <2>3
  <2>5. shipment[y] # NoShipment
    BY <2>4 DEF ShipmentMayBecome, NoShipment, ShipmentStatus
  <2>6. shipment[y] \in [status : ShipmentStatus, order : Orders, lines : Lines]
    BY <2>5 DEF OInv, TypeOK
  <2>7. [shipment[y] EXCEPT !.status = to] =
          [status |-> to, order |-> shipment[y].order, lines |-> shipment[y].lines]
    BY <2>6, RowTurns
  <2>8. shipment' = [shipment EXCEPT ![y] = [status |-> to, order |-> shipment[y].order,
                                             lines |-> shipment[y].lines]]
    BY <2>3, <2>7, Zenon
  <2>9. CASE x # y
    BY <2>8, <2>9 DEF OInv, TypeOK, ShipmentStep
  <2>10. CASE x = y
    <3>1. shipment'[x] = [status |-> to, order |-> shipment[x].order,
                          lines |-> shipment[x].lines]
      BY <2>8, <2>10 DEF OInv, TypeOK
    <3>2. \A q \in Orders : ActiveShipments(q)' \subseteq ActiveShipments(q)
      BY <2>4, <2>5, <2>8, Updated DEF OInv
    <3> QED
      BY <2>4, <2>5, <2>10, <3>1, <3>2 DEF ShipmentStep
  <2> QED
    BY <2>9, <2>10
<1>3. CASE UNCHANGED shipment
  BY <1>3 DEF ShipmentStep
<1> QED
  <2>1. CASE Next
    BY <2>1, <1>1, <1>2, <1>3 DEF Next, Move, Cancel, Hold, Ship, Rollback,
       TransitionOrder, TransitionLock, TransitionCommit, CancelOrder, CancelLock,
       CancelRelease, CancelCommit, HoldOrder, HoldCommit, ReleaseHoldOrder,
       CreateShipment, UpdateShipment
  <2>2. CASE UNCHANGED vars
    BY <2>2, <1>3 DEF vars
  <2> QED
    BY <2>1, <2>2

\* HoldOrder freezes an order, and only one that is not finished.
THEOREM HoldsFreezeOrders == Spec => HoldFreezes
<1>1. ASSUME OInv, [Next]_vars, NEW o \in Orders
      PROVE  /\ order[o].hold => /\ order'[o].status = order[o].status
                                 /\ ActiveShipments(o)' \subseteq ActiveShipments(o)
             /\ Over(o) /\ order'[o].hold => order[o].hold
  <2>1. OrderStep(o) /\ \A x \in Shipments : ShipmentStep(x)
    BY <1>1, OrderSteps, ShipmentSteps
  <2>2. ASSUME order[o].hold, NEW x \in ActiveShipments(o)'
        PROVE  x \in ActiveShipments(o)
    <3>1. x \in Shipments /\ shipment'[x].order = o
      BY <2>2 DEF ActiveShipments
    <3>2. ShipmentStep(x)
      BY <2>1, <3>1
    <3>3. CASE shipment'[x] = shipment[x]
      BY <2>2, <3>3 DEF ActiveShipments
    <3>4. CASE shipment'[x] # shipment[x]
      BY <2>2, <3>1, <3>2, <3>4 DEF ShipmentStep
    <3> QED
      BY <3>3, <3>4
  <2> QED
    BY <2>1, <2>2 DEF OrderStep
<1>2. OInv /\ [Next]_vars =>
        [\A o \in Orders :
           /\ order[o].hold => /\ order'[o].status = order[o].status
                               /\ ActiveShipments(o)' \subseteq ActiveShipments(o)
           /\ Over(o) /\ order'[o].hold => order[o].hold]_vars
  BY <1>1
<1> QED
  BY <1>2, OrdersInvariant, PTL DEF Spec, HoldFreezes

\* Orders and shipments move along their state machines only.
THEOREM OneTransition == Spec => OneTransitionAtATime
<1>1. ASSUME OInv, [Next]_vars
      PROVE  /\ \A o \in Orders : order'[o].status # order[o].status =>
                   order'[o].status \in NextStatus[order[o].status]
             /\ \A x \in Shipments : shipment[x] # NoShipment =>
                   /\ ShipmentMayBecome(shipment[x].status, shipment'[x].status)
                   /\ shipment'[x].lines = shipment[x].lines
  <2>1. \A o \in Orders : OrderStep(o)
    BY <1>1, OrderSteps
  <2>2. \A x \in Shipments : ShipmentStep(x)
    BY <1>1, ShipmentSteps
  <2>3. \A x \in Shipments : shipment[x] # NoShipment =>
          shipment[x] \in [status : ShipmentStatus, order : Orders, lines : Lines]
    BY <1>1 DEF OInv, TypeOK
  <2>4. \A f \in ShipmentStatus : ShipmentMayBecome(f, f)
    BY DEF ShipmentStatus, ShipmentMayBecome
  <2> QED
    BY <2>1, <2>2, <2>3, <2>4 DEF OrderStep, ShipmentStep
<1>2. OInv /\ [Next]_vars =>
        [/\ \A o \in Orders : order'[o].status # order[o].status =>
               order'[o].status \in NextStatus[order[o].status]
         /\ \A x \in Shipments : shipment[x] # NoShipment =>
               /\ ShipmentMayBecome(shipment[x].status, shipment'[x].status)
               /\ shipment'[x].lines = shipment[x].lines]_vars
  BY <1>1
<1> QED
  BY <1>2, OrdersInvariant, PTL DEF Spec, OneTransitionAtATime
=============================================================================
