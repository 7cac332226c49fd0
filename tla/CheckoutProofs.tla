--------------------------- MODULE CheckoutProofs ---------------------------
(***************************************************************************)
(* Theorems about Checkout, for any buyers, keys, products and requests.   *)
(*                                                                         *)
(* The inductive invariant says what a claim is good for: while a request  *)
(* has it the row stays pending under its id, no other request has that    *)
(* id, and so nobody else touches the request ids of its key.  A request   *)
(* that takes a claim over has seen that its owner stopped, and ids are    *)
(* never given twice.                                                      *)
(***************************************************************************)
EXTENDS Checkout, CountingProofs

\* The steps at which a request has a claim.
Working == {"claimed", "reserve", "fail", "forget"}

\* What a request may rely on while it remembers t.
Sound(t) ==
    /\ t.at \in Working => claim[t.buyer][t.key] = [status |-> "pending", id |-> t.id]
    /\ t.at = "claim" /\ t.stale > 0 =>
          /\ t.stale <= claims
          /\ ~Alive(t.stale)
          /\ claim[t.buyer][t.key].id = t.stale =>
                claim[t.buyer][t.key].status = "pending"
    /\ t.at = "claimed" /\ t.first =>
          \A p \in Products : RequestId(t.buyer, t.key, p) \notin used
    /\ t.at = "reserve" /\ t.first => \A p \in Products :
          /\ p \in t.done => held[RequestId(t.buyer, t.key, p)][p] >= t.payload.lines[p]
          /\ p \notin t.done => RequestId(t.buyer, t.key, p) \notin used

OneOwner == \A s, u \in Sessions :
    /\ session[s].at \in Working /\ session[u].at \in Working
    /\ session[s].id = session[u].id
    => s = u

IdsGiven == \A b \in Buyers, k \in Keys : claim[b][k].id <= claims

CInv == /\ TypeOK /\ OneOwner /\ IdsGiven
        /\ \A s \in Sessions : Sound(session[s])
        /\ PlacedIsRemembered /\ BudgetKept /\ FirstAttemptIsHeld

-----------------------------------------------------------------------------
\* What a request remembers is told by the step it is at.
LEMMA RequestKinds ==
    ASSUME NEW t \in Request
    PROVE  /\ t.at = "apply" => t \in [at : {"apply"}, buyer : Buyers]
           /\ t.at = "lines" =>
                t \in [at : {"lines"}, buyer : Buyers, key : Keys, voucher : BOOLEAN]
           /\ t.at = "claim" =>
                t \in [at : {"claim"}, buyer : Buyers, key : Keys, payload : Payload,
                       stale : (-1)..MaxClaims]
           /\ t.at = "claimed" =>
                t \in [at : {"claimed"}, buyer : Buyers, key : Keys, payload : Payload,
                       id : 1..MaxClaims, first : BOOLEAN]
           /\ t.at = "reserve" =>
                t \in [at : {"reserve"}, buyer : Buyers, key : Keys, payload : Payload,
                       id : 1..MaxClaims, first : BOOLEAN, done : SUBSET Products]
           /\ t.at = "fail" =>
                t \in [at : {"fail"}, buyer : Buyers, key : Keys, id : 1..MaxClaims,
                       done : SUBSET Products]
           /\ t.at = "forget" =>
                t \in [at : {"forget"}, buyer : Buyers, key : Keys, id : 1..MaxClaims]
BY DEF Request, Idle

LEMMA WorkingKinds ==
    ASSUME NEW t \in Request, t.at \in Working
    PROVE  t.buyer \in Buyers /\ t.key \in Keys /\ t.id \in 1..MaxClaims
BY RequestKinds DEF Working

LEMMA IdleIsSound == Idle \in Request /\ Sound(Idle) /\ Idle.at \notin Working
BY DEF Idle, Request, Sound, Working

LEMMA AliveWorks ==
    ASSUME NEW id
    PROVE  Alive(id) <=> \E s \in Sessions : session[s].at \in Working /\ session[s].id = id
BY DEF Alive, Working

\* The claim of a request that works is nobody else's, and has placed nothing.
LEMMA ClaimIsOwned ==
    ASSUME CInv, NEW s \in Sessions, session[s].at \in Working
    PROVE  /\ session[s].buyer \in Buyers /\ session[s].key \in Keys
           /\ session[s].id \in 1..MaxClaims
           /\ Claimed(s) = [status |-> "pending", id |-> session[s].id]
           /\ \A u \in Sessions \ {s} : session[u].at \in Working =>
                 ~(session[u].buyer = session[s].buyer /\ session[u].key = session[s].key)
           /\ \A o \in orders : ~(o.buyer = session[s].buyer /\ o.key = session[s].key)
<1>1. /\ session[s].buyer \in Buyers /\ session[s].key \in Keys
      /\ session[s].id \in 1..MaxClaims
  BY WorkingKinds DEF CInv, TypeOK
<1>2. Claimed(s) = [status |-> "pending", id |-> session[s].id]
  BY DEF CInv, Sound, Claimed
<1>3. ASSUME NEW u \in Sessions \ {s}, session[u].at \in Working,
             session[u].buyer = session[s].buyer, session[u].key = session[s].key
      PROVE  FALSE
  <2>1. Claimed(u) = [status |-> "pending", id |-> session[u].id]
    BY <1>3 DEF CInv, Sound, Claimed
  <2>2. session[u].id = session[s].id
    BY <1>2, <1>3, <2>1 DEF Claimed
  <2> QED
    BY <1>3, <2>2 DEF CInv, OneOwner
<1>4. ASSUME NEW o \in orders, o.buyer = session[s].buyer, o.key = session[s].key
      PROVE  FALSE
  BY <1>2, <1>4 DEF CInv, PlacedIsRemembered, Claimed
<1> QED
  BY <1>1, <1>2, <1>3, <1>4

-----------------------------------------------------------------------------
\* A step that writes no claim, order or reservation: at most one request
\* goes on, and has no claim that it did not have.
LEMMA Remember ==
    ASSUME CInv, session' \in [Sessions -> Request],
           cart' \in [Buyers -> Payload], stock' \in [Products -> Nat],
           UNCHANGED <<claim, claims, orders, redeemed, held, used>>,
           \A u \in Sessions :
              \/ session'[u] = session[u]
              \/ /\ Sound(session'[u])
                 /\ session'[u].at \in Working =>
                       session[u].at \in Working /\ session'[u].id = session[u].id
    PROVE  CInv'
<1>1. TypeOK'
  BY DEF CInv, TypeOK
<1>2. OneOwner'
  BY DEF CInv, OneOwner
<1>3. IdsGiven'
  BY DEF CInv, IdsGiven
<1>4. \A id : Alive(id)' => Alive(id)
  BY AliveWorks DEF Alive, Working
<1>5. ASSUME NEW u \in Sessions PROVE Sound(session[u])'
  <2>1. Sound(session'[u])
    BY DEF CInv
  <2> QED
    BY <1>4, <2>1 DEF Sound
<1>6. PlacedIsRemembered' /\ BudgetKept' /\ FirstAttemptIsHeld'
  BY DEF CInv, PlacedIsRemembered, BudgetKept, FirstAttemptIsHeld
<1> QED
  BY <1>1, <1>2, <1>3, <1>5, <1>6 DEF CInv

\* The same, for one request.
LEMMA GoesOn ==
    ASSUME CInv, NEW s \in Sessions, NEW t \in Request, Become(s, t), Sound(t),
           t.at \in Working => session[s].at \in Working /\ t.id = session[s].id,
           cart' \in [Buyers -> Payload], stock' \in [Products -> Nat],
           UNCHANGED <<claim, claims, orders, redeemed, held, used>>
    PROVE  CInv'
<1>1. session' = [session EXCEPT ![s] = t] /\ session \in [Sessions -> Request]
  BY DEF Become, CInv, TypeOK
<1>2. session' \in [Sessions -> Request]
  BY <1>1
<1>3. \A u \in Sessions : session'[u] = IF u = s THEN t ELSE session[u]
  BY <1>1
<1> QED
  BY <1>2, <1>3, Remember

LEMMA StopKeeps == ASSUME CInv, NEW s \in Sessions, Stop(s) PROVE CInv'
<1>1. /\ cart' \in [Buyers -> Payload] /\ stock' \in [Products -> Nat]
      /\ UNCHANGED <<claim, claims, orders, redeemed, held, used>>
  BY DEF Stop, commerce, inventory, CInv, TypeOK
<1> QED
  BY <1>1, GoesOn, IdleIsSound DEF Stop

LEMMA CartKeeps ==
    ASSUME CInv, NEW b \in Buyers, NEW p \in Products, Cart(b, p) PROVE CInv'
<1>1. cart \in [Buyers -> Payload] /\ cart[b].lines \in Lines /\ cart[b].voucher \in BOOLEAN
  BY DEF CInv, TypeOK, Payload
<1>2. PICK q \in 0..MaxQty : SetLine(b, p, q)
  <2>1. CASE AddCartItem(b, p)
    <3>1. PICK q \in 1..MaxQty : /\ cart[b].lines[p] + q <= MaxQty
                                 /\ SetLine(b, p, cart[b].lines[p] + q)
      BY <2>1 DEF AddCartItem
    <3>2. cart[b].lines[p] + q \in 0..MaxQty
      BY <1>1, <3>1, CheckoutBounds DEF Lines
    <3> QED
      BY <3>1, <3>2
  <2>2. CASE UpdateCartItem(b, p)
    BY <2>2, CheckoutBounds DEF UpdateCartItem
  <2>3. CASE DeleteCartItem(b, p)
    BY <2>3, CheckoutBounds DEF DeleteCartItem
  <2> QED
    BY <2>1, <2>2, <2>3 DEF Cart
<1>3. cart' = [cart EXCEPT ![b].lines[p] = q]
  BY <1>2 DEF SetLine
<1>4. cart' \in [Buyers -> Payload]
  <2>1. [cart[b].lines EXCEPT ![p] = q] \in Lines
    BY <1>1 DEF Lines
  <2>2. [cart[b] EXCEPT !.lines[p] = q] \in Payload
    BY <1>1, <2>1 DEF Payload
  <2> QED
    BY <1>1, <1>3, <2>2
<1> QED
  BY <1>2, <1>4, Remember DEF SetLine, inventory, CInv, TypeOK

LEMMA SupplyKeeps == ASSUME CInv, Supply PROVE CInv'
<1>1. stock' \in [Products -> Nat]
  BY CheckoutBounds DEF Supply
<1> QED
  BY <1>1, Remember DEF Supply, commerce, CInv, TypeOK

LEMMA VoucherKeeps == ASSUME CInv, NEW s \in Sessions, Voucher(s) PROVE CInv'
<1>1. ASSUME NEW b \in Buyers, ApplyVoucher(s, b) PROVE CInv'
  <2> DEFINE t == [at |-> "apply", buyer |-> b]
  <2>1. t \in Request /\ Sound(t) /\ t.at \notin Working
    BY DEF Request, Sound, Working
  <2>2. Become(s, t)
    BY <1>1 DEF ApplyVoucher
  <2> HIDE DEF t
  <2> QED
    BY <1>1, <2>1, <2>2, GoesOn DEF ApplyVoucher, commerce, inventory, CInv, TypeOK
<1>2. CASE SetCartVoucher(s)
  <2>1. session[s].buyer \in Buyers
    BY <1>2, RequestKinds DEF SetCartVoucher, CInv, TypeOK
  <2>2. cart' \in [Buyers -> Payload]
    BY <1>2, <2>1 DEF SetCartVoucher, CInv, TypeOK, Payload
  <2> QED
    BY <1>2, <2>2, GoesOn, IdleIsSound DEF SetCartVoucher, inventory, CInv, TypeOK
<1> QED
  BY <1>1, <1>2 DEF Voucher

-----------------------------------------------------------------------------
\* The steps of a checkout that only read.
LEMMA ReadCartKeeps ==
    ASSUME CInv, NEW s \in Sessions, NEW b \in Buyers, NEW k \in Keys, ReadCart(s, b, k)
    PROVE  CInv'
<1> DEFINE t == [at |-> "lines", buyer |-> b, key |-> k, voucher |-> cart[b].voucher]
<1>1. cart[b].voucher \in BOOLEAN
  BY DEF CInv, TypeOK, Payload
<1>2. t \in Request
  BY <1>1 DEF Request
<1>3. Sound(t) /\ t.at \notin Working
  BY DEF Sound, Working
<1>4. Become(s, t)
  BY DEF ReadCart
<1> HIDE DEF t
<1> QED
  BY <1>2, <1>3, <1>4, GoesOn DEF ReadCart, commerce, inventory, CInv, TypeOK

LEMMA ReadLinesKeeps == ASSUME CInv, NEW s \in Sessions, ReadLines(s) PROVE CInv'
<1> DEFINE b == session[s].buyer
           k == session[s].key
           pl == [lines |-> cart[b].lines, voucher |-> session[s].voucher]
           t == [at |-> "claim", buyer |-> b, key |-> k, stale |-> 0, payload |-> pl]
<1>1. b \in Buyers /\ k \in Keys /\ session[s].voucher \in BOOLEAN
  BY RequestKinds DEF ReadLines, CInv, TypeOK
<1>2. pl \in Payload
  BY <1>1 DEF CInv, TypeOK, Payload
<1>3. Become(s, t)
  BY DEF ReadLines
<1> HIDE DEF pl
<1>4. t \in Request
  BY <1>1, <1>2, CheckoutBounds DEF Request
<1>5. Sound(t) /\ t.at \notin Working
  BY DEF Sound, Working
<1> HIDE DEF t
<1> QED
  BY <1>3, <1>4, <1>5, GoesOn DEF ReadLines, commerce, inventory, CInv, TypeOK

LEMMA AnswerKeeps == ASSUME CInv, NEW s \in Sessions, AnswerClaimed(s) PROVE CInv'
BY GoesOn, IdleIsSound DEF AnswerClaimed, commerce, inventory, CInv, TypeOK

LEMMA StalePendingKeeps == ASSUME CInv, NEW s \in Sessions, StalePending(s) PROVE CInv'
<1>1. session[s] \in [at : {"claim"}, buyer : Buyers, key : Keys, payload : Payload,
                      stale : (-1)..MaxClaims]
  BY RequestKinds DEF StalePending, CInv, TypeOK
<1>2. /\ Claimed(s).id \in 0..MaxClaims /\ Claimed(s).id <= claims
      /\ Claimed(s).status = "pending" /\ ~Alive(Claimed(s).id)
      /\ Claimed(s) = claim[session[s].buyer][session[s].key]
  BY <1>1 DEF Claimed, StalePending, CInv, TypeOK, IdsGiven, ClaimRow
<1> DEFINE t == [session[s] EXCEPT !.stale = Claimed(s).id]
<1>3. /\ t \in [at : {"claim"}, buyer : Buyers, key : Keys, payload : Payload,
                stale : (-1)..MaxClaims]
      /\ t.buyer = session[s].buyer /\ t.key = session[s].key /\ t.stale = Claimed(s).id
  BY <1>1, <1>2, CheckoutBounds
<1>4. Become(s, t)
  BY DEF StalePending
<1> HIDE DEF t
<1>5. t \in Request /\ t.at = "claim"
  BY <1>3 DEF Request
<1>6. Sound(t) /\ t.at \notin Working
  BY <1>2, <1>3, <1>5 DEF Sound, Working
<1> QED
  BY <1>4, <1>5, <1>6, GoesOn DEF StalePending, commerce, inventory, CInv, TypeOK

-----------------------------------------------------------------------------
(* The steps of an attempt that write nothing. *)

\* A request that gives up keeps its claim until it deletes it.
LEMMA Forgets ==
    ASSUME CInv, NEW s \in Sessions, session[s].at \in Working
    PROVE  /\ Forget(session[s]) \in Request /\ Sound(Forget(session[s]))
           /\ Forget(session[s]).at = "forget"
           /\ Forget(session[s]).id = session[s].id
           /\ Forget(session[s]).buyer = session[s].buyer
           /\ Forget(session[s]).key = session[s].key
BY ClaimIsOwned DEF Forget, Request, Sound, Working, Claimed

LEMMA RefuseKeeps == ASSUME CInv, NEW s \in Sessions, Refuse(s) PROVE CInv'
<1>1. session[s].at \in Working /\ Become(s, Forget(session[s]))
  BY DEF Refuse, Working
<1> QED
  BY <1>1, Forgets, GoesOn DEF Refuse, commerce, inventory, CInv, TypeOK

LEMMA ValidateKeeps == ASSUME CInv, NEW s \in Sessions, Validate(s) PROVE CInv'
<1>1. session[s] \in [at : {"claimed"}, buyer : Buyers, key : Keys, payload : Payload,
                      id : 1..MaxClaims, first : BOOLEAN]
  BY RequestKinds DEF Validate, CInv, TypeOK
<1> DEFINE t == [at |-> "reserve", buyer |-> session[s].buyer, key |-> session[s].key,
                 payload |-> session[s].payload, id |-> session[s].id,
                 first |-> session[s].first, done |-> {}]
<1>2. t \in Request
  BY <1>1 DEF Request
<1>3. Sound(session[s])
  BY DEF CInv
<1>4. Sound(t)
  BY <1>1, <1>3 DEF Sound, Working
<1>5. Become(s, t) /\ session[s].at \in Working /\ t.id = session[s].id
  BY DEF Validate, Working
<1> HIDE DEF t
<1> QED
  BY <1>2, <1>4, <1>5, GoesOn DEF Validate, commerce, inventory, CInv, TypeOK

LEMMA FailKeeps == ASSUME CInv, NEW s \in Sessions, Fail(s) PROVE CInv'
<1>1. session[s] \in [at : {"reserve"}, buyer : Buyers, key : Keys, payload : Payload,
                      id : 1..MaxClaims, first : BOOLEAN, done : SUBSET Products]
  BY RequestKinds DEF Fail, CInv, TypeOK
<1> DEFINE t == [at |-> "fail", buyer |-> session[s].buyer, key |-> session[s].key,
                 id |-> session[s].id, done |-> session[s].done]
<1>2. t \in Request
  BY <1>1 DEF Request
<1>3. Sound(session[s])
  BY DEF CInv
<1>4. Sound(t)
  BY <1>1, <1>3 DEF Sound, Working
<1>5. Become(s, t) /\ session[s].at \in Working /\ t.id = session[s].id
  BY DEF Fail, Working
<1> HIDE DEF t
<1> QED
  BY <1>2, <1>4, <1>5, GoesOn DEF Fail, commerce, inventory, CInv, TypeOK

-----------------------------------------------------------------------------
(* Claims *)

\* The new id is larger than any that was given, so it is nobody's.
LEMMA ClaimKeeps == ASSUME CInv, NEW s \in Sessions, ClaimIdempotency(s) PROVE CInv'
<1>1. session[s] \in [at : {"claim"}, buyer : Buyers, key : Keys, payload : Payload,
                      stale : (-1)..MaxClaims]
  BY RequestKinds DEF ClaimIdempotency, CInv, TypeOK
<1> DEFINE b == session[s].buyer
           k == session[s].key
           new == claims + 1
           row == [status |-> "pending", id |-> new]
           fresh == \A p \in Products : RequestId(b, k, p) \notin used
           t == [at |-> "claimed", buyer |-> b, key |-> k, payload |-> session[s].payload,
                 id |-> new, first |-> fresh]
<1>2. b \in Buyers /\ k \in Keys /\ claims \in Nat /\ new \in 1..MaxClaims
  BY <1>1, CheckoutBounds DEF ClaimIdempotency, CInv, TypeOK
<1>3. t \in Request
  <2>1. fresh \in BOOLEAN
    OBVIOUS
  <2> HIDE DEF fresh
  <2> QED
    BY <1>1, <1>2, <2>1 DEF Request
<1>4. /\ session' = [session EXCEPT ![s] = t] /\ claims' = new
      /\ claim' = [claim EXCEPT ![b][k] = row]
      /\ UNCHANGED <<cart, orders, redeemed, stock, held, used>>
  BY DEF ClaimIdempotency, Become, inventory
<1>5. t.at = "claimed" /\ t.id = new /\ t.buyer = b /\ t.key = k /\ (t.first <=> fresh)
  OBVIOUS
<1> HIDE DEF t, row, fresh
<1>6. /\ claim \in [Buyers -> [Keys -> ClaimRow]] /\ session \in [Sessions -> Request]
      /\ row \in ClaimRow /\ row = [status |-> "pending", id |-> new]
  BY <1>2 DEF CInv, TypeOK, ClaimRow, row
<1>7. \A c \in Buyers, j \in Keys :
         claim'[c][j] = IF c = b /\ j = k THEN row ELSE claim[c][j]
  BY <1>2, <1>4, <1>6
<1>8. TypeOK'
  <2>1. claim' \in [Buyers -> [Keys -> ClaimRow]]
    BY <1>2, <1>4, <1>6
  <2>2. session' \in [Sessions -> Request]
    BY <1>3, <1>4, <1>6
  <2> QED
    BY <1>2, <1>4, <2>1, <2>2 DEF CInv, TypeOK
<1>9. \A u \in Sessions : session[u].at \in Working => session[u].id <= claims
  <2> SUFFICES ASSUME NEW u \in Sessions, session[u].at \in Working
               PROVE  session[u].id <= claims
    OBVIOUS
  <2>1. /\ session[u].buyer \in Buyers /\ session[u].key \in Keys
        /\ Claimed(u) = [status |-> "pending", id |-> session[u].id]
    BY ClaimIsOwned
  <2>2. Claimed(u).id <= claims
    BY <2>1 DEF CInv, IdsGiven, Claimed
  <2> QED
    BY <2>1, <2>2
<1>10. \A u \in Sessions : session'[u] = IF u = s THEN t ELSE session[u]
  BY <1>4, <1>6
<1>11. OneOwner'
  BY <1>2, <1>5, <1>9, <1>10 DEF CInv, OneOwner
<1>12. IdsGiven'
  <2> SUFFICES ASSUME NEW c \in Buyers, NEW j \in Keys PROVE claim'[c][j].id <= claims'
    BY DEF IdsGiven
  <2>1. claim[c][j].id \in Nat /\ claim[c][j].id <= claims
    BY <1>6, CheckoutBounds DEF CInv, IdsGiven, ClaimRow
  <2> QED
    BY <1>2, <1>4, <1>6, <1>7, <2>1
<1>13. claim[b][k].status = "none"
  BY DEF ClaimIdempotency, Claimed
<1>14. ASSUME NEW u \in Sessions PROVE Sound(session[u])'
  <2>1. CASE u = s
    BY <1>2, <1>4, <1>5, <1>6, <1>7, <1>10, <2>1 DEF Sound, Working, fresh
  <2>2. CASE u # s
    <3>1. session'[u] = session[u] /\ Sound(session[u]) /\ session[u] \in Request
      BY <1>6, <1>10, <2>2 DEF CInv
    <3>2. session[u].at \in Working =>
             claim'[session[u].buyer][session[u].key]
                = [status |-> "pending", id |-> session[u].id]
      BY <1>7, <1>13, <3>1, WorkingKinds DEF Sound
    <3>3. ASSUME session[u].at = "claim", session[u].stale > 0
          PROVE  /\ session[u].stale <= claims'
                 /\ ~Alive(session[u].stale)'
                 /\ claim'[session[u].buyer][session[u].key].id = session[u].stale =>
                       claim'[session[u].buyer][session[u].key].status = "pending"
      <4>1. /\ session[u].stale \in Int /\ session[u].stale <= claims
            /\ ~Alive(session[u].stale)
            /\ session[u].buyer \in Buyers /\ session[u].key \in Keys
        BY <3>1, <3>3, RequestKinds DEF Sound
      <4>2. ~Alive(session[u].stale)'
        <5>1. ASSUME NEW v \in Sessions, session'[v].at \in Working,
                     session'[v].id = session[u].stale
              PROVE  FALSE
          <6>1. CASE v = s
            <7>1. session'[v].id = new
              BY <1>5, <1>10, <6>1
            <7> QED
              BY <1>2, <4>1, <5>1, <7>1
          <6>2. CASE v # s
            BY <1>10, <4>1, <5>1, <6>2, AliveWorks
          <6> QED
            BY <6>1, <6>2
        <5> QED
          BY <3>1, <5>1 DEF Alive, Working
      <4> QED
        BY <1>2, <1>4, <1>6, <1>7, <3>1, <3>3, <4>1, <4>2 DEF Sound
    <3> QED
      BY <1>4, <3>1, <3>2, <3>3 DEF Sound
  <2> QED
    BY <2>1, <2>2
<1>15. PlacedIsRemembered'
  <2> SUFFICES ASSUME NEW o \in orders
               PROVE  /\ claim'[o.buyer][o.key].status = "completed"
                      /\ claim'[o.buyer][o.key].id = o.claim
    BY <1>4 DEF PlacedIsRemembered
  <2>1. o.buyer \in Buyers /\ o.key \in Keys
    BY DEF CInv, TypeOK, Order
  <2>2. claim[o.buyer][o.key].status = "completed"
    BY DEF CInv, PlacedIsRemembered
  <2> QED
    BY <1>7, <1>13, <2>1, <2>2 DEF CInv, PlacedIsRemembered
<1>16. BudgetKept' /\ FirstAttemptIsHeld'
  BY <1>4 DEF CInv, BudgetKept, FirstAttemptIsHeld
<1> QED
  BY <1>8, <1>11, <1>12, <1>14, <1>15, <1>16 DEF CInv

Remove(b, k) == claim' = [claim EXCEPT ![b][k] = NoClaim]

\* A pending claim is deleted by a request that goes on without one, and no
\* other has it.
LEMMA RowDeleted ==
    ASSUME CInv, NEW s \in Sessions, NEW b \in Buyers, NEW k \in Keys, NEW t \in Request,
           claim[b][k].status = "pending", Remove(b, k),
           Become(s, t), t.at \notin Working, t.at = "claim" => t.stale <= 0,
           \A u \in Sessions : /\ u # s /\ session[u].at \in Working
                               /\ session[u].buyer = b
                               => session[u].key # k,
           UNCHANGED <<cart, claims, orders, redeemed, stock, held, used>>
    PROVE  CInv'
<1>1. /\ session' = [session EXCEPT ![s] = t] /\ session \in [Sessions -> Request]
      /\ claim \in [Buyers -> [Keys -> ClaimRow]]
      /\ claims \in Nat
  BY CheckoutBounds DEF Become, CInv, TypeOK
<1>2. \A u \in Sessions : session'[u] = IF u = s THEN t ELSE session[u]
  BY <1>1
<1>3. NoClaim \in ClaimRow /\ NoClaim.id = 0 /\ NoClaim.status = "none"
  BY CheckoutBounds DEF NoClaim, ClaimRow
<1>4. \A c \in Buyers, j \in Keys :
         claim'[c][j] = IF c = b /\ j = k THEN NoClaim ELSE claim[c][j]
  BY <1>1 DEF Remove
<1>5. TypeOK'
  <2>1. claim' \in [Buyers -> [Keys -> ClaimRow]]
    BY <1>1, <1>3 DEF Remove
  <2> QED
    BY <1>1, <2>1 DEF CInv, TypeOK
<1>6. OneOwner'
  BY <1>2 DEF CInv, OneOwner
<1>7. IdsGiven'
  BY <1>1, <1>3, <1>4 DEF CInv, IdsGiven
<1>8. \A id : Alive(id)' => Alive(id)
  BY <1>2, AliveWorks DEF Alive, Working
<1>9. ASSUME NEW u \in Sessions PROVE Sound(session[u])'
  <2>1. CASE u = s
    BY <1>2, <2>1, RequestKinds DEF Sound, Working
  <2>2. CASE u # s
    <3>1. session'[u] = session[u] /\ Sound(session[u]) /\ session[u] \in Request
      BY <1>1, <1>2, <2>2 DEF CInv
    <3>2. session[u].at \in Working =>
             claim'[session[u].buyer][session[u].key]
                = [status |-> "pending", id |-> session[u].id]
      BY <1>4, <2>2, <3>1, WorkingKinds DEF Sound
    <3>3. ASSUME session[u].at = "claim", session[u].stale > 0,
                 claim'[session[u].buyer][session[u].key].id = session[u].stale
          PROVE  claim'[session[u].buyer][session[u].key].status = "pending"
      <4>1. session[u].buyer \in Buyers /\ session[u].key \in Keys
        BY <3>1, <3>3, RequestKinds
      <4> QED
        BY <1>3, <1>4, <3>1, <3>3, <4>1 DEF Sound
    <3> QED
      BY <1>1, <1>8, <3>1, <3>2, <3>3 DEF Sound
  <2> QED
    BY <2>1, <2>2
<1>10. PlacedIsRemembered'
  <2> SUFFICES ASSUME NEW o \in orders
               PROVE  claim'[o.buyer][o.key] = claim[o.buyer][o.key]
    BY DEF CInv, PlacedIsRemembered
  <2>1. o.buyer \in Buyers /\ o.key \in Keys
    BY DEF CInv, TypeOK, Order
  <2> QED
    BY <1>4, <2>1 DEF CInv, PlacedIsRemembered
<1>11. BudgetKept' /\ FirstAttemptIsHeld'
  BY <1>1 DEF CInv, BudgetKept, FirstAttemptIsHeld
<1> QED
  BY <1>5, <1>6, <1>7, <1>9, <1>10, <1>11 DEF CInv

LEMMA DeleteStaleKeeps == ASSUME CInv, NEW s \in Sessions, DeleteStale(s) PROVE CInv'
<1>1. session[s] \in [at : {"claim"}, buyer : Buyers, key : Keys, payload : Payload,
                      stale : (-1)..MaxClaims]
  BY RequestKinds DEF DeleteStale, CInv, TypeOK
<1>0. PICK b \in Buyers, k \in Keys : b = session[s].buyer /\ k = session[s].key
  BY <1>1
<1> DEFINE t == [session[s] EXCEPT !.stale = -1]
<1>2. /\ t \in [at : {"claim"}, buyer : Buyers, key : Keys, payload : Payload,
                stale : (-1)..MaxClaims]
      /\ t.at = "claim" /\ t.stale = -1
  BY <1>1, CheckoutBounds
<1>3. Become(s, t)
  BY DEF DeleteStale
<1> HIDE DEF t
<1>4. t \in Request /\ Sound(t) /\ t.at \notin Working
  BY <1>2 DEF Request, Sound, Working
<1>5. CASE claim[b][k].id = session[s].stale
  <2>1. /\ claim[b][k].status = "pending" /\ ~Alive(session[s].stale)
    BY <1>0, <1>5 DEF DeleteStale, CInv, Sound
  <2>2. Remove(b, k)
    BY <1>0, <1>5 DEF DeleteStale, Delete, Remove
  <2>3. \A u \in Sessions : /\ u # s /\ session[u].at \in Working
                            /\ session[u].buyer = b
                            => session[u].key # k
    <3> SUFFICES ASSUME NEW u \in Sessions, session[u].at \in Working,
                        session[u].buyer = b, session[u].key = k
                 PROVE  FALSE
      OBVIOUS
    <3>1. Claimed(u) = [status |-> "pending", id |-> session[u].id]
      BY ClaimIsOwned
    <3>2. session[u].id = session[s].stale
      BY <1>0, <1>5, <3>1 DEF Claimed
    <3> QED
      BY <2>1, <3>2, AliveWorks
  <2>4. UNCHANGED <<cart, claims, orders, redeemed, stock, held, used>>
    BY DEF DeleteStale, inventory
  <2>5. t.at = "claim" => t.stale <= 0
    BY <1>2
  <2> QED
    BY <1>3, <1>4, <2>1, <2>2, <2>3, <2>4, <2>5, RowDeleted
<1>6. CASE claim[b][k].id # session[s].stale
  <2>1. claim' = claim
    BY <1>0, <1>6 DEF DeleteStale, Delete
  <2> QED
    BY <1>3, <1>4, <2>1, GoesOn DEF DeleteStale, inventory, CInv, TypeOK
<1> QED
  BY <1>5, <1>6

LEMMA DeleteKeeps == ASSUME CInv, NEW s \in Sessions, DeleteIdempotency(s) PROVE CInv'
<1>1. session[s].at \in Working
  BY DEF DeleteIdempotency, Working
<1>0. PICK b \in Buyers, k \in Keys : b = session[s].buyer /\ k = session[s].key
  BY <1>1, ClaimIsOwned
<1>2. claim[b][k] = [status |-> "pending", id |-> session[s].id]
  BY <1>0, <1>1, ClaimIsOwned DEF Claimed
<1>3. Remove(b, k) /\ Become(s, Idle)
  BY <1>0, <1>2 DEF DeleteIdempotency, Delete, Remove
<1>4. Idle.at # "claim"
  BY DEF Idle
<1>5. /\ claim[b][k].status = "pending"
      /\ UNCHANGED <<cart, claims, orders, redeemed, stock, held, used>>
  BY <1>2 DEF DeleteIdempotency, inventory
<1>6. \A u \in Sessions : /\ u # s /\ session[u].at \in Working
                          /\ session[u].buyer = b
                          => session[u].key # k
  BY <1>0, <1>1, ClaimIsOwned
<1> QED
  BY <1>2, <1>3, <1>4, <1>5, <1>6, IdleIsSound, RowDeleted

-----------------------------------------------------------------------------
(* Reservations *)

LEMMA RequestIds ==
    /\ \A b \in Buyers, k \in Keys, p \in Products :
          RequestId(b, k, p) \in Buyers \X Keys \X Products
    /\ \A b, k, p, c, j, q :
          RequestId(b, k, p) = RequestId(c, j, q) => b = c /\ k = j /\ p = q
BY DEF RequestId

\* A request with a claim writes the rows of its own request ids only.
LEMMA OwnRowsWritten ==
    ASSUME CInv, NEW s \in Sessions, session[s].at \in Working,
           NEW t \in Request, Become(s, t), Sound(t)',
           t.at \in Working => t.id = session[s].id,
           stock' \in [Products -> Nat],
           held' \in [Buyers \X Keys \X Products -> [Products -> Nat]],
           used' \subseteq Buyers \X Keys \X Products,
           \A b \in Buyers, k \in Keys, p \in Products :
              b # session[s].buyer \/ k # session[s].key =>
                 /\ held'[RequestId(b, k, p)] = held[RequestId(b, k, p)]
                 /\ RequestId(b, k, p) \in used' => RequestId(b, k, p) \in used,
           UNCHANGED <<cart, claim, claims, orders, redeemed>>
    PROVE  CInv'
<1>1. session' = [session EXCEPT ![s] = t] /\ session \in [Sessions -> Request]
  BY DEF Become, CInv, TypeOK
<1>2. \A u \in Sessions : session'[u] = IF u = s THEN t ELSE session[u]
  BY <1>1
<1>3. TypeOK'
  BY <1>1 DEF CInv, TypeOK
<1>4. OneOwner' /\ IdsGiven'
  BY <1>2 DEF CInv, OneOwner, IdsGiven
<1>5. \A id : Alive(id)' => Alive(id)
  BY <1>2, AliveWorks DEF Alive, Working
<1>6. ASSUME NEW u \in Sessions PROVE Sound(session[u])'
  <2>1. CASE u = s
    BY <1>2, <2>1 DEF Sound, Alive
  <2>2. CASE u # s
    <3>1. session'[u] = session[u] /\ Sound(session[u]) /\ session[u] \in Request
      BY <1>1, <1>2, <2>2 DEF CInv
    <3>2. CASE session[u].at \in Working
      <4>1. /\ session[u].buyer \in Buyers /\ session[u].key \in Keys
            /\ session[u].buyer # session[s].buyer \/ session[u].key # session[s].key
        BY <2>2, <3>2, ClaimIsOwned
      <4>2. \A p \in Products : LET r == RequestId(session[u].buyer, session[u].key, p)
                                IN held'[r] = held[r] /\ (r \in used' => r \in used)
        BY <4>1
      <4> QED
        BY <3>1, <3>2, <4>2 DEF Sound, Working
    <3>3. CASE session[u].at \notin Working
      BY <1>5, <3>1, <3>3 DEF Sound, Working
    <3> QED
      BY <3>2, <3>3
  <2> QED
    BY <2>1, <2>2
<1>7. FirstAttemptIsHeld'
  <2> SUFFICES ASSUME NEW o \in orders, o.first, NEW p \in Products
               PROVE  held'[RequestId(o.buyer, o.key, p)][p] >= o.lines[p]
    BY DEF FirstAttemptIsHeld
  <2>1. o.buyer \in Buyers /\ o.key \in Keys
    BY DEF CInv, TypeOK, Order
  <2>2. o.buyer # session[s].buyer \/ o.key # session[s].key
    BY ClaimIsOwned
  <2> QED
    BY <2>1, <2>2 DEF CInv, FirstAttemptIsHeld
<1>8. PlacedIsRemembered' /\ BudgetKept'
  BY DEF CInv, PlacedIsRemembered, BudgetKept
<1> QED
  BY <1>3, <1>4, <1>6, <1>7, <1>8 DEF CInv

LEMMA ReserveKeeps ==
    ASSUME CInv, NEW s \in Sessions, NEW p \in Products, Reserve(s, p) PROVE CInv'
<1>1. session[s] \in [at : {"reserve"}, buyer : Buyers, key : Keys, payload : Payload,
                      id : 1..MaxClaims, first : BOOLEAN, done : SUBSET Products]
  BY RequestKinds DEF Reserve, CInv, TypeOK
<1> DEFINE b == session[s].buyer
           k == session[s].key
           r == RequestId(b, k, p)
           n == session[s].payload.lines[p]
<1>2. PICK t \in [at : {"reserve"}, buyer : Buyers, key : Keys, payload : Payload,
                  id : 1..MaxClaims, first : BOOLEAN, done : SUBSET Products] :
         /\ t = [session[s] EXCEPT !.done = @ \cup {p}]
         /\ t.at = "reserve" /\ t.buyer = b /\ t.key = k /\ t.id = session[s].id
         /\ t.first = session[s].first /\ t.payload = session[s].payload
         /\ t.done = session[s].done \cup {p}
  <2> DEFINE next == [session[s] EXCEPT !.done = @ \cup {p}]
  <2>1. /\ next \in [at : {"reserve"}, buyer : Buyers, key : Keys, payload : Payload,
                     id : 1..MaxClaims, first : BOOLEAN, done : SUBSET Products]
        /\ next.at = "reserve" /\ next.buyer = b /\ next.key = k
        /\ next.id = session[s].id
        /\ next.first = session[s].first /\ next.payload = session[s].payload
        /\ next.done = session[s].done \cup {p}
    BY <1>1
  <2>2. next = [session[s] EXCEPT !.done = @ \cup {p}]
    OBVIOUS
  <2> HIDE DEF next
  <2> QED
    BY <2>1, <2>2
<1>3. Become(s, t)
  BY <1>2 DEF Reserve
<1>4. p \notin session[s].done /\ b \in Buyers /\ k \in Keys /\ session[s].at \in Working
  BY <1>1 DEF Reserve, Working
<1>5. n \in 0..MaxQty
  BY <1>1 DEF Payload, Lines
<1>6. Sound(session[s])
  BY DEF CInv
<1>7. claim[b][k] = [status |-> "pending", id |-> session[s].id]
  BY <1>4, <1>6 DEF Sound
<1>8. t \in Request
  BY <1>2 DEF Request
<1>9. UNCHANGED <<cart, claim, claims, orders, redeemed>>
  BY DEF Reserve, commerce
<1>10. CASE r \in used /\ UNCHANGED inventory
  <2>1. ~session[s].first
    BY <1>4, <1>6, <1>10, <1>1 DEF Sound
  <2>2. Sound(t)
    BY <1>2, <1>7, <2>1 DEF Sound
  <2> QED
    BY <1>2, <1>3, <1>4, <1>8, <1>9, <1>10, <2>2, GoesOn DEF inventory, CInv, TypeOK
<1>11. CASE r \notin used /\ Inventory!Hold(r, p, n)
  <2>1. /\ stock[p] >= n /\ stock' = [stock EXCEPT ![p] = @ - n]
        /\ held' = [held EXCEPT ![r][p] = @ + n]
        /\ used' = used \cup {r}
    BY <1>11 DEF Inventory!Hold
  <2>2. r \in Buyers \X Keys \X Products
    BY <1>4, RequestIds
  <2>3. /\ stock \in [Products -> Nat] /\ used \subseteq Buyers \X Keys \X Products
        /\ held \in [Buyers \X Keys \X Products -> [Products -> Nat]]
    BY DEF CInv, TypeOK
  <2> HIDE DEF r, n, b, k
  <2>4. stock' \in [Products -> Nat]
    <3>1. stock[p] - n \in Nat
      BY <1>5, <2>1, <2>3, CheckoutBounds
    <3> QED
      BY <2>1, <2>3, <3>1
  <2>5. /\ held' \in [Buyers \X Keys \X Products -> [Products -> Nat]]
        /\ \A x \in Buyers \X Keys \X Products : x # r => held'[x] = held[x]
        /\ held'[r][p] >= n
        /\ \A q \in Products : q # p => held'[r][q] = held[r][q]
    <3>1. held[r] \in [Products -> Nat] /\ held[r][p] + n \in Nat /\ held[r][p] + n >= n
      BY <1>5, <2>2, <2>3, CheckoutBounds
    <3> QED
      BY <2>1, <2>2, <2>3, <3>1
  <2>6. used' \subseteq Buyers \X Keys \X Products
    BY <2>1, <2>2, <2>3
  <2>7. r = RequestId(b, k, p) /\ n = session[s].payload.lines[p]
        /\ b = session[s].buyer /\ k = session[s].key
    BY DEF r, n, b, k
  <2>8. \A q \in Products : q # p => RequestId(b, k, q) # r
    BY <2>7, RequestIds
  <2>9. Sound(t)'
    <3>1. claim'[t.buyer][t.key] = [status |-> "pending", id |-> t.id]
      BY <1>2, <1>7, <1>9, <2>7
    <3>2. ASSUME t.first, NEW q \in Products
          PROVE  /\ q \in t.done =>
                       held'[RequestId(t.buyer, t.key, q)][q] >= t.payload.lines[q]
                 /\ q \notin t.done => RequestId(t.buyer, t.key, q) \notin used'
      <4>1. CASE q = p
        BY <1>2, <2>5, <2>7, <4>1
      <4>2. CASE q # p
        <5>1. /\ q \in session[s].done =>
                    held[RequestId(b, k, q)][q] >= session[s].payload.lines[q]
              /\ q \notin session[s].done => RequestId(b, k, q) \notin used
          BY <1>1, <1>2, <1>6, <2>7, <3>2 DEF Sound
        <5>2. RequestId(b, k, q) \in Buyers \X Keys \X Products /\ RequestId(b, k, q) # r
          BY <1>4, <2>8, <4>2, RequestIds
        <5> QED
          BY <1>2, <2>1, <2>5, <2>7, <4>2, <5>1, <5>2
      <4> QED
        BY <4>1, <4>2
    <3>3. t.at = "reserve"
      BY <1>2
    <3> QED
      BY <3>1, <3>2, <3>3 DEF Sound
  <2>10. \A c \in Buyers, j \in Keys, q \in Products :
            c # session[s].buyer \/ j # session[s].key =>
               /\ held'[RequestId(c, j, q)] = held[RequestId(c, j, q)]
               /\ RequestId(c, j, q) \in used' => RequestId(c, j, q) \in used
    <3> SUFFICES ASSUME NEW c \in Buyers, NEW j \in Keys, NEW q \in Products,
                        c # b \/ j # k
                 PROVE  /\ held'[RequestId(c, j, q)] = held[RequestId(c, j, q)]
                        /\ RequestId(c, j, q) \in used' => RequestId(c, j, q) \in used
      BY <2>7
    <3>1. RequestId(c, j, q) \in Buyers \X Keys \X Products
      BY RequestIds
    <3>2. RequestId(c, j, q) # r
      BY <2>7, RequestIds
    <3> QED
      BY <2>1, <2>5, <3>1, <3>2
  <2> QED
    BY <1>2, <1>3, <1>4, <1>8, <1>9, <2>4, <2>5, <2>6, <2>9, <2>10, OwnRowsWritten
<1> QED
  BY <1>10, <1>11 DEF Reserve

LEMMA ReleaseKeeps ==
    ASSUME CInv, NEW s \in Sessions, ReleaseReservationAttempt(s) PROVE CInv'
<1>1. session[s] \in [at : {"fail"}, buyer : Buyers, key : Keys, id : 1..MaxClaims,
                      done : SUBSET Products]
  BY RequestKinds DEF ReleaseReservationAttempt, CInv, TypeOK
<1>2. session[s].at \in Working
  BY <1>1 DEF Working
<1>3. PICK t \in Request : t = Forget(session[s])
  BY <1>2, Forgets
<1>4. /\ t.at = "forget" /\ t.id = session[s].id
      /\ t.buyer = session[s].buyer /\ t.key = session[s].key /\ Sound(t)
  BY <1>2, <1>3, Forgets
<1>5. Become(s, t) /\ UNCHANGED <<cart, claim, claims, orders, redeemed>>
  BY <1>3 DEF ReleaseReservationAttempt, commerce
<1>6. CASE UNCHANGED inventory
  BY <1>2, <1>4, <1>5, <1>6, GoesOn DEF inventory, CInv, TypeOK
<1> DEFINE S == {RequestId(session[s].buyer, session[s].key, p) : p \in session[s].done}
<1>7. CASE Inventory!GiveBack(S)
  <2>1. IsFiniteSet(S)
    <3>1. IsFiniteSet(session[s].done)
      BY <1>1, FiniteAssumption, FS_Subset
    <3> DEFINE f == [p \in session[s].done |->
                      RequestId(session[s].buyer, session[s].key, p)]
    <3>2. f \in Surjection(session[s].done, S)
      BY DEF Surjection
    <3> HIDE DEF f, S
    <3> QED
      BY <3>1, <3>2, FS_Surjection
  <2>2. S \subseteq Buyers \X Keys \X Products
    BY <1>1, RequestIds
  <2>3. \A b, k, p : RequestId(b, k, p) \in S => b = session[s].buyer /\ k = session[s].key
    BY RequestIds
  <2> HIDE DEF S
  <2>4. \A f : Inventory!Total(f, S) \in Nat
    <3> TAKE f
    <3>1. Inventory!Total(f, S) = Total(f, S)
      BY DEF Inventory!Total, Inventory!Units, Total, Units, Inventory!Cardinality, Cardinality
    <3> QED
      BY <2>1, <3>1, TotalNat
  <2>5. /\ stock' = [p \in Products |-> stock[p] + Inventory!Total(
                         [r \in Buyers \X Keys \X Products |-> held[r][p]], S)]
        /\ held' = [r \in Buyers \X Keys \X Products |->
                      IF r \in S THEN [p \in Products |-> 0] ELSE held[r]]
        /\ used' = used
    BY <1>7 DEF Inventory!GiveBack
  <2>6. stock' \in [Products -> Nat]
    <3> SUFFICES ASSUME NEW p \in Products
                 PROVE  stock[p] + Inventory!Total(
                          [r \in Buyers \X Keys \X Products |-> held[r][p]], S) \in Nat
      BY <2>5
    <3>1. /\ Inventory!Total([r \in Buyers \X Keys \X Products |-> held[r][p]], S) \in Nat
          /\ stock[p] \in Nat
      BY <2>4 DEF CInv, TypeOK
    <3> QED
      BY <3>1
  <2>7. /\ held' \in [Buyers \X Keys \X Products -> [Products -> Nat]]
        /\ used' \subseteq Buyers \X Keys \X Products
    BY <2>5 DEF CInv, TypeOK
  <2>8. \A b \in Buyers, k \in Keys, p \in Products :
           b # session[s].buyer \/ k # session[s].key =>
              /\ held'[RequestId(b, k, p)] = held[RequestId(b, k, p)]
              /\ RequestId(b, k, p) \in used' => RequestId(b, k, p) \in used
    BY <2>3, <2>5, RequestIds
  <2>9. Sound(t)'
    <3>1. claim'[t.buyer][t.key] = [status |-> "pending", id |-> t.id]
      BY <1>4, <1>5 DEF Sound, Working
    <3> QED
      BY <1>4, <3>1 DEF Sound
  <2> QED
    BY <1>2, <1>4, <1>5, <2>6, <2>7, <2>8, <2>9, OwnRowsWritten
<1> QED
  BY <1>6, <1>7 DEF ReleaseReservationAttempt

-----------------------------------------------------------------------------
(* The order transaction *)

LEMMA LinesOrdered ==
    ASSUME NEW f \in Lines
    PROVE  \A p \in Products : p \notin Ordered(f) => f[p] = 0
BY CheckoutBounds DEF Lines, Ordered

\* What an order set looks like, and that none of it was there before.
LEMMA OrderSets ==
    ASSUME CInv, NEW s \in Sessions, session[s].at = "reserve",
           NEW d \in {FALSE, session[s].payload.voucher},
           NEW o \in OrderSet(session[s], d)
    PROVE  /\ o \in Order /\ o \notin orders
           /\ o.claim = session[s].id /\ o.redeemed = d /\ o.first = session[s].first
           /\ o.buyer = session[s].buyer /\ o.key = session[s].key
           /\ o.supplier \in {SupplierOf[p] : p \in Ordered(session[s].payload.lines)}
           /\ \A p \in Products : o.lines[p] =
                IF SupplierOf[p] = o.supplier THEN session[s].payload.lines[p] ELSE 0
<1>1. session[s] \in [at : {"reserve"}, buyer : Buyers, key : Keys, payload : Payload,
                      id : 1..MaxClaims, first : BOOLEAN, done : SUBSET Products]
  BY RequestKinds DEF CInv, TypeOK
<1>2. session[s].payload.lines \in Lines /\ session[s].payload.voucher \in BOOLEAN
  BY <1>1 DEF Payload
<1>3. PICK x \in {SupplierOf[p] : p \in Ordered(session[s].payload.lines)} :
         o = [claim |-> session[s].id, buyer |-> session[s].buyer, key |-> session[s].key,
              supplier |-> x, first |-> session[s].first, redeemed |-> d,
              lines |-> [p \in Products |->
                  IF SupplierOf[p] = x THEN session[s].payload.lines[p] ELSE 0]]
  BY DEF OrderSet
<1>4. x \in Suppliers
  BY SupplierOfAssumption DEF Ordered
<1>5. [p \in Products |-> IF SupplierOf[p] = x THEN session[s].payload.lines[p] ELSE 0] \in Lines
  BY <1>2, CheckoutBounds DEF Lines
<1>6. o \in Order
  BY <1>1, <1>2, <1>3, <1>4, <1>5 DEF Order
<1>7. o \notin orders
  BY <1>1, <1>3, ClaimIsOwned DEF Working
<1> QED
  BY <1>3, <1>6, <1>7

LEMMA CreateKeeps == ASSUME CInv, NEW s \in Sessions, CreateOrderSet(s) PROVE CInv'
<1>1. session[s] \in [at : {"reserve"}, buyer : Buyers, key : Keys, payload : Payload,
                      id : 1..MaxClaims, first : BOOLEAN, done : SUBSET Products]
  BY RequestKinds DEF CreateOrderSet, CInv, TypeOK
<1>2. session[s].at = "reserve" /\ session[s].at \in Working
  BY <1>1 DEF Working
<1>3. PICK b \in Buyers, k \in Keys, id \in 1..MaxClaims :
         b = session[s].buyer /\ k = session[s].key /\ id = session[s].id
  BY <1>1
<1>4. claim[b][k] = [status |-> "pending", id |-> id]
  BY <1>2, <1>3, ClaimIsOwned DEF Claimed
<1>5. PICK d \in {FALSE, session[s].payload.voucher} :
         orders' = orders \cup OrderSet(session[s], d)
  BY DEF CreateOrderSet
<1>6. /\ session' = [session EXCEPT ![s] = Idle] /\ session \in [Sessions -> Request]
      /\ claim' = [claim EXCEPT ![b][k].status = "completed"]
      /\ cart' = [cart EXCEPT ![b].lines = NoLines, ![b].voucher = FALSE]
      /\ UNCHANGED <<claims, stock, held, used>>
      /\ claim \in [Buyers -> [Keys -> ClaimRow]] /\ cart \in [Buyers -> Payload]
  BY <1>3, <1>4 DEF CreateOrderSet, Become, Claimed, inventory, CInv, TypeOK
<1>7. \A u \in Sessions : session'[u] = IF u = s THEN Idle ELSE session[u]
  BY <1>6
<1>8. \A c \in Buyers, j \in Keys :
         /\ claim'[c][j].id = claim[c][j].id
         /\ claim'[c][j].status = IF c = b /\ j = k THEN "completed" ELSE claim[c][j].status
         /\ c # b \/ j # k => claim'[c][j] = claim[c][j]
         /\ claim'[c][j] \in ClaimRow
  <2>1. [claim[b][k] EXCEPT !.status = "completed"] = [status |-> "completed", id |-> id]
    BY <1>4
  <2>2. [status |-> "completed", id |-> id] \in ClaimRow
    BY CheckoutBounds DEF ClaimRow
  <2>3. claim'[b][k] = [status |-> "completed", id |-> id]
    BY <1>6, <2>1
  <2> QED
    BY <1>4, <1>6, <2>2, <2>3
<1>9. cart' \in [Buyers -> Payload]
  <2>1. NoLines \in Lines
    BY CheckoutBounds DEF NoLines, Lines
  <2>2. [lines |-> NoLines, voucher |-> FALSE] \in Payload
    BY <2>1 DEF Payload
  <2>3. cart'[b] = [lines |-> NoLines, voucher |-> FALSE]
    BY <1>6 DEF Payload
  <2> QED
    BY <1>6, <2>2, <2>3
<1>10. /\ redeemed \in 0..Budget /\ redeemed' \in 0..Budget /\ redeemed <= redeemed'
       /\ d => redeemed' = redeemed + 1
  <2>1. /\ redeemed \in 0..Budget /\ session[s].payload.voucher \in BOOLEAN
        /\ ConsumeBudget(session[s].payload.voucher)
    BY <1>1 DEF CreateOrderSet, CInv, TypeOK, Payload
  <2>2. CASE session[s].payload.voucher
    <3>1. redeemed < Budget /\ redeemed' = redeemed + 1
      BY <2>1, <2>2 DEF ConsumeBudget
    <3> QED
      BY <2>1, <3>1, CheckoutBounds
  <2>3. CASE ~session[s].payload.voucher
    <3>1. redeemed' = redeemed /\ ~d
      BY <2>1, <2>3 DEF ConsumeBudget
    <3> QED
      BY <2>1, <3>1, CheckoutBounds
  <2> QED
    BY <2>2, <2>3
<1>11. TypeOK'
  <2>1. claim' \in [Buyers -> [Keys -> ClaimRow]]
    BY <1>6, <1>8
  <2>2. session' \in [Sessions -> Request]
    BY <1>6, IdleIsSound
  <2>3. orders' \subseteq Order
    BY <1>2, <1>5, OrderSets DEF CInv, TypeOK
  <2> QED
    BY <1>6, <1>9, <1>10, <2>1, <2>2, <2>3 DEF CInv, TypeOK
<1>12. OneOwner'
  BY <1>7, IdleIsSound DEF CInv, OneOwner
<1>13. IdsGiven'
  BY <1>6, <1>8 DEF CInv, IdsGiven
<1>14. \A i : Alive(i)' => Alive(i)
  BY <1>7, AliveWorks, IdleIsSound DEF Alive, Working
<1>15. Alive(id)
  BY <1>2, <1>3, AliveWorks
<1>16. ASSUME NEW u \in Sessions PROVE Sound(session[u])'
  <2>1. CASE u = s
    BY <1>7, <2>1 DEF Sound, Idle, Working
  <2>2. CASE u # s
    <3>1. session'[u] = session[u] /\ Sound(session[u]) /\ session[u] \in Request
      BY <1>6, <1>7, <2>2 DEF CInv
    <3>2. CASE session[u].at \in Working
      <4>1. /\ session[u].buyer \in Buyers /\ session[u].key \in Keys
            /\ session[u].buyer # b \/ session[u].key # k
        BY <1>2, <1>3, <2>2, <3>2, ClaimIsOwned
      <4>2. claim'[session[u].buyer][session[u].key] = claim[session[u].buyer][session[u].key]
        BY <1>8, <4>1
      <4> QED
        BY <1>6, <3>1, <3>2, <4>2 DEF Sound, Working
    <3>3. CASE session[u].at = "claim" /\ session[u].stale > 0
      <4>1. session[u].buyer \in Buyers /\ session[u].key \in Keys
        BY <3>1, <3>3, RequestKinds
      <4>2. session[u].stale # id
        BY <1>15, <3>1, <3>3 DEF Sound
      <4> QED
        BY <1>4, <1>6, <1>8, <1>14, <3>1, <3>3, <4>1, <4>2 DEF Sound, Working
    <3> QED
      BY <3>1, <3>2, <3>3 DEF Sound, Working
  <2> QED
    BY <2>1, <2>2
<1>set. ASSUME NEW o \in OrderSet(session[s], d)
       PROVE  /\ o.claim = id /\ o.redeemed = d /\ o.first = session[s].first
              /\ o.buyer = b /\ o.key = k
              /\ \A p \in Products : o.lines[p] =
                   IF SupplierOf[p] = o.supplier THEN session[s].payload.lines[p] ELSE 0
  <2>1. PICK x \in {SupplierOf[p] : p \in Ordered(session[s].payload.lines)} :
           o = [claim |-> session[s].id, buyer |-> session[s].buyer, key |-> session[s].key,
                supplier |-> x, first |-> session[s].first, redeemed |-> d,
                lines |-> [p \in Products |->
                    IF SupplierOf[p] = x THEN session[s].payload.lines[p] ELSE 0]]
    BY DEF OrderSet
  <2> QED
    BY <1>3, <2>1
<1>17. PlacedIsRemembered'
  <2> SUFFICES ASSUME NEW o \in orders'
               PROVE  /\ claim'[o.buyer][o.key].status = "completed"
                      /\ claim'[o.buyer][o.key].id = o.claim
    BY DEF PlacedIsRemembered
  <2>1. CASE o \in orders
    <3>1. o.buyer \in Buyers /\ o.key \in Keys
      BY <2>1 DEF CInv, TypeOK, Order
    <3> QED
      BY <1>8, <2>1, <3>1 DEF CInv, PlacedIsRemembered
  <2>2. CASE o \in OrderSet(session[s], d)
    <3>1. o.buyer = b /\ o.key = k /\ o.claim = id
      BY <1>set, <2>2
    <3> QED
      BY <1>4, <1>8, <3>1
  <2> QED
    BY <1>5, <2>1, <2>2
<1>18. BudgetKept'
  <2> DEFINE D == {o.claim : o \in {x \in orders : x.redeemed}}
             E == {o.claim : o \in {x \in orders' : x.redeemed}}
  <2>1. Cardinality(D) <= redeemed
    BY DEF CInv, BudgetKept
  <2>2. IsFiniteSet(D)
    <3>1. D \subseteq 1..MaxClaims
      BY DEF CInv, TypeOK, Order
    <3>2. IsFiniteSet(1..MaxClaims)
      BY CheckoutBounds, FS_Interval
    <3> HIDE DEF D
    <3> QED
      BY <3>1, <3>2, FS_Subset
  <2>3. \A o \in OrderSet(session[s], d) : o.redeemed = d /\ o.claim = id
    BY <1>set
  <2>4. CASE ~d
    <3>1. E = D
      BY <1>5, <2>3, <2>4
    <3> HIDE DEF D, E
    <3>2. Cardinality(D) \in Nat
      BY <2>2, FS_CardinalityType
    <3>3. Cardinality(E) <= redeemed'
      BY <1>10, <2>1, <3>1, <3>2, CheckoutBounds
    <3> QED
      BY <1>10, <3>3, CheckoutBounds DEF BudgetKept, E
  <2>5. CASE d
    <3>1. E \subseteq D \cup {id}
      BY <1>5, <2>3
    <3> HIDE DEF D, E
    <3>2. IsFiniteSet(D \cup {id}) /\ Cardinality(D \cup {id}) <= Cardinality(D) + 1
      <4>1. Cardinality(D) \in Nat
        BY <2>2, FS_CardinalityType
      <4>2. /\ IsFiniteSet(D \cup {id})
            /\ Cardinality(D \cup {id}) =
                 IF id \in D THEN Cardinality(D) ELSE Cardinality(D) + 1
        BY <2>2, FS_AddElement
      <4> QED
        BY <4>1, <4>2
    <3>3. IsFiniteSet(E) /\ Cardinality(E) <= Cardinality(D \cup {id})
      BY <3>1, <3>2, FS_Subset
    <3>4. /\ Cardinality(D) \in Nat /\ Cardinality(E) \in Nat
          /\ Cardinality(D \cup {id}) \in Nat
      BY <2>2, <3>2, <3>3, FS_CardinalityType
    <3>5. Cardinality(E) <= redeemed'
      BY <1>10, <2>1, <2>5, <3>2, <3>3, <3>4, CheckoutBounds
    <3> QED
      BY <1>10, <3>5, CheckoutBounds DEF BudgetKept, E
  <2> QED
    BY <2>4, <2>5
<1>19. FirstAttemptIsHeld'
  <2> SUFFICES ASSUME NEW o \in orders', o.first, NEW p \in Products
               PROVE  held[RequestId(o.buyer, o.key, p)][p] >= o.lines[p]
    BY <1>6 DEF FirstAttemptIsHeld
  <2>1. CASE o \in orders
    BY <2>1 DEF CInv, FirstAttemptIsHeld
  <2>2. CASE o \in OrderSet(session[s], d)
    <3>1. /\ o.buyer = b /\ o.key = k /\ session[s].first
          /\ o.lines[p] = IF SupplierOf[p] = o.supplier
                          THEN session[s].payload.lines[p] ELSE 0
      <4>1. o.buyer = b /\ o.key = k /\ o.first = session[s].first
        BY <1>set, <2>2
      <4>2. \A q \in Products : o.lines[q] =
               IF SupplierOf[q] = o.supplier THEN session[s].payload.lines[q] ELSE 0
        BY <1>set, <2>2
      <4> QED
        BY <1>3, <4>1, <4>2
    <3>2. session[s].payload.lines \in Lines
      BY <1>1 DEF Payload
    <3>3. held[RequestId(b, k, p)][p] \in Nat
      BY RequestIds DEF CInv, TypeOK
    <3>4. CASE p \in session[s].done
      <4>1. held[RequestId(b, k, p)][p] >= session[s].payload.lines[p]
        BY <1>2, <1>3, <3>1, <3>4 DEF CInv, Sound
      <4> QED
        BY <3>1, <3>3, <4>1
    <3>5. CASE p \notin session[s].done
      <4>1. session[s].payload.lines[p] = 0
        BY <3>2, <3>5, LinesOrdered DEF CreateOrderSet
      <4> QED
        BY <3>1, <3>3, <4>1
    <3> QED
      BY <3>4, <3>5
  <2> QED
    BY <1>5, <2>1, <2>2
<1> QED
  BY <1>11, <1>12, <1>13, <1>16, <1>17, <1>18, <1>19 DEF CInv

-----------------------------------------------------------------------------
LEMMA CheckoutStarts == Init => CInv
<1> SUFFICES ASSUME Init PROVE CInv
  OBVIOUS
<1>1. TypeOK
  <2>1. NoLines \in Lines
    BY CheckoutBounds DEF NoLines, Lines
  <2>2. cart \in [Buyers -> Payload]
    BY <2>1 DEF Init, Payload
  <2>3. claim \in [Buyers -> [Keys -> ClaimRow]] /\ claims \in 0..MaxClaims
    BY CheckoutBounds DEF Init, NoClaim, ClaimRow
  <2>4. /\ stock \in [Products -> Nat] /\ used \subseteq Buyers \X Keys \X Products
        /\ held \in [Buyers \X Keys \X Products -> [Products -> Nat]]
    BY CheckoutBounds DEF Init, Inventory!HoldNothing
  <2>5. session \in [Sessions -> Request]
    BY IdleIsSound DEF Init
  <2>6. orders \subseteq Order /\ redeemed \in 0..Budget
    BY CheckoutBounds DEF Init
  <2> QED
    BY <2>2, <2>3, <2>4, <2>5, <2>6 DEF TypeOK
<1>2. OneOwner /\ \A s \in Sessions : Sound(session[s])
  BY IdleIsSound DEF Init, OneOwner
<1>3. IdsGiven
  BY DEF Init, IdsGiven, NoClaim
<1>4. PlacedIsRemembered /\ FirstAttemptIsHeld
  BY DEF Init, PlacedIsRemembered, FirstAttemptIsHeld
<1>5. BudgetKept
  <2>1. {o.claim : o \in {x \in orders : x.redeemed}} = {}
    BY DEF Init
  <2>2. redeemed = 0
    BY DEF Init
  <2> QED
    BY <2>1, <2>2, FS_EmptySet, CheckoutBounds DEF BudgetKept
<1> QED
  BY <1>1, <1>2, <1>3, <1>4, <1>5 DEF CInv

LEMMA CheckoutSteps == CInv /\ [Next]_vars => CInv'
<1> SUFFICES ASSUME CInv, [Next]_vars PROVE CInv'
  OBVIOUS
<1>1. CASE UNCHANGED vars
  BY <1>1, Remember DEF vars, commerce, inventory, CInv, TypeOK
<1>2. ASSUME NEW s \in Sessions, Key(s) PROVE CInv'
  BY <1>2, ReadCartKeeps, ReadLinesKeeps, ClaimKeeps, AnswerKeeps, StalePendingKeeps,
     DeleteStaleKeeps DEF Key
<1>3. ASSUME NEW s \in Sessions, Attempt(s) PROVE CInv'
  BY <1>3, RefuseKeeps, ValidateKeeps, FailKeeps, ReserveKeeps, CreateKeeps, ReleaseKeeps,
     DeleteKeeps DEF Attempt
<1> QED
  BY <1>1, <1>2, <1>3, CartKeeps, VoucherKeeps, StopKeeps, SupplyKeeps DEF Next, Handlers

LEMMA CheckoutInvariant == Spec => []CInv
BY CheckoutStarts, CheckoutSteps, PTL DEF Spec

\* The type invariant of Checkout: carts, claims, orders and requests stay well
\* typed, and the stock never becomes negative.
THEOREM CheckoutTypeCorrect == Spec => []TypeOK
<1>1. CInv => TypeOK
  BY DEF CInv
<1> QED
  BY <1>1, CheckoutInvariant, PTL

\* An order set is remembered by the claim that placed it, and so placed once,
\* whatever requests crash, retry and take claims over.
THEOREM OrdersAreRemembered == Spec => []PlacedIsRemembered
<1>1. CInv => PlacedIsRemembered
  BY DEF CInv
<1> QED
  BY <1>1, CheckoutInvariant, PTL

\* No more order sets use the voucher than its budget has redemptions.
THEOREM BudgetsAreKept == Spec => []BudgetKept
<1>1. CInv => BudgetKept
  BY DEF CInv
<1> QED
  BY <1>1, CheckoutInvariant, PTL

\* What the first attempt under a key reserved stays held for its orders: no
\* rollback of another request gives it back.
THEOREM FirstAttemptsAreHeld == Spec => []FirstAttemptIsHeld
<1>1. CInv => FirstAttemptIsHeld
  BY DEF CInv
<1> QED
  BY <1>1, CheckoutInvariant, PTL

\* Orders only ever appear as an order set for exactly what is in the cart.
LEMMA PlacedByCreate ==
    ASSUME CInv, NEW s \in Sessions, CreateOrderSet(s)
    PROVE  \E b \in Buyers :
              LET placed == orders' \ orders IN
              /\ \A o \in placed : o.buyer = b /\ (o.redeemed => cart[b].voucher)
              /\ \A p \in Products : \A o \in placed :
                   o.lines[p] = IF o.supplier = SupplierOf[p] THEN cart[b].lines[p] ELSE 0
              /\ \A p \in Ordered(cart[b].lines) : \E o \in placed :
                   o.supplier = SupplierOf[p]
              /\ Ordered(cart'[b].lines) = {}
<1>1. session[s].buyer \in Buyers /\ session[s].at = "reserve"
  BY RequestKinds DEF CreateOrderSet, CInv, TypeOK
<1>2. PICK b \in Buyers : b = session[s].buyer
  BY <1>1
<1>3. PICK d \in {FALSE, session[s].payload.voucher} :
         orders' = orders \cup OrderSet(session[s], d)
  BY DEF CreateOrderSet
<1>4. cart[b] = session[s].payload
  BY <1>2 DEF CreateOrderSet, SameCart
<1>5. orders' \ orders = OrderSet(session[s], d)
  BY <1>1, <1>3, OrderSets
<1>6. ASSUME NEW o \in orders' \ orders
      PROVE  /\ o.buyer = b /\ o.redeemed = d
             /\ \A p \in Products : o.lines[p] =
                  IF SupplierOf[p] = o.supplier THEN cart[b].lines[p] ELSE 0
  <2>1. o \in OrderSet(session[s], d)
    BY <1>5, <1>6
  <2>2. /\ o.redeemed = d /\ o.buyer = session[s].buyer
        /\ \A p \in Products : o.lines[p] =
             IF SupplierOf[p] = o.supplier THEN session[s].payload.lines[p] ELSE 0
    BY <1>1, <2>1, OrderSets
  <2> QED
    BY <1>2, <1>4, <2>2
<1>7. ASSUME d PROVE cart[b].voucher
  BY <1>3, <1>4, <1>7
<1>8. ASSUME NEW p \in Ordered(cart[b].lines)
      PROVE  \E o \in orders' \ orders : o.supplier = SupplierOf[p]
  <2> DEFINE t == session[s]
             x == SupplierOf[p]
             o == [claim |-> t.id, buyer |-> t.buyer, key |-> t.key, supplier |-> x,
                   first |-> t.first, redeemed |-> d,
                   lines |-> [q \in Products |->
                       IF SupplierOf[q] = x THEN t.payload.lines[q] ELSE 0]]
  <2>1. x \in {SupplierOf[q] : q \in Ordered(t.payload.lines)}
    BY <1>4
  <2>2. o.supplier = x
    OBVIOUS
  <2>3. o \in OrderSet(t, d)
    <3> HIDE DEF x
    <3> QED
      BY <2>1, Zenon DEF OrderSet
  <2> QED
    BY <1>5, <2>2, <2>3
<1>9. Ordered(cart'[b].lines) = {}
  <2>1. cart'[b].lines = NoLines
    BY <1>2 DEF CreateOrderSet, CInv, TypeOK, Payload
  <2> QED
    BY <2>1 DEF Ordered, NoLines
<1>10. \A o \in orders' \ orders : o.buyer = b /\ (o.redeemed => cart[b].voucher)
  BY <1>6, <1>7
<1>11. \A p \in Products : \A o \in orders' \ orders :
          o.lines[p] = IF o.supplier = SupplierOf[p] THEN cart[b].lines[p] ELSE 0
  BY <1>6
<1> QED
  BY <1>8, <1>9, <1>10, <1>11

\* Orders are exactly what is in the cart, and take it out of the cart.
THEOREM OrdersAreTheCart == Spec => PlacedIsTheCart
<1>1. ASSUME CInv, [Next]_vars, orders' # orders
      PROVE  \E b \in Buyers :
                LET placed == orders' \ orders IN
                /\ \A o \in placed : o.buyer = b /\ (o.redeemed => cart[b].voucher)
                /\ \A p \in Products : \A o \in placed :
                     o.lines[p] = IF o.supplier = SupplierOf[p] THEN cart[b].lines[p] ELSE 0
                /\ \A p \in Ordered(cart[b].lines) : \E o \in placed :
                     o.supplier = SupplierOf[p]
                /\ Ordered(cart'[b].lines) = {}
  <2>1. PICK s \in Sessions : CreateOrderSet(s)
    BY <1>1 DEF Next, Handlers, Supply, vars, commerce, Cart, AddCartItem, UpdateCartItem,
       DeleteCartItem, SetLine, Voucher, ApplyVoucher, SetCartVoucher, Key, ReadCart,
       ReadLines, ClaimIdempotency, AnswerClaimed, StalePending, DeleteStale, Attempt,
       Refuse, Validate, Fail, Reserve, ReleaseReservationAttempt, DeleteIdempotency, Stop
  <2>2. CInv
    BY <1>1
  <2> QED
    BY <2>1, <2>2, PlacedByCreate, ZenonT(40)
<1> QED
  BY <1>1, CheckoutInvariant, PTL DEF Spec, PlacedIsTheCart
=============================================================================
