------------------------------ MODULE Inventory ------------------------------
(***************************************************************************)
(* The inventory module of the platform: stock levels (one row per product *)
(* and supplier), the lots that make them up, reservations taken from lots *)
(* in first-expired-first-out order, and quarantine records.               *)
(*                                                                         *)
(* Every operation is one PostgreSQL transaction at READ COMMITTED.  Rows  *)
(* read FOR UPDATE (or updated) stay locked until the commit, so all that  *)
(* a transaction does from its last plain read on is one atomic step, its  *)
(* commit.  What it read without a lock before that is a step of its own,  *)
(* and the value read is kept in tx, where it may grow stale.  A lot that  *)
(* a transaction has updated while it still reads other rows is locked, and *)
(* so is a level.                                                          *)
(*                                                                         *)
(* Lots are numbered in FEFO order (expires_at, id).  is_quarantined and   *)
(* the status 'quarantined' are always written together and are one field. *)
(***************************************************************************)
EXTENDS Counting

CONSTANTS
    Levels,     \* stock levels: (product, supplier) pairs
    Lots,       \* lot rows, numbered in FEFO order
    LevelOf,    \* the stock level a lot row belongs to
    Numbers,    \* lot numbers suppliers use
    Requests,   \* request ids of reservations
    Procs,      \* concurrent database sessions
    Clerks,     \* those of them that serve suppliers and administrators
    MaxQty,     \* bound: the largest quantity one request asks for
    MaxPush,    \* bound: the largest quantity one push brings
    MaxDelta,   \* bound: the largest stock adjustment, up or down
    MaxRecords  \* bound: quarantine records per lot

ASSUME LotsAssumption == Lots \subseteq Nat /\ IsFiniteSet(Lots)
ASSUME LevelOfAssumption == LevelOf \in [Lots -> Levels]
ASSUME ClerksAssumption == Clerks \subseteq Procs
ASSUME RequestsAssumption == IsFiniteSet(Requests)
ASSUME BoundsAssumption == /\ MaxQty \in Nat
                           /\ MaxPush \in Nat
                           /\ MaxDelta \in Nat
                           /\ MaxRecords \in Nat

VARIABLES
    level,   \* inventory.stock_level: the counters of each level
    lot,     \* inventory.lot
    res,     \* inventory.reservation: one row per (request_id, lot_id) at most,
             \* with the lots that the transaction which inserted it reserved
    record,  \* inventory.quarantine_record, per lot in created_at order
    tx       \* what each session has read and not yet acted upon

vars == <<level, lot, res, record, tx>>

-----------------------------------------------------------------------------
\* Test variant: the CHECK (... >= 0) constraints are missing.
StorableNegative(n) == n <= MaxInt

\* What an INT column with CHECK (... >= 0) accepts.
Storable(n) == n \in 0..MaxInt

-----------------------------------------------------------------------------
(* Rows *)

AbsentLevel == [exists |-> FALSE, avail |-> 0, reserved |-> 0, total |-> 0]
AbsentLot == [status |-> "absent", number |-> "none", initial |-> 0,
              avail |-> 0, reserved |-> 0]
NoRow == [status |-> "none", qty |-> 0, grant |-> {}]
NoRecord == [status |-> "none", qty |-> 0]
Idle == [at |-> "idle"]

LotsOf(v) == {l \in Lots : LevelOf[l] = v}
Available == [l \in Lots |-> lot[l].avail]

\* The units each request holds on lot l.
HeldOn(l) == [r \in Requests |->
                IF res[r][l].status = "reserved" THEN res[r][l].qty ELSE 0]

\* Test variant: the query does not ask for active lots.
AllocatableAnyStatus(v) == {l \in LotsOf(v) : lot[l].avail > 0}

\* The lots GetFEFOLotsForUpdate returns for level v.
Allocatable(v) == {l \in LotsOf(v) : lot[l].status = "active" /\ lot[l].avail > 0}

\* Lots updated by a transaction that has not committed yet: a release holds
\* the lots of the rows it has given back while it reads those of the next id.
LockedBy(p, l) ==
    \/ tx[p].at \in {"quarantineLevel", "releaseLevel"} /\ tx[p].lot = l
    \/ /\ tx[p].at = "release"
       /\ \E r \in Requests : <<r, l>> \in tx[p].done /\ res[r][l].status = "reserved"

Locked(l) == \E p \in Procs : LockedBy(p, l)

\* A release holds the levels of those lots too.
LevelLockedBy(p, v) == tx[p].at = "release" /\ \E l \in LotsOf(v) : LockedBy(p, l)

\* UpdateStockLevelQuantities with values computed from a row read earlier.
WriteLevel(v, avail, reserved, total) ==
    /\ \A p \in Procs : ~LevelLockedBy(p, v)
    /\ Storable(avail) /\ Storable(reserved) /\ Storable(total)
    /\ level' = [level EXCEPT ![v] = [exists |-> TRUE, avail |-> avail,
                                      reserved |-> reserved, total |-> total]]

Begin(p, t) == tx[p] = Idle /\ tx' = [tx EXCEPT ![p] = t]
Commit(p) == tx' = [tx EXCEPT ![p] = Idle]

-----------------------------------------------------------------------------
Init ==
    /\ level = [v \in Levels |-> AbsentLevel]
    /\ lot = [l \in Lots |-> AbsentLot]
    /\ res = [r \in Requests |-> [l \in Lots |-> NoRow]]
    /\ record = [l \in Lots |-> [i \in 1..MaxRecords |-> NoRecord]]
    /\ tx = [p \in Procs |-> Idle]

-----------------------------------------------------------------------------
(* ReserveStock.  A request id with rows of any status is answered with     *)
(* those rows; otherwise the level is read (without a lock), the query for  *)
(* allocatable lots takes its snapshot, and the lots it finds are locked    *)
(* in FEFO order.  A lot that stops matching while the query waits for its  *)
(* lock is dropped; one that begins to match meanwhile is not seen.         *)

HasRows(r) == \E l \in Lots : res[r][l].status # "none"

ReserveStart(p, r, v, q) ==
    /\ level[v].exists
    /\ ~HasRows(r)
    /\ Begin(p, [at |-> "reserve", req |-> r, level |-> v, qty |-> q,
                 seen |-> level[v].total])
    /\ UNCHANGED <<level, lot, res, record>>

ReserveQuery(p) ==
    LET t == tx[p] IN
    /\ t.at = "reserve"
    /\ tx' = [tx EXCEPT ![p] = [at |-> "reserveLots", req |-> t.req, level |-> t.level,
                                qty |-> t.qty, seen |-> t.seen,
                                found |-> Allocatable(t.level)]]
    /\ UNCHANGED <<level, lot, res, record>>

\* Test variants: the query's order is reversed; the loop does not count
\* down what remains to be allocated.
TakeLatestFirst(from, q) ==
    [l \in Lots |->
        IF l \in from
        THEN AtMost(lot[l].avail,
                    AtLeastZero(q - Total(Available, {k \in from : k > l})))
        ELSE 0]
TakeFromEach(from, q) ==
    [l \in Lots |-> IF l \in from THEN AtMost(lot[l].avail, q) ELSE 0]

\* Each lot gives what the lots expiring before it could not.
Take(from, q) ==
    [l \in Lots |->
        IF l \in from
        THEN AtMost(lot[l].avail,
                    AtLeastZero(q - Total(Available, {k \in from : k < l})))
        ELSE 0]

\* Test variant: the unique index covers reserved rows only.
RowFreeUnlessReserved(r, l) == res[r][l].status # "reserved"

\* The unique index on (request_id, lot_id) refuses a second row.
RowFree(r, l) == res[r][l].status = "none"

\* Lot counters, rows and level are written together; the level keeps the
\* total that was read before the locks were taken.
ReserveCommit(p) ==
    LET t == tx[p]
        from == t.found \cap Allocatable(t.level)
        take == Take(from, t.qty)
    IN /\ t.at = "reserveLots"
       /\ \A l \in t.found : ~Locked(l)
       /\ Wrapped(Total(Available, from)) >= t.qty
       /\ \A l \in Lots : take[l] > 0 => /\ RowFree(t.req, l)
                                         /\ Storable(lot[l].reserved + take[l])
       /\ lot' = [l \in Lots |-> [lot[l] EXCEPT !.avail = @ - take[l],
                                                !.reserved = @ + take[l]]]
       /\ res' = [res EXCEPT ![t.req] = [l \in Lots |->
                    IF take[l] > 0 THEN [status |-> "reserved", qty |-> take[l],
                                         grant |-> {k \in Lots : take[k] > 0}]
                                   ELSE res[t.req][l]]]
       /\ WriteLevel(t.level, level[t.level].avail - t.qty,
                     level[t.level].reserved + t.qty, t.seen)
       /\ Commit(p)
       /\ UNCHANGED record

-----------------------------------------------------------------------------
(* ReleaseReservationAttempt.  For one request id after the other the rows  *)
(* are read, and for each that is still reserved the lot and the level are  *)
(* locked and restored.  A row that a reservation under the same id commits *)
(* after the read, while the release waits for a lock, is not among them.   *)
(* Of two releases of one row the first to get there gives it back, and the *)
(* other finds it released: the lot's lock orders them here.                *)

\* Test variant: the query returns one row.
FirstRow(r) == {<<r, l>> : l \in {k \in Lots :
                  /\ res[r][k].status # "none"
                  /\ \A j \in Lots : j < k => res[r][j].status = "none"}}

\* The rows of request id r.
Rows(r) == {<<r, l>> : l \in {k \in Lots : res[r][k].status # "none"}}

\* What the rows in R that are still reserved give back to each lot.
Given(R) == [l \in Lots |-> Total(HeldOn(l), {r \in Requests : <<r, l>> \in R})]

\* No other transaction holds the lot or the level of a reserved row in R.
Free(p, R) ==
    \A r \in Requests, l \in Lots :
        <<r, l>> \in R /\ res[r][l].status = "reserved" =>
            \A q \in Procs \ {p} : ~LockedBy(q, l) /\ ~LevelLockedBy(q, LevelOf[l])

ReleaseStart(p, r, S) ==
    /\ Begin(p, [at |-> "release", left |-> S \ {r}, done |-> {}, rows |-> Rows(r)])
    /\ UNCHANGED <<level, lot, res, record>>

\* The rows read are given back, to be committed later, and r's are read.
ReleaseNext(p, r) ==
    LET t == tx[p] IN
    /\ t.at = "release"
    /\ r \in t.left
    /\ Free(p, t.rows)
    /\ tx' = [tx EXCEPT ![p] = [at |-> "release", left |-> t.left \ {r},
                                done |-> t.done \cup t.rows, rows |-> Rows(r)]]
    /\ UNCHANGED <<level, lot, res, record>>

\* Test variant: the rows are released and their lots never restored.
ReleaseRowsOnly(p) ==
    /\ tx[p].at = "release" /\ tx[p].left = {}
    /\ res' = [r \in Requests |-> [l \in Lots |->
                 IF <<r, l>> \in tx[p].done \cup tx[p].rows /\ res[r][l].status = "reserved"
                 THEN [res[r][l] EXCEPT !.status = "released"]
                 ELSE res[r][l]]]
    /\ Commit(p)
    /\ UNCHANGED <<level, lot, record>>

\* The rows of the last id, and the commit of all of them.
ReleaseCommit(p) ==
    LET t == tx[p]
        rows == t.done \cup t.rows
        given == Given(rows)
    IN /\ t.at = "release" /\ t.left = {}
       /\ Free(p, rows)
       /\ \A l \in Lots : given[l] > 0 => /\ Storable(lot[l].avail + given[l])
                                          /\ Storable(lot[l].reserved - given[l])
       /\ \A v \in Levels : LET n == Total(given, LotsOf(v)) IN
            /\ Storable(level[v].avail + n)
            /\ Storable(level[v].reserved - n)
       /\ lot' = [l \in Lots |-> [lot[l] EXCEPT !.avail = @ + given[l],
                                                !.reserved = @ - given[l]]]
       /\ level' = [v \in Levels |-> LET n == Total(given, LotsOf(v)) IN
                      [level[v] EXCEPT !.avail = @ + n, !.reserved = @ - n]]
       /\ res' = [r \in Requests |-> [l \in Lots |->
                    IF <<r, l>> \in rows /\ res[r][l].status = "reserved"
                    THEN [res[r][l] EXCEPT !.status = "released"]
                    ELSE res[r][l]]]
       /\ Commit(p)
       /\ UNCHANGED record

-----------------------------------------------------------------------------
(* PushSupplierStock.  The level is read without a lock, then the lot with  *)
(* that number is locked and topped up, or a new lot (and level) inserted.  *)

PushStart(p, v, n, q) ==
    /\ Begin(p, [at |-> "push", level |-> v, number |-> n, qty |-> q,
                 lvl |-> level[v]])
    /\ UNCHANGED <<level, lot, res, record>>

Numbered(v, n) == {l \in LotsOf(v) : lot[l].status # "absent" /\ lot[l].number = n}

\* The level counters are computed from the row read at the start.
PushLevel(t) == WriteLevel(t.level, t.lvl.avail + t.qty, t.lvl.reserved,
                           t.lvl.total + t.qty)

PushTopUp(p) ==
    LET t == tx[p] IN
    /\ t.at = "push"
    /\ t.lvl.exists
    /\ \A l \in Numbered(t.level, t.number) : ~Locked(l)
    /\ \E l \in Numbered(t.level, t.number) :
         /\ lot[l].status # "quarantined"
         /\ Storable(lot[l].avail + t.qty)
         /\ lot' = [lot EXCEPT ![l].avail = @ + t.qty]
    /\ PushLevel(t)
    /\ Commit(p)
    /\ UNCHANGED <<res, record>>

\* No lot of that number: a new one will be inserted.
PushMiss(p) ==
    LET t == tx[p] IN
    /\ t.at = "push"
    /\ t.lvl.exists => Numbered(t.level, t.number) = {}
    /\ tx' = [tx EXCEPT ![p].at = "create"]
    /\ UNCHANGED <<level, lot, res, record>>

\* Nothing makes lot numbers unique; levels are, so inserting one that has
\* appeared in the meantime fails.
PushCreate(p) ==
    LET t == tx[p] IN
    /\ t.at = "create"
    /\ t.lvl.exists \/ ~level[t.level].exists
    /\ \E l \in LotsOf(t.level) :
         /\ lot[l].status = "absent"
         /\ lot' = [lot EXCEPT ![l] = [status |-> "active", number |-> t.number,
                                       initial |-> t.qty, avail |-> t.qty,
                                       reserved |-> 0]]
    /\ PushLevel(t)
    /\ Commit(p)
    /\ UNCHANGED <<res, record>>

-----------------------------------------------------------------------------
(* QuarantineLot.  The lot is read without a lock; its record is stamped    *)
(* with the time the transaction began.  The lot row is then updated,       *)
(* whatever it has become, and the level is read and rewritten.             *)

QuarantineStart(p, l) ==
    /\ lot[l].status = "active"
    /\ \E i \in 1..MaxRecords :
         /\ \A j \in i..MaxRecords : record[l][j].status = "none"
         /\ i > 1 => record[l][i - 1].status # "none"
         /\ record' = [record EXCEPT ![l][i].status = "pending"]
         /\ Begin(p, [at |-> "quarantine", lot |-> l, rec |-> i,
                      qty |-> lot[l].avail])
    /\ UNCHANGED <<level, lot, res>>

QuarantineLock(p) ==
    LET t == tx[p] IN
    /\ t.at = "quarantine"
    /\ ~Locked(t.lot)
    /\ tx' = [tx EXCEPT ![p] = [at |-> "quarantineLevel", lot |-> t.lot,
                                rec |-> t.rec, qty |-> t.qty,
                                lvl |-> level[LevelOf[t.lot]]]]
    /\ UNCHANGED <<level, lot, res, record>>

QuarantineCommit(p) ==
    LET t == tx[p] IN
    /\ t.at = "quarantineLevel"
    /\ lot' = [lot EXCEPT ![t.lot] = [@ EXCEPT !.status = "quarantined", !.avail = 0]]
    /\ record' = [record EXCEPT ![t.lot][t.rec] = [status |-> "quarantined",
                                                  qty |-> t.qty]]
    /\ WriteLevel(LevelOf[t.lot], AtLeastZero(t.lvl.avail - t.qty),
                  t.lvl.reserved, AtLeastZero(t.lvl.total - t.qty))
    /\ Commit(p)
    /\ UNCHANGED res

-----------------------------------------------------------------------------
(* ReleaseLot.  The latest open quarantine record says how much to restore; *)
(* a record of nothing falls back to the lot's initial quantity.            *)

LatestOpen(l) == {i \in 1..MaxRecords :
                    /\ record[l][i].status = "quarantined"
                    /\ \A j \in (i + 1)..MaxRecords : record[l][j].status # "quarantined"}

ReleaseLotStart(p, l) ==
    /\ \E i \in LatestOpen(l) :
         Begin(p, [at |-> "releaseLot", lot |-> l, rec |-> i,
                   qty |-> record[l][i].qty])
    /\ UNCHANGED <<level, lot, res, record>>

ReleaseLotLock(p) ==
    LET t == tx[p] IN
    /\ t.at = "releaseLot"
    /\ ~Locked(t.lot)
    /\ lot[t.lot].status = "quarantined"
    /\ tx' = [tx EXCEPT ![p] =
                [at |-> "releaseLevel", lot |-> t.lot, rec |-> t.rec,
                 qty |-> IF t.qty > 0 THEN t.qty ELSE lot[t.lot].initial,
                 lvl |-> level[LevelOf[t.lot]]]]
    /\ UNCHANGED <<level, lot, res, record>>

ReleaseLotCommit(p) ==
    LET t == tx[p] IN
    /\ t.at = "releaseLevel"
    /\ lot' = [lot EXCEPT ![t.lot] = [@ EXCEPT !.status = "active", !.avail = t.qty]]
    /\ record' = [record EXCEPT ![t.lot][t.rec] = [status |-> "released", qty |-> t.qty]]
    /\ WriteLevel(LevelOf[t.lot], t.lvl.avail + t.qty, t.lvl.reserved,
                  t.lvl.total + t.qty)
    /\ Commit(p)
    /\ UNCHANGED res

-----------------------------------------------------------------------------
(* AdjustStock: the lot is locked, and both counters move by relative       *)
(* updates, so nothing stale is written.                                    *)

AdjustStock(l, d) ==
    LET v == LevelOf[l] IN
    /\ lot[l].status = "active"
    /\ ~Locked(l)
    /\ Storable(lot[l].avail + d)
    /\ lot' = [lot EXCEPT ![l].avail = @ + d]
    /\ WriteLevel(v, level[v].avail + d, level[v].reserved, level[v].total + d)
    /\ UNCHANGED <<res, record, tx>>

\* WithTx rolls back on any error: too little stock, a second row for a
\* request and lot, a CHECK constraint, a level or lot that is not what it
\* should be, a lost connection or a cancelled request.
Rollback(p) ==
    LET t == tx[p] IN
    /\ t # Idle
    /\ record' = IF t.at \in {"quarantine", "quarantineLevel"}
                 THEN [record EXCEPT ![t.lot][t.rec] = NoRecord]
                 ELSE record
    /\ Commit(p)
    /\ UNCHANGED <<level, lot, res>>

-----------------------------------------------------------------------------
Reserve(p) == \/ \E r \in Requests, v \in Levels, q \in 1..MaxQty : ReserveStart(p, r, v, q)
              \/ ReserveQuery(p) \/ ReserveCommit(p)
Release(p) == \/ \E S \in SUBSET Requests : \E r \in S : ReleaseStart(p, r, S)
              \/ \E r \in Requests : ReleaseNext(p, r)
              \/ ReleaseCommit(p)
Push(p) == \/ \E v \in Levels, n \in Numbers, q \in 1..MaxPush : PushStart(p, v, n, q)
           \/ PushTopUp(p) \/ PushMiss(p) \/ PushCreate(p)
Quarantine(p) == \/ \E l \in Lots : QuarantineStart(p, l)
                 \/ QuarantineLock(p) \/ QuarantineCommit(p)
ReleaseLot(p) == \/ \E l \in Lots : ReleaseLotStart(p, l)
                 \/ ReleaseLotLock(p) \/ ReleaseLotCommit(p)

Next ==
    \/ \E p \in Procs : Reserve(p) \/ Release(p) \/ Rollback(p)
    \/ \E p \in Clerks : Push(p) \/ Quarantine(p) \/ ReleaseLot(p)
    \/ \E l \in Lots, d \in ((-MaxDelta)..MaxDelta) \ {0} : AdjustStock(l, d)

Spec == Init /\ [][Next]_vars

-----------------------------------------------------------------------------
(* Properties *)

LevelRow == [exists : BOOLEAN, avail : Int32, reserved : Int32, total : Int32]
LotRow == [status : {"absent", "active", "quarantined"},
           number : Numbers \cup {"none"},
           initial : Nat, avail : Int32, reserved : Int32]
ReservationRow == [status : {"none", "reserved", "released"}, qty : Int32,
                   grant : SUBSET Lots]
RecordRow == [status : {"none", "pending", "quarantined", "released"}, qty : Nat]

\* What a session remembers at each step of its transaction.
Session ==
    {Idle}
    \cup [at : {"reserve"}, req : Requests, level : Levels, qty : Nat, seen : Int32]
    \cup [at : {"reserveLots"}, req : Requests, level : Levels, qty : Nat, seen : Int32,
          found : SUBSET Lots]
    \cup [at : {"release"}, left : SUBSET Requests, done : SUBSET (Requests \X Lots),
          rows : SUBSET (Requests \X Lots)]
    \cup [at : {"push", "create"}, level : Levels, number : Numbers, qty : Nat,
          lvl : LevelRow]
    \cup [at : {"quarantine", "releaseLot"}, lot : Lots, rec : 1..MaxRecords, qty : Nat]
    \cup [at : {"quarantineLevel", "releaseLevel"}, lot : Lots, rec : 1..MaxRecords,
          qty : Nat, lvl : LevelRow]

\* The type invariant: in particular the counters stay within the CHECK
\* constraints of migration 000005, and a session holds what its next step uses.
TypeOK ==
    /\ level \in [Levels -> LevelRow]
    /\ lot \in [Lots -> LotRow]
    /\ res \in [Requests -> [Lots -> ReservationRow]]
    /\ record \in [Lots -> [1..MaxRecords -> RecordRow]]
    /\ tx \in [Procs -> Session]

\* A lot's reserved counter is exactly the number of units that rows still
\* in status 'reserved' hold on it, whatever mix of concurrent reserves,
\* releases, pushes, adjustments, quarantines and lot releases has run.
LotReservedExact == \A l \in Lots : lot[l].reserved = Total(HeldOn(l), Requests)

NewRow(r, l) == res[r][l].status = "none" /\ res'[r][l].status # "none"

\* Rule R5 of the product brief, for the lots ReserveStock's query has found: a
\* reservation takes from a lot only when the same step drains every lot the
\* query found that expires earlier and can still be allocated.
EarliestFirst ==
    [][\A r \in Requests, l \in Lots : NewRow(r, l) =>
         \E p \in Procs :
            /\ tx[p].at = "reserveLots" /\ tx[p].req = r
            /\ \A k \in tx[p].found \cap Allocatable(LevelOf[l]) :
                  k < l => lot'[k].avail = 0]_vars

\* ReserveStock is all or nothing: the rows one transaction creates add up
\* to the quantity some session asked for under that request id.
ReservesWhatWasAsked ==
    [][\A r \in Requests :
         (\E l \in Lots : NewRow(r, l)) =>
            \E p \in Procs :
               /\ tx[p].at = "reserveLots" /\ tx[p].req = r
               /\ tx[p].qty = Total([l \in Lots |-> IF NewRow(r, l) THEN res'[r][l].qty
                                                                  ELSE 0], Lots)]_vars

\* Rule R6 of the product brief, for quarantine: while a lot is
\* quarantined, or being quarantined, no reservation takes from it.
QuarantineBlocks ==
    [][\A l \in Lots : lot'[l].reserved > lot[l].reserved =>
         lot[l].status = "active" /\ ~Locked(l)]_vars

\* A row keeps its quantity for ever, is created as reserved, and is
\* released at most once: nothing is given back twice or taken again.
RowStep(a, b) ==
    \/ a = b
    \/ a.status = "none" /\ b.status = "reserved" /\ b.qty > 0
    \/ a.status = "reserved" /\ b = [a EXCEPT !.status = "released"]

ReservationHistory ==
    [][\A r \in Requests, l \in Lots : RowStep(res[r][l], res'[r][l])]_vars

\* A step that changes reservations moves units between the available and
\* the reserved side of each lot, and moves the level's counters with the
\* lots': it creates and destroys nothing.
ReservationsMoveUnits ==
    [][res' # res =>
         /\ \A l \in Lots : lot'[l].avail + lot'[l].reserved = lot[l].avail + lot[l].reserved
         /\ \A v \in Levels :
              /\ level'[v].avail - level[v].avail =
                   Total([l \in Lots |-> lot'[l].avail], LotsOf(v)) - Total(Available, LotsOf(v))
              /\ level'[v].avail + level'[v].reserved = level[v].avail + level[v].reserved]_vars

\* A grant is what one reservation has taken under its request id.
Grants == Requests \X ((SUBSET Lots) \ {{}})
GrantOf(r, l) == <<r, res[r][l].grant>>

\* The inventory module is the Stock the rest of the platform relies on.  Seen
\* as grants per level, every transaction makes one new grant, gives back whole
\* grants, or changes only units that no grant holds: however a release and the
\* reservations under its request ids interleave, it never splits a grant.
Promise == INSTANCE Stock WITH
    MaxInt <- MaxInt * Cardinality(Lots),
    stock <- [v \in Levels |-> Total(Available, LotsOf(v))],
    held <- [g \in Grants |-> [v \in Levels |->
               Total([l \in Lots |-> IF GrantOf(g[1], l) = g THEN HeldOn(l)[g[1]] ELSE 0],
                     LotsOf(v))]],
    used <- {g \in Grants : \E l \in Lots : GrantOf(g[1], l) = g}

KeepsPromise == Promise!Spec
=============================================================================
