--------------------------- MODULE InventoryProofs ---------------------------
(* Theorems about Inventory, for any levels, lots, requests and sessions. *)
EXTENDS Inventory, CountingProofs

\* What a row of one request holds is an INT, and so is what it adds up to.
LEMMA HeldTotal ==
    ASSUME TypeOK, NEW l \in Lots, NEW S \in SUBSET Requests
    PROVE  Total(HeldOn(l), S) \in Nat
<1>1. IsFiniteSet(S)
  BY RequestsAssumption, FS_Subset
<1> QED
  BY <1>1, TotalNat

\* The rows that the release of session p gives back when it commits.
RowsOf(p) == tx[p].done \cup tx[p].rows

LEMMA GivenTotal ==
    ASSUME TypeOK, NEW R, NEW l \in Lots
    PROVE  /\ Given(R)[l] = Total(HeldOn(l), {r \in Requests : <<r, l>> \in R})
           /\ Given(R)[l] \in Nat
<1>1. {r \in Requests : <<r, l>> \in R} \in SUBSET Requests
  OBVIOUS
<1>2. Given(R)[l] = Total(HeldOn(l), {r \in Requests : <<r, l>> \in R})
  BY DEF Given
<1> QED
  BY <1>1, <1>2, HeldTotal

LEMMA HeldIsInt ==
    ASSUME TypeOK, NEW l \in Lots, NEW r \in Requests
    PROVE  HeldOn(l)[r] \in Int32
BY MaxIntAssumption DEF TypeOK, HeldOn, ReservationRow, Int32

\* What a reservation takes from a lot is what the lot has, at most.
LEMMA TakeFits ==
    ASSUME TypeOK, NEW from \in SUBSET Lots, NEW q \in Nat, NEW l \in Lots
    PROVE  /\ Take(from, q)[l] \in 0..lot[l].avail
           /\ Take(from, q)[l] > 0 => l \in from
<1> DEFINE before == Total(Available, {k \in from : k < l})
<1>1. before \in Nat
  <2>1. IsFiniteSet({k \in from : k < l})
    <3>1. {k \in from : k < l} \subseteq Lots
      OBVIOUS
    <3> QED
      BY <3>1, LotsAssumption, FS_Subset
  <2> QED
    BY <2>1, TotalNat
<1>2. lot[l].avail \in Nat
  BY MaxIntAssumption DEF TypeOK, LotRow, Int32
<1>3. Take(from, q)[l] = IF l \in from
                         THEN AtMost(lot[l].avail, AtLeastZero(q - before)) ELSE 0
  BY DEF Take
<1> HIDE DEF before
<1> QED
  BY <1>1, <1>2, <1>3 DEF AtMost, AtLeastZero

\* What a session holds is told by the step it is at.
LEMMA SessionKinds ==
    ASSUME NEW t \in Session
    PROVE  /\ t.at = "reserve" =>
                t \in [at : {"reserve"}, req : Requests, level : Levels, qty : Nat,
                      seen : Int32]
           /\ t.at = "reserveLots" =>
                t \in [at : {"reserveLots"}, req : Requests, level : Levels, qty : Nat,
                      seen : Int32, found : SUBSET Lots]
           /\ t.at = "release" =>
                t \in [at : {"release"}, left : SUBSET Requests,
                      done : SUBSET (Requests \X Lots), rows : SUBSET (Requests \X Lots)]
           /\ t.at \in {"push", "create"} =>
                t \in [at : {"push", "create"}, level : Levels, number : Numbers,
                      qty : Nat, lvl : LevelRow]
           /\ t.at \in {"quarantine", "releaseLot"} =>
                t \in [at : {"quarantine", "releaseLot"}, lot : Lots,
                      rec : 1..MaxRecords, qty : Nat]
           /\ t.at \in {"quarantineLevel", "releaseLevel"} =>
                t \in [at : {"quarantineLevel", "releaseLevel"}, lot : Lots,
                      rec : 1..MaxRecords, qty : Nat, lvl : LevelRow]
BY DEF Session, Idle

LEMMA Reserving ==
    ASSUME TypeOK, NEW p \in Procs, ReserveCommit(p)
    PROVE  /\ tx[p] \in [at : {"reserveLots"}, req : Requests, level : Levels, qty : Nat,
                          seen : Int32, found : SUBSET Lots]
           /\ tx[p].req \in Requests /\ tx[p].level \in Levels /\ tx[p].qty \in Nat
           /\ tx[p].found \cap Allocatable(tx[p].level) \in SUBSET Lots
<1>1. tx[p] \in Session
  BY Zenon DEF TypeOK
<1>2. tx[p].at = "reserveLots"
  BY Zenon DEF ReserveCommit
<1>3. tx[p] \in [at : {"reserveLots"}, req : Requests, level : Levels, qty : Nat,
                 seen : Int32, found : SUBSET Lots]
  BY <1>1, <1>2, SessionKinds
<1>4. /\ tx[p].found \in SUBSET Lots
      /\ tx[p].req \in Requests /\ tx[p].level \in Levels /\ tx[p].qty \in Nat
  BY <1>3
<1> QED
  BY <1>3, <1>4, Zenon

LEMMA LotRowMoves ==
    ASSUME NEW x \in LotRow, NEW m \in Int32, NEW n \in Int32
    PROVE  [x EXCEPT !.avail = m, !.reserved = n] \in LotRow
BY DEF LotRow

LEMMA LotRowTurns ==
    ASSUME NEW x \in LotRow, NEW m \in Int32, NEW s \in {"active", "quarantined"}
    PROVE  [x EXCEPT !.status = s, !.avail = m] \in LotRow
BY DEF LotRow

LEMMA TypeReserveCommit ==
    ASSUME TypeOK, NEW p \in Procs, ReserveCommit(p)
    PROVE  TypeOK'
<1> DEFINE t == tx[p]
           take == Take(t.found \cap Allocatable(t.level), t.qty)
<1>1. t \in [at : {"reserveLots"}, req : Requests, level : Levels, qty : Nat,
             seen : Int32, found : SUBSET Lots]
  BY Reserving
<1>2. \A l \in Lots : take[l] \in 0..lot[l].avail
  <2>1. t.found \cap Allocatable(t.level) \in SUBSET Lots /\ t.qty \in Nat
    BY Reserving, Zenon
  <2> HIDE DEF t
  <2> QED
    BY <2>1, TakeFits
<1>3. /\ \A l \in Lots : take[l] > 0 => Storable(lot[l].reserved + take[l])
      /\ lot' = [l \in Lots |-> [lot[l] EXCEPT !.avail = @ - take[l],
                                               !.reserved = @ + take[l]]]
      /\ res' = [res EXCEPT ![t.req] = [l \in Lots |->
                    IF take[l] > 0 THEN [status |-> "reserved", qty |-> take[l],
                                         grant |-> {k \in Lots : take[k] > 0}]
                                   ELSE res[t.req][l]]]
      /\ WriteLevel(t.level, level[t.level].avail - t.qty,
                     level[t.level].reserved + t.qty, t.seen)
      /\ tx' = [tx EXCEPT ![p] = Idle]
      /\ record' = record
  BY DEF ReserveCommit, Commit
<1> HIDE DEF take, t
<1>4. lot' \in [Lots -> LotRow]
  <2> SUFFICES ASSUME NEW l \in Lots
               PROVE  [lot[l] EXCEPT !.avail = lot[l].avail - take[l],
                                     !.reserved = lot[l].reserved + take[l]] \in LotRow
    BY <1>3
  <2>1. lot[l] \in LotRow
    BY DEF TypeOK
  <2>2. lot[l].avail \in Int32 /\ lot[l].reserved \in Int32
    BY <2>1 DEF LotRow
  <2>3. /\ lot[l].avail - take[l] \in Int32
        /\ lot[l].reserved + take[l] \in Int32
    <3>1. take[l] \in Nat /\ take[l] <= lot[l].avail
      BY <1>2, <2>2, MaxIntAssumption DEF Int32
    <3>2. take[l] > 0 => lot[l].reserved + take[l] \in Int32
      BY <1>3 DEF Int32, Storable
    <3> QED
      BY <2>2, <3>1, <3>2, MaxIntAssumption DEF Int32
  <2> QED
    BY <2>1, <2>3, LotRowMoves
<1>5. res' \in [Requests -> [Lots -> ReservationRow]]
  <2>1. \A l \in Lots : take[l] \in Int32
    BY <1>2, MaxIntAssumption DEF TypeOK, LotRow, Int32
  <2>2. [l \in Lots |-> IF take[l] > 0 THEN [status |-> "reserved", qty |-> take[l],
                                            grant |-> {k \in Lots : take[k] > 0}]
                         ELSE res[t.req][l]] \in [Lots -> ReservationRow]
    <3>1. {k \in Lots : take[k] > 0} \in SUBSET Lots
      OBVIOUS
    <3> QED
      BY <1>1, <2>1, <3>1 DEF TypeOK, ReservationRow
  <2> QED
    BY <1>1, <1>3, <2>2 DEF TypeOK
<1>6. level' \in [Levels -> LevelRow]
  BY <1>1, <1>3 DEF TypeOK, WriteLevel, LevelRow, Storable, Int32
<1>7. tx' \in [Procs -> Session]
  BY <1>3 DEF TypeOK, Session
<1>8. record' \in [Lots -> [1..MaxRecords -> RecordRow]]
  BY <1>3 DEF TypeOK
<1> QED
  BY <1>4, <1>5, <1>6, <1>7, <1>8 DEF TypeOK

\* WriteLevel stores one level and keeps the others.
LEMMA TypeWriteLevel ==
    ASSUME TypeOK, NEW v \in Levels, NEW a, NEW b, NEW c, WriteLevel(v, a, b, c)
    PROVE  level' \in [Levels -> LevelRow]
BY DEF TypeOK, WriteLevel, LevelRow, Storable, Int32

LEMMA TypeCommit ==
    ASSUME TypeOK, NEW p \in Procs, Commit(p)
    PROVE  tx' \in [Procs -> Session]
BY DEF TypeOK, Commit, Session

LEMMA TypeBegin ==
    ASSUME TypeOK, NEW p \in Procs, NEW t \in Session, Begin(p, t)
    PROVE  tx' \in [Procs -> Session]
BY DEF TypeOK, Begin

LEMMA TypeReleaseCommit ==
    ASSUME TypeOK, NEW p \in Procs, ReleaseCommit(p)
    PROVE  TypeOK'
<1> DEFINE R == RowsOf(p)
           given == Given(R)
<1>1. \A l \in Lots : given[l] \in Nat
  BY GivenTotal
<1>2. /\ \A l \in Lots : given[l] > 0 => /\ Storable(lot[l].avail + given[l])
                                         /\ Storable(lot[l].reserved - given[l])
      /\ lot' = [l \in Lots |-> [lot[l] EXCEPT !.avail = @ + given[l],
                                               !.reserved = @ - given[l]]]
      /\ \A v \in Levels : /\ Storable(level[v].avail + Total(given, LotsOf(v)))
                           /\ Storable(level[v].reserved - Total(given, LotsOf(v)))
      /\ level' = [v \in Levels |->
                     [level[v] EXCEPT !.avail = @ + Total(given, LotsOf(v)),
                                      !.reserved = @ - Total(given, LotsOf(v))]]
      /\ res' = [r \in Requests |-> [l \in Lots |->
                    IF <<r, l>> \in R /\ res[r][l].status = "reserved"
                    THEN [res[r][l] EXCEPT !.status = "released"]
                    ELSE res[r][l]]]
      /\ Commit(p)
      /\ UNCHANGED record
  BY DEF ReleaseCommit, RowsOf
<1> HIDE DEF given, R
<1>3. lot' \in [Lots -> LotRow]
  <2> SUFFICES ASSUME NEW l \in Lots
               PROVE  [lot[l] EXCEPT !.avail = lot[l].avail + given[l],
                                     !.reserved = lot[l].reserved - given[l]] \in LotRow
    BY <1>2
  <2>1. lot[l] \in LotRow
    BY DEF TypeOK
  <2>2. lot[l].avail \in Int32 /\ lot[l].reserved \in Int32
    BY <2>1 DEF LotRow
  <2>3. given[l] > 0 => /\ lot[l].avail + given[l] \in Int32
                        /\ lot[l].reserved - given[l] \in Int32
    BY <1>2 DEF Storable, Int32
  <2>4. /\ lot[l].avail + given[l] \in Int32
        /\ lot[l].reserved - given[l] \in Int32
    BY <1>1, <2>2, <2>3, MaxIntAssumption DEF Int32
  <2> QED
    BY <2>1, <2>4, LotRowMoves
<1>4. level' \in [Levels -> LevelRow]
  <2> SUFFICES ASSUME NEW v \in Levels
               PROVE  [level[v] EXCEPT
                         !.avail = level[v].avail + Total(given, LotsOf(v)),
                         !.reserved = level[v].reserved - Total(given, LotsOf(v))]
                      \in LevelRow
    BY <1>2
  <2>1. level[v] \in LevelRow
    BY DEF TypeOK
  <2>2. /\ level[v].avail + Total(given, LotsOf(v)) \in Int32
        /\ level[v].reserved - Total(given, LotsOf(v)) \in Int32
    BY <1>2 DEF Storable, Int32
  <2> QED
    BY <2>1, <2>2 DEF LevelRow
<1>5. res' \in [Requests -> [Lots -> ReservationRow]]
  <2> DEFINE row(r, l) == IF <<r, l>> \in R /\ res[r][l].status = "reserved"
                          THEN [res[r][l] EXCEPT !.status = "released"]
                          ELSE res[r][l]
  <2>1. ASSUME NEW r \in Requests, NEW l \in Lots
        PROVE  row(r, l) \in ReservationRow
    <3>1. res[r][l] \in ReservationRow
      BY DEF TypeOK
    <3>2. [res[r][l] EXCEPT !.status = "released"] \in ReservationRow
      BY <3>1 DEF ReservationRow
    <3> QED
      BY <3>1, <3>2
  <2>2. res' = [r \in Requests |-> [l \in Lots |-> row(r, l)]]
    BY <1>2
  <2> HIDE DEF row
  <2>3. ASSUME NEW r \in Requests
        PROVE  [l \in Lots |-> row(r, l)] \in [Lots -> ReservationRow]
    BY <2>1
  <2> QED
    BY <2>2, <2>3
<1>6. tx' \in [Procs -> Session]
  BY <1>2, TypeCommit
<1> QED
  BY <1>2, <1>3, <1>4, <1>5, <1>6 DEF TypeOK

LEMMA TypeRelease ==
    ASSUME TypeOK, NEW p \in Procs, Release(p)
    PROVE  TypeOK'
<1>1. ASSUME NEW r \in Requests
      PROVE  Rows(r) \in SUBSET (Requests \X Lots)
  BY DEF Rows
<1>2. ASSUME NEW S \in SUBSET Requests, NEW r \in S, ReleaseStart(p, r, S)
      PROVE  TypeOK'
  <2> DEFINE t == [at |-> "release", left |-> S \ {r}, done |-> {}, rows |-> Rows(r)]
  <2>1. t \in Session
    BY <1>1 DEF Session
  <2>2. Begin(p, t)
    BY <1>2 DEF ReleaseStart
  <2>3. tx' \in [Procs -> Session]
    BY <2>1, <2>2, TypeBegin
  <2> QED
    BY <1>2, <2>3 DEF TypeOK, ReleaseStart
<1>3. ASSUME NEW r \in Requests, ReleaseNext(p, r)
      PROVE  TypeOK'
  <2>1. tx[p] \in [at : {"release"}, left : SUBSET Requests,
                   done : SUBSET (Requests \X Lots), rows : SUBSET (Requests \X Lots)]
    BY <1>3, SessionKinds DEF ReleaseNext, TypeOK
  <2>2. [at |-> "release", left |-> tx[p].left \ {r}, done |-> tx[p].done \cup tx[p].rows,
         rows |-> Rows(r)] \in Session
    BY <1>1, <2>1 DEF Session
  <2> QED
    BY <1>3, <2>2 DEF TypeOK, ReleaseNext
<1> QED
  BY <1>2, <1>3, TypeReleaseCommit DEF Release

LEMMA TypeReserveStart ==
    ASSUME TypeOK, NEW p \in Procs, NEW r \in Requests, NEW v \in Levels, NEW q \in Nat,
           ReserveStart(p, r, v, q)
    PROVE  TypeOK'
<1> DEFINE t == [at |-> "reserve", req |-> r, level |-> v, qty |-> q,
                 seen |-> level[v].total]
<1>1. t \in Session
  BY DEF TypeOK, LevelRow, Session
<1>2. Begin(p, t)
  BY DEF ReserveStart
<1>3. tx' \in [Procs -> Session]
  BY <1>1, <1>2, TypeBegin
<1> QED
  BY <1>3 DEF TypeOK, ReserveStart

LEMMA TypeReserveQuery ==
    ASSUME TypeOK, NEW p \in Procs, ReserveQuery(p)
    PROVE  TypeOK'
<1>1. tx[p] \in [at : {"reserve"}, req : Requests, level : Levels, qty : Nat, seen : Int32]
  BY SessionKinds DEF ReserveQuery, TypeOK
<1>2. Allocatable(tx[p].level) \in SUBSET Lots
  BY DEF Allocatable, LotsOf
<1>3. [at |-> "reserveLots", req |-> tx[p].req, level |-> tx[p].level, qty |-> tx[p].qty,
       seen |-> tx[p].seen, found |-> Allocatable(tx[p].level)] \in Session
  BY <1>1, <1>2 DEF Session
<1> QED
  BY <1>3 DEF TypeOK, ReserveQuery

LEMMA TypePush ==
    ASSUME TypeOK, NEW p \in Procs, Push(p)
    PROVE  TypeOK'
<1>1. ASSUME NEW v \in Levels, NEW n \in Numbers, NEW q \in 1..MaxPush, PushStart(p, v, n, q)
      PROVE  TypeOK'
  <2> DEFINE t == [at |-> "push", level |-> v, number |-> n, qty |-> q, lvl |-> level[v]]
  <2>1. t \in Session
    BY DEF TypeOK, Session
  <2>2. Begin(p, t)
    BY <1>1 DEF PushStart
  <2>3. tx' \in [Procs -> Session]
    BY <2>1, <2>2, TypeBegin
  <2> QED
    BY <1>1, <2>3 DEF TypeOK, PushStart
<1>2. ASSUME tx[p].at \in {"push", "create"}
      PROVE  tx[p] \in [at : {"push", "create"}, level : Levels, number : Numbers,
                         qty : Nat, lvl : LevelRow]
  BY <1>2, SessionKinds DEF TypeOK
<1>3. CASE PushTopUp(p)
  <2>1. tx[p].level \in Levels /\ tx[p].qty \in Nat
    BY <1>2, <1>3 DEF PushTopUp
  <2>2. level' \in [Levels -> LevelRow]
    BY <1>3, <2>1, TypeWriteLevel DEF PushTopUp, PushLevel
  <2>3. tx' \in [Procs -> Session]
    BY <1>3, TypeCommit DEF PushTopUp
  <2>4. lot' \in [Lots -> LotRow]
    <3>1. PICK l \in Lots : /\ lot[l].avail + tx[p].qty \in Int32
                            /\ lot' = [lot EXCEPT ![l].avail = @ + tx[p].qty]
      BY <1>3 DEF PushTopUp, Numbered, LotsOf, Storable, Int32
    <3> QED
      BY <3>1 DEF TypeOK, LotRow
  <2> QED
    BY <1>3, <2>2, <2>3, <2>4 DEF TypeOK, PushTopUp
<1>4. CASE PushMiss(p)
  <2>1. tx[p] \in [at : {"push", "create"}, level : Levels, number : Numbers,
                   qty : Nat, lvl : LevelRow]
    BY <1>2, <1>4 DEF PushMiss
  <2>2. [tx[p] EXCEPT !.at = "create"] \in Session
    BY <2>1 DEF Session
  <2>3. tx' = [tx EXCEPT ![p] = [tx[p] EXCEPT !.at = "create"]]
    BY <1>4 DEF PushMiss, TypeOK
  <2> QED
    BY <1>4, <2>2, <2>3 DEF TypeOK, PushMiss
<1>5. CASE PushCreate(p)
  <2>1. /\ tx[p].level \in Levels /\ tx[p].number \in Numbers /\ tx[p].qty \in Nat
        /\ tx[p].lvl \in LevelRow
    BY <1>2, <1>5 DEF PushCreate
  <2>2. level' \in [Levels -> LevelRow]
    BY <1>5, <2>1, TypeWriteLevel DEF PushCreate, PushLevel
  <2>3. tx' \in [Procs -> Session]
    BY <1>5, TypeCommit DEF PushCreate
  <2>4. tx[p].qty \in Int32
    <3>1. tx[p].lvl.total \in Int32
      BY <2>1 DEF LevelRow
    <3>2. tx[p].lvl.total + tx[p].qty \in Int32
      BY <1>5 DEF PushCreate, PushLevel, WriteLevel, Storable, Int32
    <3> QED
      BY <2>1, <3>1, <3>2, MaxIntAssumption DEF Int32
  <2>5. lot' \in [Lots -> LotRow]
    <3>1. PICK l \in Lots :
            lot' = [lot EXCEPT ![l] = [status |-> "active", number |-> tx[p].number,
                                       initial |-> tx[p].qty, avail |-> tx[p].qty,
                                       reserved |-> 0]]
      BY <1>5 DEF PushCreate, LotsOf
    <3>2. [status |-> "active", number |-> tx[p].number, initial |-> tx[p].qty,
           avail |-> tx[p].qty, reserved |-> 0] \in LotRow
      BY <2>1, <2>4, MaxIntAssumption DEF LotRow, Int32
    <3> QED
      BY <3>1, <3>2 DEF TypeOK
  <2> QED
    BY <1>5, <2>2, <2>3, <2>5 DEF TypeOK, PushCreate
<1> QED
  BY <1>1, <1>3, <1>4, <1>5 DEF Push
LEMMA TypeQuarantine ==
    ASSUME TypeOK, NEW p \in Procs, Quarantine(p)
    PROVE  TypeOK'
<1>1. ASSUME NEW l \in Lots, QuarantineStart(p, l)
      PROVE  TypeOK'
  <2>1. PICK i \in 1..MaxRecords :
          /\ record' = [record EXCEPT ![l][i].status = "pending"]
          /\ Begin(p, [at |-> "quarantine", lot |-> l, rec |-> i, qty |-> lot[l].avail])
    BY <1>1 DEF QuarantineStart
  <2>2. [at |-> "quarantine", lot |-> l, rec |-> i, qty |-> lot[l].avail] \in Session
    BY MaxIntAssumption DEF TypeOK, LotRow, Int32, Session
  <2>3. tx' \in [Procs -> Session]
    BY <2>1, <2>2, TypeBegin
  <2>4. record' \in [Lots -> [1..MaxRecords -> RecordRow]]
    <3>1. record[l] \in [1..MaxRecords -> RecordRow] /\ record[l][i] \in RecordRow
      BY DEF TypeOK
    <3>2. [record[l][i] EXCEPT !.status = "pending"] \in RecordRow
      BY <3>1 DEF RecordRow
    <3>3. record' = [record EXCEPT ![l] = [record[l] EXCEPT
                       ![i] = [record[l][i] EXCEPT !.status = "pending"]]]
      BY <2>1
    <3> QED
      BY <3>1, <3>2, <3>3 DEF TypeOK
  <2> QED
    BY <1>1, <2>3, <2>4 DEF TypeOK, QuarantineStart
<1>2. CASE QuarantineLock(p)
  <2>1. tx[p] \in [at : {"quarantine", "releaseLot"}, lot : Lots, rec : 1..MaxRecords,
                   qty : Nat]
    BY <1>2, SessionKinds DEF QuarantineLock, TypeOK
  <2>2. level[LevelOf[tx[p].lot]] \in LevelRow
    BY <2>1, LevelOfAssumption DEF TypeOK
  <2>3. [at |-> "quarantineLevel", lot |-> tx[p].lot, rec |-> tx[p].rec,
         qty |-> tx[p].qty, lvl |-> level[LevelOf[tx[p].lot]]] \in Session
    BY <2>1, <2>2 DEF Session
  <2> QED
    BY <1>2, <2>3 DEF TypeOK, QuarantineLock
<1>3. CASE QuarantineCommit(p)
  <2>1. tx[p] \in [at : {"quarantineLevel", "releaseLevel"}, lot : Lots,
                   rec : 1..MaxRecords, qty : Nat, lvl : LevelRow]
    BY <1>3, SessionKinds DEF QuarantineCommit, TypeOK
  <2>2. level' \in [Levels -> LevelRow]
    BY <1>3, <2>1, LevelOfAssumption, TypeWriteLevel DEF QuarantineCommit
  <2>3. tx' \in [Procs -> Session]
    BY <1>3, TypeCommit DEF QuarantineCommit
  <2>4. lot' \in [Lots -> LotRow]
    <3>1. lot[tx[p].lot] \in LotRow /\ 0 \in Int32
      BY <2>1, MaxIntAssumption DEF TypeOK, Int32
    <3>2. [lot[tx[p].lot] EXCEPT !.status = "quarantined", !.avail = 0] \in LotRow
      BY <3>1, LotRowTurns
    <3> QED
      BY <1>3, <3>2 DEF TypeOK, QuarantineCommit
  <2>5. record' \in [Lots -> [1..MaxRecords -> RecordRow]]
    BY <1>3, <2>1 DEF TypeOK, QuarantineCommit, RecordRow
  <2> QED
    BY <1>3, <2>2, <2>3, <2>4, <2>5 DEF TypeOK, QuarantineCommit
<1> QED
  BY <1>1, <1>2, <1>3 DEF Quarantine

LEMMA TypeReleaseLot ==
    ASSUME TypeOK, NEW p \in Procs, ReleaseLot(p)
    PROVE  TypeOK'
<1>1. ASSUME NEW l \in Lots, ReleaseLotStart(p, l)
      PROVE  TypeOK'
  <2>1. PICK i \in 1..MaxRecords :
          Begin(p, [at |-> "releaseLot", lot |-> l, rec |-> i, qty |-> record[l][i].qty])
    BY <1>1 DEF ReleaseLotStart, LatestOpen
  <2>2. [at |-> "releaseLot", lot |-> l, rec |-> i, qty |-> record[l][i].qty] \in Session
    <3>1. record[l][i] \in RecordRow
      BY DEF TypeOK
    <3> QED
      BY <3>1 DEF RecordRow, Session
  <2>3. tx' \in [Procs -> Session]
    BY <2>1, <2>2, TypeBegin
  <2> QED
    BY <1>1, <2>3 DEF TypeOK, ReleaseLotStart
<1>2. CASE ReleaseLotLock(p)
  <2>1. tx[p] \in [at : {"quarantine", "releaseLot"}, lot : Lots, rec : 1..MaxRecords,
                   qty : Nat]
    BY <1>2, SessionKinds DEF ReleaseLotLock, TypeOK
  <2>2. level[LevelOf[tx[p].lot]] \in LevelRow /\ lot[tx[p].lot].initial \in Nat
    BY <2>1, LevelOfAssumption DEF TypeOK, LotRow
  <2>3. [at |-> "releaseLevel", lot |-> tx[p].lot, rec |-> tx[p].rec,
         qty |-> IF tx[p].qty > 0 THEN tx[p].qty ELSE lot[tx[p].lot].initial,
         lvl |-> level[LevelOf[tx[p].lot]]] \in Session
    BY <2>1, <2>2 DEF Session
  <2> QED
    BY <1>2, <2>3 DEF TypeOK, ReleaseLotLock
<1>3. CASE ReleaseLotCommit(p)
  <2>1. tx[p] \in [at : {"quarantineLevel", "releaseLevel"}, lot : Lots,
                   rec : 1..MaxRecords, qty : Nat, lvl : LevelRow]
    BY <1>3, SessionKinds DEF ReleaseLotCommit, TypeOK
  <2>2. level' \in [Levels -> LevelRow]
    BY <1>3, <2>1, LevelOfAssumption, TypeWriteLevel DEF ReleaseLotCommit
  <2>3. tx' \in [Procs -> Session]
    BY <1>3, TypeCommit DEF ReleaseLotCommit
  <2>4. tx[p].qty \in Int32
    <3>1. tx[p].lvl.total \in Int32
      BY <2>1 DEF LevelRow
    <3>2. tx[p].lvl.total + tx[p].qty \in Int32
      BY <1>3 DEF ReleaseLotCommit, WriteLevel, Storable, Int32
    <3> QED
      BY <2>1, <3>1, <3>2, MaxIntAssumption DEF Int32
  <2>5. lot' \in [Lots -> LotRow]
    <3>1. lot[tx[p].lot] \in LotRow
      BY <2>1 DEF TypeOK
    <3>2. [lot[tx[p].lot] EXCEPT !.status = "active", !.avail = tx[p].qty] \in LotRow
      BY <2>4, <3>1, LotRowTurns
    <3> QED
      BY <1>3, <3>2 DEF TypeOK, ReleaseLotCommit
  <2>6. record' \in [Lots -> [1..MaxRecords -> RecordRow]]
    BY <1>3, <2>1 DEF TypeOK, ReleaseLotCommit, RecordRow
  <2> QED
    BY <1>3, <2>2, <2>3, <2>5, <2>6 DEF TypeOK, ReleaseLotCommit
<1> QED
  BY <1>1, <1>2, <1>3 DEF ReleaseLot

LEMMA TypeRollback ==
    ASSUME TypeOK, NEW p \in Procs, Rollback(p)
    PROVE  TypeOK'
<1>1. tx' \in [Procs -> Session]
  BY TypeCommit DEF Rollback
<1>2. record' \in [Lots -> [1..MaxRecords -> RecordRow]]
  BY MaxIntAssumption DEF TypeOK, Rollback, RecordRow, NoRecord, Int32
<1> QED
  BY <1>1, <1>2 DEF TypeOK, Rollback

LEMMA TypeAdjust ==
    ASSUME TypeOK, NEW l \in Lots, NEW d \in Int, AdjustStock(l, d)
    PROVE  TypeOK'
<1>1. level' \in [Levels -> LevelRow]
  BY LevelOfAssumption, TypeWriteLevel DEF AdjustStock
<1>2. lot' \in [Lots -> LotRow]
  <2>1. lot[l] \in LotRow /\ lot[l].avail + d \in Int32
    BY DEF TypeOK, AdjustStock, Storable, Int32
  <2>2. [lot[l] EXCEPT !.avail = lot[l].avail + d] \in LotRow
    BY <2>1 DEF LotRow
  <2>3. lot' = [lot EXCEPT ![l] = [lot[l] EXCEPT !.avail = lot[l].avail + d]]
    BY DEF AdjustStock
  <2> QED
    BY <2>2, <2>3 DEF TypeOK
<1> QED
  BY <1>1, <1>2 DEF TypeOK, AdjustStock
LEMMA TypeInit == Init => TypeOK
BY MaxIntAssumption
   DEF Init, TypeOK, AbsentLevel, AbsentLot, NoRow, NoRecord, LevelRow, LotRow,
       ReservationRow, RecordRow, Session, Int32

LEMMA TypeStep == TypeOK /\ [Next]_vars => TypeOK'
<1> SUFFICES ASSUME TypeOK, [Next]_vars
             PROVE  TypeOK'
  OBVIOUS
<1>1. ASSUME NEW p \in Procs, Reserve(p)
      PROVE  TypeOK'
  <2>1. ASSUME NEW r \in Requests, NEW v \in Levels, NEW q \in 1..MaxQty,
               ReserveStart(p, r, v, q)
        PROVE  TypeOK'
    <3>1. q \in Nat
      BY BoundsAssumption
    <3> QED
      BY <2>1, <3>1, TypeReserveStart
  <2> QED
    BY <1>1, <2>1, TypeReserveQuery, TypeReserveCommit DEF Reserve
<1>2. ASSUME NEW l \in Lots, NEW d \in ((-MaxDelta)..MaxDelta) \ {0}, AdjustStock(l, d)
      PROVE  TypeOK'
  <2>1. d \in Int
    BY BoundsAssumption
  <2> QED
    BY <1>2, <2>1, TypeAdjust
<1>3. ASSUME NEW p \in Clerks, Push(p) \/ Quarantine(p) \/ ReleaseLot(p)
      PROVE  TypeOK'
  BY <1>3, ClerksAssumption, TypePush, TypeQuarantine, TypeReleaseLot
<1>4. CASE UNCHANGED vars
  BY <1>4 DEF vars, TypeOK
<1> QED
  BY <1>1, <1>2, <1>3, <1>4, TypeRollback, TypeRelease DEF Next

\* Whatever the sessions interleave, every counter stays within its column's
\* CHECK constraint and every session holds what its next step uses.
THEOREM TypeCorrect == Spec => []TypeOK
<1>1. Init => TypeOK
  BY TypeInit
<1>2. TypeOK /\ [Next]_vars => TypeOK'
  BY TypeStep
<1> QED
  BY <1>1, <1>2, PTL DEF Spec

-----------------------------------------------------------------------------
(* Reservations and the lots' counters *)

\* A lot that has not been inserted yet has nothing reserved: without this a
\* lot inserted by a push could not be shown to start with no holders.
AbsentHoldNothing == \A l \in Lots : lot[l].status = "absent" => lot[l].reserved = 0

ReservedInv == TypeOK /\ LotReservedExact /\ AbsentHoldNothing

LEMMA ReservedInit == Init => ReservedInv
<1> SUFFICES ASSUME Init PROVE LotReservedExact /\ AbsentHoldNothing
  BY TypeInit DEF ReservedInv
<1>1. AbsentHoldNothing
  BY DEF Init, AbsentHoldNothing, AbsentLot
<1>2. ASSUME NEW l \in Lots
      PROVE  lot[l].reserved = Total(HeldOn(l), Requests)
  <2>1. \A r \in Requests : HeldOn(l)[r] = 0
    BY DEF Init, HeldOn, NoRow
  <2>2. Total(HeldOn(l), Requests) = 0
    BY <2>1, TotalZero
  <2> QED
    BY <2>2 DEF Init, AbsentLot
<1> QED
  BY <1>1, <1>2 DEF LotReservedExact

LEMMA ReservedReserve ==
    ASSUME ReservedInv, NEW p \in Procs, ReserveCommit(p)
    PROVE  (LotReservedExact /\ AbsentHoldNothing)'
<1> DEFINE t == tx[p]
           from == t.found \cap Allocatable(t.level)
           take == Take(from, t.qty)
<1>1. t.req \in Requests /\ t.qty \in Nat /\ from \in SUBSET Lots
  BY Reserving, Zenon DEF ReservedInv
<1>2. \A l \in Lots : take[l] \in 0..lot[l].avail
  <2> HIDE DEF t, from
  <2> QED
    BY <1>1, TakeFits DEF ReservedInv
<1>2b. \A l \in Lots : take[l] > 0 => lot[l].status = "active"
  <2> HIDE DEF t
  <2> QED
    BY <1>1, TakeFits DEF ReservedInv, Allocatable
<1>3. /\ \A l \in Lots : take[l] > 0 => RowFree(t.req, l)
      /\ lot' = [l \in Lots |-> [lot[l] EXCEPT !.avail = @ - take[l],
                                               !.reserved = @ + take[l]]]
      /\ res' = [res EXCEPT ![t.req] = [l \in Lots |->
                    IF take[l] > 0 THEN [status |-> "reserved", qty |-> take[l],
                                         grant |-> {k \in Lots : take[k] > 0}]
                                   ELSE res[t.req][l]]]
  BY DEF ReserveCommit
<1> HIDE DEF take, t
<1> SUFFICES ASSUME NEW l \in Lots
             PROVE  /\ lot'[l].reserved = Total(HeldOn(l)', Requests)
                    /\ lot'[l].status = "absent" => lot'[l].reserved = 0
  BY DEF LotReservedExact, AbsentHoldNothing
<1>4. lot[l] \in LotRow /\ lot[l].avail \in Int32 /\ lot[l].reserved \in Int32
  BY DEF ReservedInv, TypeOK, LotRow
<1>5. take[l] \in Nat /\ take[l] \in Int32
  BY <1>2, <1>4, MaxIntAssumption DEF Int32
<1>6. lot'[l].reserved = lot[l].reserved + take[l] /\ lot'[l].status = lot[l].status
  BY <1>3, <1>4 DEF LotRow
<1>7. \A r \in Requests \ {t.req} : HeldOn(l)'[r] = HeldOn(l)[r]
  BY <1>1, <1>3 DEF HeldOn, ReservedInv, TypeOK
<1>8. lot[l].reserved = Total(HeldOn(l), Requests)
  BY DEF ReservedInv, LotReservedExact
<1>9. CASE take[l] > 0
  <2>1. res[t.req][l].status = "none"
    BY <1>3, <1>9 DEF RowFree
  <2>2. HeldOn(l)[t.req] = 0
    BY <1>1, <2>1 DEF HeldOn
  <2>3. res'[t.req][l] = [status |-> "reserved", qty |-> take[l],
                          grant |-> {k \in Lots : take[k] > 0}]
    BY <1>1, <1>3, <1>9 DEF ReservedInv, TypeOK
  <2>4. HeldOn(l)'[t.req] = take[l]
    BY <1>1, <2>3 DEF HeldOn
  <2>5. Total(HeldOn(l)', Requests) = Total(HeldOn(l), Requests) + take[l]
    BY <1>1, <1>5, <1>7, <2>2, <2>4, TotalRaise, RequestsAssumption
  <2>6. lot[l].status = "active"
    BY <1>2b, <1>9
  <2> QED
    BY <1>6, <1>8, <2>5, <2>6
<1>10. CASE ~(take[l] > 0)
  <2>1. take[l] = 0
    BY <1>5, <1>10
  <2>2. HeldOn(l)'[t.req] = HeldOn(l)[t.req]
    BY <1>1, <1>3, <1>10 DEF HeldOn, ReservedInv, TypeOK
  <2>3. Total(HeldOn(l)', Requests) = Total(HeldOn(l), Requests)
    BY <1>7, <2>2, TotalSame
  <2>4. lot'[l].reserved = lot[l].reserved
    BY <1>4, <1>6, <2>1, MaxIntAssumption DEF Int32
  <2> QED
    BY <1>6, <1>8, <2>3, <2>4 DEF ReservedInv, AbsentHoldNothing
<1> QED
  BY <1>9, <1>10

LEMMA ReservedRelease ==
    ASSUME ReservedInv, NEW p \in Procs, ReleaseCommit(p)
    PROVE  (LotReservedExact /\ AbsentHoldNothing)'
<1> DEFINE R == RowsOf(p)
           given == Given(R)
<1>1. /\ lot' = [l \in Lots |-> [lot[l] EXCEPT !.avail = @ + given[l],
                                               !.reserved = @ - given[l]]]
      /\ \A l \in Lots : given[l] > 0 => Storable(lot[l].reserved - given[l])
      /\ res' = [r \in Requests |-> [l \in Lots |->
                    IF <<r, l>> \in R /\ res[r][l].status = "reserved"
                    THEN [res[r][l] EXCEPT !.status = "released"]
                    ELSE res[r][l]]]
  BY DEF ReleaseCommit, RowsOf
<1>2. \A l \in Lots : /\ given[l] = Total(HeldOn(l), {r \in Requests : <<r, l>> \in R})
                     /\ given[l] \in Nat
  BY GivenTotal DEF ReservedInv
<1> HIDE DEF given, R
<1> SUFFICES ASSUME NEW l \in Lots
             PROVE  /\ lot'[l].reserved = Total(HeldOn(l)', Requests)
                    /\ lot'[l].status = "absent" => lot'[l].reserved = 0
  BY DEF LotReservedExact, AbsentHoldNothing
<1> DEFINE S == {r \in Requests : <<r, l>> \in R}
<1>3. lot[l] \in LotRow /\ lot[l].reserved \in Int32
  BY DEF ReservedInv, TypeOK, LotRow
<1>4. /\ lot'[l].reserved = lot[l].reserved - given[l]
      /\ lot'[l].status = lot[l].status
  BY <1>1, <1>3 DEF LotRow
<1>5. \A r \in S : HeldOn(l)'[r] = 0
  <2> SUFFICES ASSUME NEW r \in S PROVE HeldOn(l)'[r] = 0
    OBVIOUS
  <2>1. res[r][l] \in ReservationRow
    BY DEF ReservedInv, TypeOK
  <2>2. res'[r][l].status # "reserved"
    BY <1>1, <2>1 DEF ReservationRow
  <2> QED
    BY <2>2 DEF HeldOn
<1>6. \A r \in Requests \ S : HeldOn(l)'[r] = HeldOn(l)[r]
  BY <1>1 DEF HeldOn
<1>7. Total(HeldOn(l)', Requests) = Total(HeldOn(l), Requests) - given[l]
  <2>1. S \in SUBSET Requests /\ given[l] = Total(HeldOn(l), S)
    BY <1>2
  <2> HIDE DEF S
  <2> QED
    BY <1>5, <1>6, <2>1, TotalClear, RequestsAssumption
<1>8. lot[l].reserved = Total(HeldOn(l), Requests)
  BY DEF ReservedInv, LotReservedExact
<1>9. lot[l].status = "absent" => lot[l].reserved - given[l] = 0
  <2>1. lot[l].status = "absent" => lot[l].reserved = 0
    BY DEF ReservedInv, AbsentHoldNothing
  <2>2. given[l] > 0 => lot[l].reserved - given[l] \in 0..MaxInt
    BY <1>1 DEF Storable
  <2>3. given[l] \in Nat
    BY <1>2
  <2>4. lot[l].reserved \in Int
    BY <1>3, MaxIntAssumption DEF Int32
  <2> QED
    BY <2>1, <2>2, <2>3, <2>4, MaxIntAssumption
<1> QED
  BY <1>4, <1>7, <1>8, <1>9

\* Every other step leaves the rows and the reserved counters alone.
LEMMA ReservedElsewhere ==
    ASSUME ReservedInv, res' = res,
           \A l \in Lots : /\ lot'[l].reserved = lot[l].reserved
                           /\ lot'[l].status = "absent" => lot[l].status = "absent"
    PROVE  (LotReservedExact /\ AbsentHoldNothing)'
<1> SUFFICES ASSUME NEW l \in Lots
             PROVE  /\ lot'[l].reserved = Total(HeldOn(l)', Requests)
                    /\ lot'[l].status = "absent" => lot'[l].reserved = 0
  BY DEF LotReservedExact, AbsentHoldNothing
<1>1. HeldOn(l)' = HeldOn(l)
  BY DEF HeldOn
<1>2. Total(HeldOn(l)', Requests) = Total(HeldOn(l), Requests)
  BY <1>1
<1>3. lot[l].reserved = Total(HeldOn(l), Requests)
  BY DEF ReservedInv, LotReservedExact
<1>4. lot[l].status = "absent" => lot[l].reserved = 0
  BY DEF ReservedInv, AbsentHoldNothing
<1> QED
  BY <1>2, <1>3, <1>4

LEMMA ReservedPush ==
    ASSUME ReservedInv, NEW p \in Procs, Push(p)
    PROVE  (LotReservedExact /\ AbsentHoldNothing)'
<1>1. res' = res
  BY DEF Push, PushStart, PushTopUp, PushMiss, PushCreate
<1>2. ASSUME NEW l \in Lots
      PROVE  /\ lot'[l].reserved = lot[l].reserved
             /\ lot'[l].status = "absent" => lot[l].status = "absent"
  <2>1. lot[l] \in LotRow
    BY DEF ReservedInv, TypeOK
  <2>2. CASE PushTopUp(p)
    <3>1. PICK k \in Lots : lot' = [lot EXCEPT ![k].avail = @ + tx[p].qty]
      BY <2>2 DEF PushTopUp, Numbered, LotsOf
    <3> QED
      BY <2>1, <3>1 DEF ReservedInv, TypeOK, LotRow
  <2>3. CASE PushCreate(p)
    <3>1. PICK k \in Lots :
            /\ lot[k].status = "absent"
            /\ lot' = [lot EXCEPT ![k] = [status |-> "active", number |-> tx[p].number,
                                          initial |-> tx[p].qty, avail |-> tx[p].qty,
                                          reserved |-> 0]]
      BY <2>3 DEF PushCreate, LotsOf
    <3>2. lot[k].reserved = 0
      BY <3>1 DEF ReservedInv, AbsentHoldNothing
    <3> QED
      BY <2>1, <3>1, <3>2 DEF ReservedInv, TypeOK
  <2>4. CASE lot' = lot
    BY <2>4
  <2> QED
    BY <2>2, <2>3, <2>4 DEF Push, PushStart, PushMiss
<1> QED
  BY <1>1, <1>2, ReservedElsewhere

LEMMA ReservedQuarantine ==
    ASSUME ReservedInv, NEW p \in Procs, Quarantine(p) \/ ReleaseLot(p)
    PROVE  (LotReservedExact /\ AbsentHoldNothing)'
<1>1. res' = res
  BY DEF Quarantine, QuarantineStart, QuarantineLock, QuarantineCommit,
         ReleaseLot, ReleaseLotStart, ReleaseLotLock, ReleaseLotCommit
<1>2. ASSUME NEW l \in Lots
      PROVE  /\ lot'[l].reserved = lot[l].reserved
             /\ lot'[l].status = "absent" => lot[l].status = "absent"
  <2>1. lot \in [Lots -> LotRow] /\ lot[l] \in LotRow
    BY DEF ReservedInv, TypeOK
  <2>2. CASE lot' = lot
    BY <2>2
  <2>3. CASE QuarantineCommit(p)
    <3>1. lot' = [lot EXCEPT ![tx[p].lot] = [@ EXCEPT !.status = "quarantined",
                                                      !.avail = 0]]
      BY <2>3 DEF QuarantineCommit
    <3> QED
      BY <2>1, <3>1 DEF LotRow
  <2>4. CASE ReleaseLotCommit(p)
    <3>1. lot' = [lot EXCEPT ![tx[p].lot] = [@ EXCEPT !.status = "active",
                                                      !.avail = tx[p].qty]]
      BY <2>4 DEF ReleaseLotCommit
    <3> QED
      BY <2>1, <3>1 DEF LotRow
  <2> QED
    BY <2>2, <2>3, <2>4
       DEF Quarantine, QuarantineStart, QuarantineLock,
           ReleaseLot, ReleaseLotStart, ReleaseLotLock
<1> QED
  BY <1>1, <1>2, ReservedElsewhere

LEMMA ReservedAdjust ==
    ASSUME ReservedInv, NEW l \in Lots, NEW d, AdjustStock(l, d)
    PROVE  (LotReservedExact /\ AbsentHoldNothing)'
<1>1. \A k \in Lots : /\ lot'[k].reserved = lot[k].reserved
                      /\ lot'[k].status = "absent" => lot[k].status = "absent"
  BY DEF AdjustStock, ReservedInv, TypeOK, LotRow
<1> QED
  BY <1>1, ReservedElsewhere DEF AdjustStock

LEMMA ReservedStep == ReservedInv /\ [Next]_vars => ReservedInv'
<1> SUFFICES ASSUME ReservedInv, [Next]_vars
             PROVE  (LotReservedExact /\ AbsentHoldNothing)'
  BY TypeStep DEF ReservedInv
<1>1. ASSUME NEW p \in Procs, Reserve(p) \/ Release(p) \/ Rollback(p)
      PROVE  (LotReservedExact /\ AbsentHoldNothing)'
  <2>1. CASE ReserveCommit(p) \/ ReleaseCommit(p)
    BY <2>1, ReservedReserve, ReservedRelease
  <2>2. CASE \/ Rollback(p) \/ ReserveQuery(p)
             \/ \E r \in Requests, v \in Levels, q \in 1..MaxQty : ReserveStart(p, r, v, q)
             \/ \E S \in SUBSET Requests : \E r \in S : ReleaseStart(p, r, S)
             \/ \E r \in Requests : ReleaseNext(p, r)
    <3>1. res' = res /\ lot' = lot
      BY <2>2 DEF Rollback, ReserveStart, ReserveQuery, ReleaseStart, ReleaseNext
    <3> QED
      BY <3>1, ReservedElsewhere
  <2> QED
    BY <1>1, <2>1, <2>2 DEF Reserve, Release
<1>2. ASSUME NEW p \in Clerks, Push(p) \/ Quarantine(p) \/ ReleaseLot(p)
      PROVE  (LotReservedExact /\ AbsentHoldNothing)'
  BY <1>2, ClerksAssumption, ReservedPush, ReservedQuarantine
<1>3. CASE UNCHANGED vars
  BY <1>3, ReservedElsewhere DEF vars
<1> QED
  BY <1>1, <1>2, <1>3, ReservedAdjust DEF Next

\* The reserved counter of every lot is what the reserved rows on it hold,
\* whatever reserves, releases, pushes, quarantines and adjustments interleave.
THEOREM ReservedExact == Spec => []LotReservedExact
<1>1. Init => ReservedInv
  BY ReservedInit
<1>2. ReservedInv /\ [Next]_vars => ReservedInv'
  BY ReservedStep
<1>3. ReservedInv => LotReservedExact
  BY DEF ReservedInv
<1> QED
  BY <1>1, <1>2, <1>3, PTL DEF Spec
-----------------------------------------------------------------------------
(* What a single step may do to the reservations *)

\* Only ReserveCommit and ReleaseCommit write reservation rows or
\* the lots' reserved counters.
LEMMA OtherSteps ==
    ASSUME TypeOK, [Next]_vars,
           \A p \in Procs : ~ReserveCommit(p) /\ ~ReleaseCommit(p),
           NEW l \in Lots
    PROVE  res' = res /\ lot'[l].reserved <= lot[l].reserved
<1>0. lot \in [Lots -> LotRow] /\ lot[l] \in LotRow /\ lot[l].reserved \in Nat
  BY MaxIntAssumption DEF TypeOK, LotRow, Int32
<1>1. CASE lot' = lot /\ res' = res
  BY <1>0, <1>1
<1>2. ASSUME NEW p \in Procs, PushTopUp(p)
      PROVE  res' = res /\ lot'[l].reserved <= lot[l].reserved
  <2>1. PICK k \in Lots : lot' = [lot EXCEPT ![k].avail = @ + tx[p].qty]
    BY <1>2 DEF PushTopUp, Numbered, LotsOf
  <2> QED
    BY <1>0, <1>2, <2>1 DEF PushTopUp, LotRow
<1>3. ASSUME NEW p \in Procs, PushCreate(p)
      PROVE  res' = res /\ lot'[l].reserved <= lot[l].reserved
  <2>1. PICK k \in Lots :
          lot' = [lot EXCEPT ![k] = [status |-> "active", number |-> tx[p].number,
                                     initial |-> tx[p].qty, avail |-> tx[p].qty,
                                     reserved |-> 0]]
    BY <1>3 DEF PushCreate, LotsOf
  <2> QED
    BY <1>0, <1>3, <2>1 DEF PushCreate
<1>4. ASSUME NEW p \in Procs, QuarantineCommit(p)
      PROVE  res' = res /\ lot'[l].reserved <= lot[l].reserved
  <2>1. lot' = [lot EXCEPT ![tx[p].lot] = [@ EXCEPT !.status = "quarantined", !.avail = 0]]
    BY <1>4 DEF QuarantineCommit
  <2> QED
    BY <1>0, <1>4, <2>1 DEF QuarantineCommit, LotRow
<1>5. ASSUME NEW p \in Procs, ReleaseLotCommit(p)
      PROVE  res' = res /\ lot'[l].reserved <= lot[l].reserved
  <2>1. lot' = [lot EXCEPT ![tx[p].lot] = [@ EXCEPT !.status = "active",
                                                    !.avail = tx[p].qty]]
    BY <1>5 DEF ReleaseLotCommit
  <2> QED
    BY <1>0, <1>5, <2>1 DEF ReleaseLotCommit, LotRow
<1>6. ASSUME NEW k \in Lots, NEW d, AdjustStock(k, d)
      PROVE  res' = res /\ lot'[l].reserved <= lot[l].reserved
  BY <1>0, <1>6 DEF AdjustStock, LotRow
<1>7. ASSUME NEW p \in Procs, Reserve(p) \/ Release(p) \/ Rollback(p)
      PROVE  lot' = lot /\ res' = res
  BY <1>7, Zenon DEF Reserve, Release, Rollback, ReserveStart, ReserveQuery, ReleaseStart,
                     ReleaseNext
<1>8. ASSUME NEW p \in Clerks, Push(p) \/ Quarantine(p) \/ ReleaseLot(p)
      PROVE  res' = res /\ lot'[l].reserved <= lot[l].reserved
  BY <1>1, <1>2, <1>3, <1>4, <1>5, <1>8, ClerksAssumption
     DEF Push, PushStart, PushMiss, Quarantine, QuarantineStart, QuarantineLock,
         ReleaseLot, ReleaseLotStart, ReleaseLotLock
<1>9. CASE UNCHANGED vars
  BY <1>1, <1>9 DEF vars
<1> QED
  BY <1>1, <1>6, <1>7, <1>8, <1>9 DEF Next

\* What ReserveCommit writes, in terms of what it takes.
LEMMA ReserveWrites ==
    ASSUME TypeOK, NEW p \in Procs, ReserveCommit(p), NEW l \in Lots
    PROVE  LET from == tx[p].found \cap Allocatable(tx[p].level)
               take == Take(from, tx[p].qty)
           IN  /\ tx[p].qty \in Nat /\ from \in SUBSET Lots
               /\ take[l] \in 0..lot[l].avail
               /\ take[l] > 0 => /\ l \in from
                                 /\ ~Locked(l)
                                 /\ res[tx[p].req][l].status = "none"
               /\ lot'[l].avail = lot[l].avail - take[l]
               /\ lot'[l].reserved = lot[l].reserved + take[l]
               /\ \A r \in Requests :
                     res'[r][l] = IF r = tx[p].req /\ take[l] > 0
                                  THEN [status |-> "reserved", qty |-> take[l],
                                        grant |-> {k \in Lots : take[k] > 0}]
                                  ELSE res[r][l]
<1> DEFINE t == tx[p]
           from == t.found \cap Allocatable(t.level)
           take == Take(from, t.qty)
<1>1. t.req \in Requests /\ t.qty \in Nat /\ from \in SUBSET Lots
  BY Reserving, Zenon
<1>2. take[l] \in 0..lot[l].avail /\ (take[l] > 0 => l \in from)
  <2> HIDE DEF t, from
  <2> QED
    BY <1>1, TakeFits
<1>4. /\ take[l] > 0 => RowFree(t.req, l)
      /\ l \in from => ~Locked(l)
      /\ lot' = [k \in Lots |-> [lot[k] EXCEPT !.avail = @ - take[k],
                                               !.reserved = @ + take[k]]]
      /\ res' = [res EXCEPT ![t.req] = [k \in Lots |->
                    IF take[k] > 0 THEN [status |-> "reserved", qty |-> take[k],
                                         grant |-> {j \in Lots : take[j] > 0}]
                                   ELSE res[t.req][k]]]
  BY DEF ReserveCommit
<1> HIDE DEF take, t
<1>5. lot'[l].avail = lot[l].avail - take[l] /\ lot'[l].reserved = lot[l].reserved + take[l]
  BY <1>4 DEF TypeOK, LotRow
<1>6. \A r \in Requests :
        res'[r][l] = IF r = t.req /\ take[l] > 0
                     THEN [status |-> "reserved", qty |-> take[l],
                           grant |-> {k \in Lots : take[k] > 0}]
                     ELSE res[r][l]
  BY <1>1, <1>4 DEF TypeOK
<1>7. take[l] > 0 => res[t.req][l].status = "none"
  BY <1>4 DEF RowFree
<1> QED
  BY <1>1, <1>2, <1>4, <1>5, <1>6, <1>7, Zenon DEF t, take, from

\* What ReserveCommit takes, and the set of lots it takes something from.
Taken(p) == Take(tx[p].found \cap Allocatable(tx[p].level), tx[p].qty)
TakenFrom(p) == {l \in Lots : Taken(p)[l] > 0}

\* The rows ReserveCommit writes.
LEMMA RowsWritten ==
    ASSUME TypeOK, NEW p \in Procs, ReserveCommit(p), NEW l \in Lots
    PROVE  /\ Taken(p)[l] \in Nat
           /\ Taken(p)[l] > 0 => res[tx[p].req][l].status = "none"
           /\ \A r \in Requests :
                 res'[r][l] = IF r = tx[p].req /\ Taken(p)[l] > 0
                              THEN [status |-> "reserved", qty |-> Taken(p)[l],
                                    grant |-> TakenFrom(p)]
                              ELSE res[r][l]
<1>1. Taken(p)[l] \in Nat
  <2>1. Taken(p)[l] \in 0..lot[l].avail
    BY ReserveWrites DEF Taken
  <2>2. lot[l].avail \in Nat
    BY MaxIntAssumption DEF TypeOK, LotRow, Int32
  <2> QED
    BY <2>1, <2>2
<1>2. Taken(p)[l] > 0 => res[tx[p].req][l].status = "none"
  BY ReserveWrites DEF Taken
<1>3. \A r \in Requests :
        res'[r][l] = IF r = tx[p].req /\ Taken(p)[l] > 0
                     THEN [status |-> "reserved", qty |-> Taken(p)[l],
                           grant |-> TakenFrom(p)]
                     ELSE res[r][l]
  BY ReserveWrites DEF Taken, TakenFrom
<1> QED
  BY <1>1, <1>2, <1>3

\* What ReleaseCommit writes.
LEMMA ReleaseWrites ==
    ASSUME TypeOK, NEW p \in Procs, ReleaseCommit(p), NEW l \in Lots
    PROVE  /\ lot'[l].reserved <= lot[l].reserved
           /\ \A r \in Requests :
                 res'[r][l] = IF <<r, l>> \in RowsOf(p) /\ res[r][l].status = "reserved"
                              THEN [res[r][l] EXCEPT !.status = "released"]
                              ELSE res[r][l]
<1> DEFINE given == Given(RowsOf(p))
<1>1. lot' = [k \in Lots |-> [lot[k] EXCEPT !.avail = @ + given[k],
                                            !.reserved = @ - given[k]]]
  BY DEF ReleaseCommit, RowsOf
<1>2. given[l] \in Nat
  BY GivenTotal
<1> HIDE DEF given
<1>3. lot[l] \in LotRow /\ lot[l].reserved \in Int
  BY MaxIntAssumption DEF TypeOK, LotRow, Int32
<1>4. lot'[l].reserved = lot[l].reserved - given[l]
  BY <1>1, <1>3 DEF LotRow
<1>5. lot'[l].reserved <= lot[l].reserved
  BY <1>2, <1>3, <1>4
<1>6. \A r \in Requests :
        res'[r][l] = IF <<r, l>> \in RowsOf(p) /\ res[r][l].status = "reserved"
                     THEN [res[r][l] EXCEPT !.status = "released"]
                     ELSE res[r][l]
  BY DEF ReleaseCommit, RowsOf
<1> QED
  BY <1>5, <1>6

LEMMA HistoryStep ==
    ASSUME TypeOK, [Next]_vars, NEW r \in Requests, NEW l \in Lots
    PROVE  RowStep(res[r][l], res'[r][l])
<1>1. res[r][l] \in ReservationRow
  BY DEF TypeOK
<1>2. ASSUME NEW p \in Procs, ReserveCommit(p)
      PROVE  RowStep(res[r][l], res'[r][l])
  <2>1. CASE r = tx[p].req /\ Taken(p)[l] > 0
    <3>1. /\ res[r][l].status = "none"
          /\ res'[r][l] = [status |-> "reserved", qty |-> Taken(p)[l],
                           grant |-> TakenFrom(p)]
      BY <1>2, <2>1, RowsWritten
    <3> QED
      BY <2>1, <3>1 DEF RowStep
  <2>2. CASE ~(r = tx[p].req /\ Taken(p)[l] > 0)
    <3>1. res'[r][l] = res[r][l]
      BY <1>2, <2>2, RowsWritten
    <3> QED
      BY <3>1 DEF RowStep
  <2> QED
    BY <2>1, <2>2
<1>3. ASSUME NEW p \in Procs, ReleaseCommit(p)
      PROVE  RowStep(res[r][l], res'[r][l])
  BY <1>3, ReleaseWrites DEF RowStep
<1> QED
  BY <1>2, <1>3, OtherSteps DEF RowStep

\* No row is ever given back twice, taken again, or changed in quantity.
THEOREM HistoryKept == Spec => ReservationHistory
<1>1. TypeOK /\ [Next]_vars =>
        [\A r \in Requests, l \in Lots : RowStep(res[r][l], res'[r][l])]_vars
  BY HistoryStep
<1> QED
  BY <1>1, TypeCorrect, PTL DEF Spec, ReservationHistory

LEMMA QuarantineStep ==
    ASSUME TypeOK, [Next]_vars, NEW l \in Lots, lot'[l].reserved > lot[l].reserved
    PROVE  lot[l].status = "active" /\ ~Locked(l)
<1>0. lot[l].reserved \in Int /\ ~(lot'[l].reserved <= lot[l].reserved)
  <2>1. TypeOK'
    BY TypeStep
  <2>2. lot[l].reserved \in Int /\ lot'[l].reserved \in Int
    BY <2>1, MaxIntAssumption DEF TypeOK, LotRow, Int32
  <2> QED
    BY <2>2
<1>1. ASSUME NEW p \in Procs, ReserveCommit(p)
      PROVE  lot[l].status = "active" /\ ~Locked(l)
  <2> DEFINE n == Take(tx[p].found \cap Allocatable(tx[p].level), tx[p].qty)[l]
  <2>1. n \in 0..lot[l].avail /\ lot'[l].reserved = lot[l].reserved + n
    BY <1>1, ReserveWrites
  <2>2. n > 0 => l \in Allocatable(tx[p].level) /\ ~Locked(l)
    BY <1>1, ReserveWrites
  <2> HIDE DEF n
  <2>3. n > 0
    BY <1>0, <2>1
  <2> QED
    BY <2>2, <2>3 DEF Allocatable
<1>2. ASSUME NEW p \in Procs, ReleaseCommit(p)
      PROVE  FALSE
  BY <1>0, <1>2, ReleaseWrites
<1>3. CASE \A p \in Procs : ~ReserveCommit(p) /\ ~ReleaseCommit(p)
  BY <1>0, <1>3, OtherSteps
<1> QED
  BY <1>1, <1>2, <1>3

\* No reservation takes from a lot that is quarantined or being quarantined.
THEOREM QuarantineHolds == Spec => QuarantineBlocks
<1>1. TypeOK /\ [Next]_vars =>
        [\A l \in Lots : lot'[l].reserved > lot[l].reserved =>
            lot[l].status = "active" /\ ~Locked(l)]_vars
  BY QuarantineStep
<1> QED
  BY <1>1, TypeCorrect, PTL DEF Spec, QuarantineBlocks

\* A lot gives something only when what expires before it gives all it has.
LEMMA EarlierDrained ==
    ASSUME TypeOK, NEW from \in SUBSET Lots, NEW q \in Nat, NEW l \in Lots,
           Take(from, q)[l] > 0, NEW k \in from, k < l
    PROVE  Take(from, q)[k] = lot[k].avail
<1> DEFINE before(x) == {j \in from : j < x}
<1>1. k \in Lots /\ k \in Nat /\ l \in Nat /\ Lots \subseteq Nat
  BY LotsAssumption
<1>2. IsFiniteSet(before(l)) /\ IsFiniteSet(before(k))
  <2>1. before(l) \subseteq Lots /\ before(k) \subseteq Lots
    OBVIOUS
  <2> QED
    BY <2>1, LotsAssumption, FS_Subset
<1>3. before(k) \subseteq before(l) /\ k \in before(l) \ before(k)
  <2>1. from \subseteq Nat
    BY <1>1
  <2>2. \A j \in from : j < k => j < l
    BY <1>1, <2>1
  <2>3. k \in from /\ ~(k < k)
    BY <1>1
  <2> QED
    BY <2>2, <2>3
<1>4. Available[k] = lot[k].avail /\ lot[k].avail \in Int32
  BY <1>1 DEF Available, TypeOK, LotRow
<1>5. Total(Available, before(l)) >= Total(Available, before(k)) + lot[k].avail
  BY <1>2, <1>3, <1>4, TotalMonotone
<1>6. Total(Available, before(l)) \in Nat /\ Total(Available, before(k)) \in Nat
  BY <1>2, TotalNat
<1>7. /\ Take(from, q)[l] =
           IF l \in from
           THEN AtMost(lot[l].avail, AtLeastZero(q - Total(Available, before(l))))
           ELSE 0
      /\ Take(from, q)[k] =
           AtMost(lot[k].avail, AtLeastZero(q - Total(Available, before(k))))
  BY <1>1 DEF Take
<1> HIDE DEF before
<1>8. lot[l].avail \in Nat /\ lot[k].avail \in Nat
  BY <1>1, MaxIntAssumption DEF TypeOK, LotRow, Int32
<1>9. q > Total(Available, before(l))
  BY <1>6, <1>7, <1>8 DEF AtMost, AtLeastZero
<1> QED
  BY <1>5, <1>6, <1>7, <1>8, <1>9 DEF AtMost, AtLeastZero

LEMMA EarliestStep ==
    ASSUME TypeOK, [Next]_vars, NEW r \in Requests, NEW l \in Lots, NewRow(r, l)
    PROVE  \E p \in Procs :
              /\ tx[p].at = "reserveLots" /\ tx[p].req = r
              /\ \A k \in tx[p].found \cap Allocatable(LevelOf[l]) :
                    k < l => lot'[k].avail = 0
<1>1. ASSUME NEW p \in Procs, ReserveCommit(p)
      PROVE  /\ tx[p].at = "reserveLots" /\ tx[p].req = r
             /\ \A k \in tx[p].found \cap Allocatable(LevelOf[l]) :
                   k < l => lot'[k].avail = 0
  <2> DEFINE from == tx[p].found \cap Allocatable(tx[p].level)
             take == Take(from, tx[p].qty)
  <2>1. /\ tx[p].qty \in Nat /\ from \in SUBSET Lots
        /\ take[l] > 0 => l \in from
    BY <1>1, ReserveWrites, Zenon
  <2>2. take[l] > 0 /\ tx[p].req = r /\ tx[p].at = "reserveLots"
    <3>1. res'[r][l] # res[r][l]
      BY DEF NewRow
    <3>2. tx[p].req = r /\ Taken(p)[l] > 0
      BY <1>1, <3>1, RowsWritten
    <3>3. tx[p].at = "reserveLots"
      BY <1>1 DEF ReserveCommit
    <3> QED
      BY <3>2, <3>3 DEF Taken
  <2>3. LevelOf[l] = tx[p].level
    BY <2>1, <2>2 DEF Allocatable, LotsOf
  <2>4. ASSUME NEW k \in from, k < l
        PROVE  lot'[k].avail = 0
    <3>1. take[k] = lot[k].avail
      BY <2>1, <2>2, <2>4, EarlierDrained
    <3>2. k \in Lots
      BY <2>1
    <3>3. lot'[k].avail = lot[k].avail - take[k]
      BY <1>1, <3>2, ReserveWrites
    <3>4. lot[k].avail \in Int
      BY <3>2, MaxIntAssumption DEF TypeOK, LotRow, Int32
    <3> HIDE DEF take
    <3> QED
      BY <3>1, <3>3, <3>4
  <2> QED
    BY <2>2, <2>3, <2>4
<1>2. ASSUME NEW p \in Procs, ReleaseCommit(p)
      PROVE  FALSE
  BY <1>2, ReleaseWrites DEF NewRow
<1>3. CASE \A p \in Procs : ~ReserveCommit(p) /\ ~ReleaseCommit(p)
  BY <1>3, OtherSteps DEF NewRow
<1> QED
  BY <1>1, <1>2, <1>3

\* First expired, first out: nothing is taken from a lot while one the query
\* found that expires earlier, and can still be allocated, keeps anything.
THEOREM FirstExpiredFirstOut == Spec => EarliestFirst
<1>1. TypeOK /\ [Next]_vars =>
        [\A r \in Requests, l \in Lots : NewRow(r, l) =>
            \E p \in Procs :
               /\ tx[p].at = "reserveLots" /\ tx[p].req = r
               /\ \A k \in tx[p].found \cap Allocatable(LevelOf[l]) :
                     k < l => lot'[k].avail = 0]_vars
  BY EarliestStep
<1> QED
  BY <1>1, TypeCorrect, PTL DEF Spec, EarliestFirst

-----------------------------------------------------------------------------
(* What one reservation takes, and what moves with it *)

LEMMA LotsOfLevel ==
    ASSUME NEW v \in Levels
    PROVE  LotsOf(v) \subseteq Lots /\ IsFiniteSet(LotsOf(v))
<1>1. LotsOf(v) \subseteq Lots
  BY DEF LotsOf
<1> QED
  BY <1>1, LotsAssumption, FS_Subset

\* Reading a sum into an int32 never makes it larger.
LEMMA WrappedBelow ==
    ASSUME NEW n \in Nat
    PROVE  Wrapped(n) \in Int /\ Wrapped(n) <= n
<1> DEFINE w == 2 * (MaxInt + 1)
           m == n + MaxInt + 1
<1>1. w \in Nat \ {0} /\ m \in Nat
  BY MaxIntAssumption
<1>2. m % w \in Int /\ m % w <= m
  <2> HIDE DEF w, m
  <2> QED
    BY <1>1
<1>3. Wrapped(n) = (m % w) - (MaxInt + 1)
  BY DEF Wrapped
<1> QED
  BY <1>2, <1>3, MaxIntAssumption

\* The lots a reservation takes from give the quantity asked for between them.
LEMMA TakesWhatWasAsked ==
    ASSUME TypeOK, NEW p \in Procs, ReserveCommit(p)
    PROVE  LET t == tx[p]
               from == t.found \cap Allocatable(t.level)
               take == Take(from, t.qty)
           IN  /\ t.level \in Levels /\ t.req \in Requests /\ t.qty \in Nat
               /\ t.qty <= MaxInt * Cardinality(Lots)
               /\ \A l \in Lots : take[l] \in Int32
               /\ Total(take, Lots) = t.qty
               /\ Total(take, LotsOf(t.level)) = t.qty
               /\ \A v \in Levels \ {t.level} : \A l \in LotsOf(v) : take[l] = 0
               /\ t.qty <= Total(Available, LotsOf(t.level))
<1> DEFINE t == tx[p]
           from == t.found \cap Allocatable(t.level)
           take == Take(from, t.qty)
<1>1. t.req \in Requests /\ t.level \in Levels /\ t.qty \in Nat /\ from \in SUBSET Lots
  BY Reserving, Zenon
<1>2. from \subseteq LotsOf(t.level) /\ Wrapped(Total(Available, from)) >= t.qty
  <2>1. Wrapped(Total(Available, from)) >= t.qty
    BY Zenon DEF ReserveCommit
  <2>2. from \subseteq LotsOf(t.level)
    BY DEF Allocatable
  <2> QED
    BY <2>1, <2>2
<1>3. \A l \in Lots : /\ take[l] = IF l \in from
                                    THEN AtMost(lot[l].avail, AtLeastZero(t.qty -
                                            Total(Available, {k \in from : k < l})))
                                    ELSE 0
                      /\ take[l] \in 0..lot[l].avail
  BY <1>1, TakeFits DEF Take
<1> HIDE DEF take, from, t
<1>4. \A l \in Lots : lot[l].avail \in Int32 /\ Available[l] = lot[l].avail
  BY DEF TypeOK, LotRow, Available
<1>5. \A l \in Lots : take[l] \in Int32
  <2> SUFFICES ASSUME NEW l \in Lots PROVE take[l] \in Int32
    OBVIOUS
  <2>1. take[l] \in 0..lot[l].avail /\ lot[l].avail \in 0..MaxInt
    BY <1>3, <1>4 DEF Int32
  <2> QED
    BY <2>1, MaxIntAssumption DEF Int32
<1>6. IsFiniteSet(from) /\ from \subseteq Nat /\ IsFiniteSet(Lots)
  BY <1>1, LotsAssumption, FS_Subset
<1>7. Total(take, from) = AtMost(t.qty, Total(Available, from))
  <2>1. \A l \in from : Available[l] \in Int32
    BY <1>1, <1>4
  <2>2. \A l \in from : take[l] = AtMost(Available[l], AtLeastZero(t.qty -
                                  Total(Available, {k \in from : k < l})))
    BY <1>1, <1>3, <1>4
  <2> QED
    BY <1>1, <1>6, <2>1, <2>2, TotalGreedy
<1>8. Total(Available, from) \in Nat /\ t.qty <= Total(Available, from)
  <2>1. Total(Available, from) \in Nat
    BY <1>6, TotalNat
  <2> QED
    BY <1>1, <1>2, <2>1, WrappedBelow
<1>9. Total(take, from) = t.qty
  BY <1>1, <1>7, <1>8 DEF AtMost
<1>10. ASSUME NEW T \in SUBSET Lots, from \subseteq T
       PROVE  Total(take, T) = t.qty /\ t.qty <= Total(Available, T)
  <2>1. IsFiniteSet(T) /\ IsFiniteSet(T \ from)
    BY <1>6, FS_Subset
  <2>2. /\ Total(take, T) = Total(take, from) + Total(take, T \ from)
        /\ Total(Available, T) = Total(Available, from) + Total(Available, T \ from)
    BY <1>10, <2>1, TotalPart
  <2>3. Total(take, T \ from) = 0
    BY <1>3, TotalZero
  <2>4. Total(Available, T \ from) \in Nat
    BY <2>1, TotalNat
  <2> QED
    BY <1>1, <1>8, <1>9, <2>2, <2>3, <2>4
<1>11. \A v \in Levels \ {t.level} : \A l \in LotsOf(v) : take[l] = 0
  BY <1>2, <1>3 DEF LotsOf
<1>12. t.qty <= MaxInt * Cardinality(Lots)
  <2>1. t.qty <= Total(Available, Lots)
    BY <1>1, <1>10
  <2>2. Total(Available, Lots) \in Nat
    BY <1>6, TotalNat
  <2> QED
    BY <1>1, <1>6, <2>1, <2>2, TotalBound
<1>13. /\ Total(take, Lots) = t.qty
       /\ Total(take, LotsOf(t.level)) = t.qty
       /\ t.qty <= Total(Available, LotsOf(t.level))
  BY <1>1, <1>2, <1>10, LotsOfLevel
<1> QED
  BY <1>1, <1>5, <1>11, <1>12, <1>13, Zenon DEF take, from, t

LEMMA ReservesStep ==
    ASSUME TypeOK, [Next]_vars, NEW r \in Requests, NEW k \in Lots, NewRow(r, k)
    PROVE  \E p \in Procs :
              /\ tx[p].at = "reserveLots" /\ tx[p].req = r
              /\ tx[p].qty = Total([l \in Lots |-> IF NewRow(r, l) THEN res'[r][l].qty
                                                                 ELSE 0], Lots)
<1>1. ASSUME NEW p \in Procs, ReserveCommit(p)
      PROVE  /\ tx[p].at = "reserveLots" /\ tx[p].req = r
             /\ tx[p].qty = Total([l \in Lots |-> IF NewRow(r, l) THEN res'[r][l].qty
                                                                ELSE 0], Lots)
  <2> DEFINE new == [l \in Lots |-> IF NewRow(r, l) THEN res'[r][l].qty ELSE 0]
  <2>1. Total(Taken(p), Lots) = tx[p].qty
    BY <1>1, TakesWhatWasAsked DEF Taken
  <2>2. tx[p].at = "reserveLots"
    BY <1>1 DEF ReserveCommit
  <2>3. tx[p].req = r
    <3>1. res'[r][k] # res[r][k]
      BY DEF NewRow
    <3> QED
      BY <1>1, <3>1, RowsWritten
  <2>4. ASSUME NEW l \in Lots
        PROVE  new[l] = Taken(p)[l]
    <3>1. CASE Taken(p)[l] > 0
      <4>1. /\ res[r][l].status = "none"
            /\ res'[r][l] = [status |-> "reserved", qty |-> Taken(p)[l],
                             grant |-> TakenFrom(p)]
        BY <1>1, <2>3, <3>1, RowsWritten
      <4>2. NewRow(r, l) /\ res'[r][l].qty = Taken(p)[l]
        BY <4>1 DEF NewRow
      <4> QED
        BY <4>2
    <3>2. CASE ~(Taken(p)[l] > 0)
      <4>1. Taken(p)[l] \in Nat /\ res'[r][l] = res[r][l]
        BY <1>1, <3>2, RowsWritten
      <4>2. ~NewRow(r, l)
        BY <4>1 DEF NewRow
      <4> QED
        BY <3>2, <4>1, <4>2
    <3> QED
      BY <3>1, <3>2
  <2>5. Total(new, Lots) = Total(Taken(p), Lots)
    BY <2>4, TotalSame
  <2> QED
    BY <2>1, <2>2, <2>3, <2>5
<1>2. ASSUME NEW p \in Procs, ReleaseCommit(p)
      PROVE  FALSE
  BY <1>2, ReleaseWrites DEF NewRow
<1>3. CASE \A p \in Procs : ~ReserveCommit(p) /\ ~ReleaseCommit(p)
  BY <1>3, OtherSteps DEF NewRow
<1> QED
  BY <1>1, <1>2, <1>3

\* A reservation is all or nothing: the rows one transaction creates add up to
\* the quantity asked for, however the lots have changed since it looked.
THEOREM AllOrNothing == Spec => ReservesWhatWasAsked
<1>1. TypeOK /\ [Next]_vars =>
        [\A r \in Requests :
           (\E l \in Lots : NewRow(r, l)) =>
              \E p \in Procs :
                 /\ tx[p].at = "reserveLots" /\ tx[p].req = r
                 /\ tx[p].qty = Total([l \in Lots |-> IF NewRow(r, l) THEN res'[r][l].qty
                                                                    ELSE 0], Lots)]_vars
  BY ReservesStep
<1> QED
  BY <1>1, TypeCorrect, PTL DEF Spec, ReservesWhatWasAsked

\* What ReleaseCommit gives back, lot by lot and level by level.
LEMMA GivesBack ==
    ASSUME TypeOK, NEW p \in Procs, ReleaseCommit(p)
    PROVE  LET given == Given(RowsOf(p))
           IN  /\ \A l \in Lots : /\ given[l] \in Int32
                                 /\ lot'[l].avail \in Int32
                                 /\ lot'[l].avail = lot[l].avail + given[l]
                                 /\ lot'[l].reserved = lot[l].reserved - given[l]
               /\ \A v \in Levels :
                     /\ level'[v].avail = level[v].avail + Total(given, LotsOf(v))
                     /\ level'[v].reserved = level[v].reserved - Total(given, LotsOf(v))
<1> DEFINE given == Given(RowsOf(p))
<1>1. /\ \A l \in Lots : given[l] > 0 => Storable(lot[l].avail + given[l])
      /\ lot' = [l \in Lots |-> [lot[l] EXCEPT !.avail = @ + given[l],
                                               !.reserved = @ - given[l]]]
      /\ level' = [v \in Levels |->
                     [level[v] EXCEPT !.avail = @ + Total(given, LotsOf(v)),
                                      !.reserved = @ - Total(given, LotsOf(v))]]
  BY DEF ReleaseCommit, RowsOf
<1>2. \A l \in Lots : given[l] \in Nat
  BY GivenTotal
<1> HIDE DEF given
<1>3. ASSUME NEW l \in Lots
      PROVE  /\ given[l] \in Int32
             /\ lot'[l].avail \in Int32
             /\ lot'[l].avail = lot[l].avail + given[l]
             /\ lot'[l].reserved = lot[l].reserved - given[l]
  <2>1. lot[l] \in LotRow /\ lot[l].avail \in Int32
    BY DEF TypeOK, LotRow
  <2>2. /\ lot'[l].avail = lot[l].avail + given[l]
        /\ lot'[l].reserved = lot[l].reserved - given[l]
    BY <1>1, <2>1 DEF LotRow
  <2>3. given[l] \in Nat /\ (given[l] > 0 => lot[l].avail + given[l] \in 0..MaxInt)
    BY <1>1, <1>2 DEF Storable
  <2>4. given[l] \in Int32 /\ lot[l].avail + given[l] \in Int32
    BY <2>1, <2>3, MaxIntAssumption DEF Int32
  <2> QED
    BY <2>2, <2>4
<1>4. ASSUME NEW v \in Levels
      PROVE  /\ level'[v].avail = level[v].avail + Total(given, LotsOf(v))
             /\ level'[v].reserved = level[v].reserved - Total(given, LotsOf(v))
  <2>1. level[v] \in LevelRow
    BY DEF TypeOK
  <2> QED
    BY <1>1, <2>1 DEF LevelRow
<1> QED
  BY <1>3, <1>4 DEF given

\* The available side of a level's lots changes by what its lots give.
LEMMA AvailableMoves ==
    ASSUME TypeOK, NEW p \in Procs, ReserveCommit(p), NEW v \in Levels
    PROVE  Total(Available, LotsOf(v))
             = Total([l \in Lots |-> lot'[l].avail], LotsOf(v))
               + (IF v = tx[p].level THEN tx[p].qty ELSE 0)
<1> DEFINE take == Take(tx[p].found \cap Allocatable(tx[p].level), tx[p].qty)
           left == [l \in Lots |-> lot'[l].avail]
<1>1. \A l \in Lots : take[l] \in Int32
  BY TakesWhatWasAsked
<1>2. Total(take, LotsOf(tx[p].level)) = tx[p].qty
  BY TakesWhatWasAsked
<1>3. v # tx[p].level => \A l \in LotsOf(v) : take[l] = 0
  BY TakesWhatWasAsked
<1>4. ASSUME NEW l \in Lots
      PROVE  lot'[l].avail = lot[l].avail - take[l] /\ take[l] \in 0..lot[l].avail
  BY ReserveWrites
<1> HIDE DEF take
<1>5. ASSUME NEW l \in Lots
      PROVE  /\ left[l] \in Int32
             /\ Available[l] \in Int32
             /\ Available[l] = left[l] + take[l]
  <2>1. lot[l].avail \in Int32 /\ Available[l] = lot[l].avail
    BY DEF TypeOK, LotRow, Available
  <2>2. left[l] = lot[l].avail - take[l] /\ take[l] \in 0..lot[l].avail
    BY <1>4
  <2> QED
    BY <2>1, <2>2, MaxIntAssumption DEF Int32
<1>6. LotsOf(v) \subseteq Lots /\ IsFiniteSet(LotsOf(v))
  BY LotsOfLevel
<1>7. Total(Available, LotsOf(v)) = Total(left, LotsOf(v)) + Total(take, LotsOf(v))
  <2> HIDE DEF left
  <2>1. \A l \in LotsOf(v) : /\ left[l] \in Int32 /\ take[l] \in Int32
                             /\ Available[l] \in Int32
                             /\ Available[l] = left[l] + take[l]
    BY <1>1, <1>5, <1>6
  <2> QED
    BY <1>6, <2>1, TotalAdd
<1>8. v # tx[p].level => Total(take, LotsOf(v)) = 0
  BY <1>3, TotalZero
<1> QED
  BY <1>2, <1>7, <1>8

LEMMA AvailableReturns ==
    ASSUME TypeOK, NEW p \in Procs, ReleaseCommit(p),
           NEW v \in Levels
    PROVE  Total([l \in Lots |-> lot'[l].avail], LotsOf(v))
             = Total(Available, LotsOf(v))
               + Total(Given(RowsOf(p)), LotsOf(v))
<1> DEFINE given == Given(RowsOf(p))
           next == [l \in Lots |-> lot'[l].avail]
<1>1. ASSUME NEW l \in Lots
      PROVE  given[l] \in Int32 /\ lot'[l].avail \in Int32
             /\ lot'[l].avail = lot[l].avail + given[l]
  BY GivesBack
<1> HIDE DEF given
<1>2. ASSUME NEW l \in Lots
      PROVE  Available[l] = lot[l].avail /\ lot[l].avail \in Int32
  BY DEF TypeOK, LotRow, Available
<1>3. LotsOf(v) \subseteq Lots /\ IsFiniteSet(LotsOf(v))
  BY LotsOfLevel
<1>4. \A l \in LotsOf(v) : /\ Available[l] \in Int32 /\ given[l] \in Int32
                           /\ next[l] \in Int32
                           /\ next[l] = Available[l] + given[l]
  BY <1>1, <1>2, <1>3
<1>5. Total(next, LotsOf(v)) = Total(Available, LotsOf(v)) + Total(given, LotsOf(v))
  <2> HIDE DEF next
  <2> QED
    BY <1>3, <1>4, TotalAdd
<1> QED
  BY <1>5 DEF given

\* The rows stay the rows when there are no lots, or no reservation is made
\* or released.
LEMMA RowsKept ==
    ASSUME TypeOK, [Next]_vars,
           \A p \in Procs : ~ReserveCommit(p) /\ ~ReleaseCommit(p)
    PROVE  res' = res
<1>1. CASE Lots = {}
  <2>1. TypeOK'
    BY TypeStep
  <2>2. \A r \in Requests : res[r] = [l \in Lots |-> NoRow]
    BY <1>1 DEF TypeOK
  <2>3. \A r \in Requests : res'[r] = [l \in Lots |-> NoRow]
    BY <1>1, <2>1 DEF TypeOK
  <2> QED
    BY <2>1, <2>2, <2>3 DEF TypeOK
<1>2. CASE Lots # {}
  BY <1>2, OtherSteps
<1> QED
  BY <1>1, <1>2

LEMMA MoveStep ==
    ASSUME TypeOK, [Next]_vars, res' # res
    PROVE  /\ \A l \in Lots :
                lot'[l].avail + lot'[l].reserved = lot[l].avail + lot[l].reserved
           /\ \A v \in Levels :
                /\ level'[v].avail - level[v].avail =
                     Total([l \in Lots |-> lot'[l].avail], LotsOf(v))
                       - Total(Available, LotsOf(v))
                /\ level'[v].avail + level'[v].reserved = level[v].avail + level[v].reserved
<1>1. ASSUME NEW l \in Lots
      PROVE  lot[l].avail \in Int /\ lot[l].reserved \in Int
  BY MaxIntAssumption DEF TypeOK, LotRow, Int32
<1>2. ASSUME NEW v \in Levels
      PROVE  /\ level[v].avail \in Int /\ level[v].reserved \in Int
             /\ Total([l \in Lots |-> lot'[l].avail], LotsOf(v)) \in Nat
             /\ Total(Available, LotsOf(v)) \in Nat
  <2>1. level[v].avail \in Int /\ level[v].reserved \in Int
    BY MaxIntAssumption DEF TypeOK, LevelRow, Int32
  <2> QED
    BY <2>1, LotsOfLevel, TotalNat
<1>3. ASSUME NEW p \in Procs, ReserveCommit(p)
      PROVE  /\ \A l \in Lots :
                  lot'[l].avail + lot'[l].reserved = lot[l].avail + lot[l].reserved
             /\ \A v \in Levels :
                  /\ level'[v].avail - level[v].avail =
                       Total([l \in Lots |-> lot'[l].avail], LotsOf(v))
                         - Total(Available, LotsOf(v))
                  /\ level'[v].avail + level'[v].reserved
                       = level[v].avail + level[v].reserved
  <2> DEFINE take == Take(tx[p].found \cap Allocatable(tx[p].level), tx[p].qty)
  <2>1. ASSUME NEW l \in Lots
        PROVE  lot'[l].avail + lot'[l].reserved = lot[l].avail + lot[l].reserved
    <3>1. /\ lot'[l].avail = lot[l].avail - take[l]
          /\ lot'[l].reserved = lot[l].reserved + take[l]
          /\ take[l] \in 0..lot[l].avail
      BY <1>3, ReserveWrites
    <3> HIDE DEF take
    <3> QED
      BY <1>1, <3>1
  <2>2. tx[p].level \in Levels /\ tx[p].qty \in Nat
    BY <1>3, TakesWhatWasAsked
  <2>3. level' = [level EXCEPT ![tx[p].level] =
                    [exists |-> TRUE, avail |-> level[tx[p].level].avail - tx[p].qty,
                     reserved |-> level[tx[p].level].reserved + tx[p].qty,
                     total |-> tx[p].seen]]
    BY <1>3, Zenon DEF ReserveCommit, WriteLevel
  <2>4. ASSUME NEW v \in Levels
        PROVE  /\ level'[v].avail = level[v].avail
                                      - (IF v = tx[p].level THEN tx[p].qty ELSE 0)
               /\ level'[v].reserved = level[v].reserved
                                      + (IF v = tx[p].level THEN tx[p].qty ELSE 0)
    <3>1. v # tx[p].level => level'[v] = level[v]
      BY <2>2, <2>3 DEF TypeOK
    <3>2. /\ level'[tx[p].level].avail = level[tx[p].level].avail - tx[p].qty
          /\ level'[tx[p].level].reserved = level[tx[p].level].reserved + tx[p].qty
      BY <2>2, <2>3 DEF TypeOK
    <3>3. CASE v = tx[p].level
      BY <3>2, <3>3
    <3>4. CASE v # tx[p].level
      <4>1. level[v].avail \in Int /\ level[v].reserved \in Int
        BY <1>2
      <4> QED
        BY <3>1, <3>4, <4>1
    <3> QED
      BY <3>3, <3>4
  <2>5. ASSUME NEW v \in Levels
        PROVE  /\ level'[v].avail - level[v].avail =
                    Total([l \in Lots |-> lot'[l].avail], LotsOf(v))
                      - Total(Available, LotsOf(v))
               /\ level'[v].avail + level'[v].reserved = level[v].avail + level[v].reserved
    <3> DEFINE n == IF v = tx[p].level THEN tx[p].qty ELSE 0
               a == Total([l \in Lots |-> lot'[l].avail], LotsOf(v))
               b == Total(Available, LotsOf(v))
    <3>1. n \in Nat
      BY <2>2
    <3>2. b = a + n
      BY <1>3, AvailableMoves
    <3>3. a \in Nat /\ b \in Nat /\ level[v].avail \in Int /\ level[v].reserved \in Int
      BY <1>2
    <3>4. level'[v].avail = level[v].avail - n /\ level'[v].reserved = level[v].reserved + n
      BY <2>4
    <3> HIDE DEF n, a, b
    <3>5. /\ level'[v].avail - level[v].avail = a - b
          /\ level'[v].avail + level'[v].reserved = level[v].avail + level[v].reserved
      BY <3>1, <3>2, <3>3, <3>4
    <3> QED
      BY <3>5 DEF a, b
  <2> QED
    BY <2>1, <2>5
<1>4. ASSUME NEW p \in Procs, ReleaseCommit(p)
      PROVE  /\ \A l \in Lots :
                  lot'[l].avail + lot'[l].reserved = lot[l].avail + lot[l].reserved
             /\ \A v \in Levels :
                  /\ level'[v].avail - level[v].avail =
                       Total([l \in Lots |-> lot'[l].avail], LotsOf(v))
                         - Total(Available, LotsOf(v))
                  /\ level'[v].avail + level'[v].reserved
                       = level[v].avail + level[v].reserved
  <2> DEFINE given == Given(RowsOf(p))
  <2>1. ASSUME NEW l \in Lots
        PROVE  lot'[l].avail + lot'[l].reserved = lot[l].avail + lot[l].reserved
    <3>1. /\ lot'[l].avail = lot[l].avail + given[l]
          /\ lot'[l].reserved = lot[l].reserved - given[l]
          /\ given[l] \in Int
      BY <1>4, GivesBack, MaxIntAssumption DEF Int32
    <3> HIDE DEF given
    <3> QED
      BY <1>1, <3>1
  <2>2. ASSUME NEW v \in Levels
        PROVE  /\ level'[v].avail - level[v].avail =
                    Total([l \in Lots |-> lot'[l].avail], LotsOf(v))
                      - Total(Available, LotsOf(v))
               /\ level'[v].avail + level'[v].reserved = level[v].avail + level[v].reserved
    <3> DEFINE n == Total(given, LotsOf(v))
               a == Total([l \in Lots |-> lot'[l].avail], LotsOf(v))
               b == Total(Available, LotsOf(v))
    <3>1. n \in Nat
      BY LotsOfLevel, TotalNat
    <3>2. a = b + n
      BY <1>4, AvailableReturns
    <3>3. a \in Nat /\ b \in Nat /\ level[v].avail \in Int /\ level[v].reserved \in Int
      BY <1>2
    <3>4. level'[v].avail = level[v].avail + n /\ level'[v].reserved = level[v].reserved - n
      BY <1>4, GivesBack
    <3> HIDE DEF n, a, b
    <3>5. /\ level'[v].avail - level[v].avail = a - b
          /\ level'[v].avail + level'[v].reserved = level[v].avail + level[v].reserved
      BY <3>1, <3>2, <3>3, <3>4
    <3> QED
      BY <3>5 DEF a, b
  <2> QED
    BY <2>1, <2>2
<1>5. CASE \A p \in Procs : ~ReserveCommit(p) /\ ~ReleaseCommit(p)
  BY <1>5, RowsKept
<1> QED
  BY <1>3, <1>4, <1>5

\* A step that changes reservations moves units between the two sides of the
\* lots and of their level, and creates and destroys nothing.
THEOREM UnitsMove == Spec => ReservationsMoveUnits
<1>1. TypeOK /\ [Next]_vars =>
        [res' # res =>
           /\ \A l \in Lots :
                lot'[l].avail + lot'[l].reserved = lot[l].avail + lot[l].reserved
           /\ \A v \in Levels :
                /\ level'[v].avail - level[v].avail =
                     Total([l \in Lots |-> lot'[l].avail], LotsOf(v))
                       - Total(Available, LotsOf(v))
                /\ level'[v].avail + level'[v].reserved
                     = level[v].avail + level[v].reserved]_vars
  BY MoveStep
<1> QED
  BY <1>1, TypeCorrect, PTL DEF Spec, ReservationsMoveUnits

-----------------------------------------------------------------------------
(* Inventory implements Stock *)

\* Counts for sums of whole levels, which need not fit an INT column.
Wide == INSTANCE CountingProofs WITH MaxInt <- MaxInt * Cardinality(Lots)

LEMMA WideFinite == \A S : IsFiniteSet(S) => Wide!IsFiniteSet(S)
BY Zenon DEF IsFiniteSet, Wide!IsFiniteSet

LEMMA WideNat == MaxInt * Cardinality(Lots) \in Nat
BY LotsAssumption, MaxIntAssumption, TotalBound

LEMMA WideTotal == \A f, S : Promise!Total(f, S) = Wide!Total(f, S)
<1>1. \A S : Promise!Cardinality(S) = Wide!Cardinality(S)
  BY Zenon DEF Promise!Cardinality, Wide!Cardinality
<1>2. \A f, S : Promise!Units(f, S) = Wide!Units(f, S)
  BY DEF Promise!Units, Wide!Units
<1> QED
  BY <1>1, <1>2 DEF Promise!Total, Wide!Total

\* The rows of one grant share it, and no other row claims to be of it.
RowsGranted(rows) ==
    \A r \in Requests, l \in Lots :
        /\ rows[r][l].status = "none" => rows[r][l].grant = {}
        /\ rows[r][l].status # "none" => l \in rows[r][l].grant
        /\ \A k \in rows[r][l].grant : rows[r][k].grant = rows[r][l].grant

\* R holds rows that exist, and with a row all the rows of its grant.
Whole(rows, R) ==
    \A r \in Requests, l \in Lots : <<r, l>> \in R =>
        /\ rows[r][l].status # "none"
        /\ \A k \in rows[r][l].grant : <<r, k>> \in R

\* What a release has read are whole grants: its query sees what a reservation
\* has inserted or nothing of it.
GrantsInv ==
    /\ RowsGranted(res)
    /\ \A p \in Procs : tx[p].at = "release" => Whole(res, tx[p].done) /\ Whole(res, tx[p].rows)

LEMMA GrantsInit == Init => GrantsInv
BY DEF Init, GrantsInv, RowsGranted, NoRow, Idle

\* A step keeps the grant of every row there is.
LEMMA RowsStay ==
    ASSUME TypeOK, [Next]_vars, NEW r \in Requests, NEW l \in Lots,
           res[r][l].status # "none"
    PROVE  res'[r][l].status # "none" /\ res'[r][l].grant = res[r][l].grant
<1>1. RowStep(res[r][l], res'[r][l])
  BY HistoryStep
<1>2. res[r][l] \in ReservationRow
  BY DEF TypeOK
<1> QED
  BY <1>1, <1>2 DEF RowStep, ReservationRow

LEMMA WholeStays ==
    ASSUME TypeOK, [Next]_vars, NEW R, Whole(res, R)
    PROVE  Whole(res', R)
BY RowsStay DEF Whole

LEMMA RowsGrantedStep ==
    ASSUME TypeOK, [Next]_vars, RowsGranted(res)
    PROVE  RowsGranted(res')
<1>1. ASSUME NEW p \in Procs, ReserveCommit(p)
      PROVE  RowsGranted(res')
  <2> DEFINE T == TakenFrom(p)
             q == tx[p].req
  <2>1. ASSUME NEW r \in Requests, NEW l \in Lots
        PROVE  /\ r = q /\ l \in T => /\ res[r][l].status = "none"
                                      /\ res'[r][l].status = "reserved"
                                      /\ res'[r][l].grant = T
               /\ ~(r = q /\ l \in T) => res'[r][l] = res[r][l]
    <3>1. l \in T <=> Taken(p)[l] > 0
      BY DEF TakenFrom
    <3>2. Taken(p)[l] > 0 => res[q][l].status = "none"
      BY <1>1, RowsWritten
    <3>3. res'[r][l] = IF r = q /\ Taken(p)[l] > 0
                       THEN [status |-> "reserved", qty |-> Taken(p)[l], grant |-> T]
                       ELSE res[r][l]
      BY <1>1, RowsWritten
    <3> HIDE DEF T, q
    <3> QED
      BY <3>1, <3>2, <3>3
  <2>2. T \subseteq Lots
    BY DEF TakenFrom
  <2> HIDE DEF T, q
  <2> SUFFICES ASSUME NEW r \in Requests, NEW l \in Lots
               PROVE  /\ res'[r][l].status = "none" => res'[r][l].grant = {}
                      /\ res'[r][l].status # "none" => l \in res'[r][l].grant
                      /\ \A k \in res'[r][l].grant : res'[r][k].grant = res'[r][l].grant
    BY DEF RowsGranted
  <2>3. CASE r = q /\ l \in T
    BY <2>1, <2>2, <2>3
  <2>4. CASE ~(r = q /\ l \in T)
    <3>1. res'[r][l] = res[r][l]
      BY <2>1, <2>4
    <3>2. ASSUME NEW k \in res[r][l].grant
          PROVE  res'[r][k].grant = res[r][l].grant
      <4>1. k \in Lots /\ res[r][k].grant = res[r][l].grant
        BY DEF RowsGranted, TypeOK, ReservationRow
      <4>2. res[r][k].status # "none"
        BY <4>1 DEF RowsGranted
      <4> QED
        BY <2>1, <4>1, <4>2
    <3> QED
      BY <3>1, <3>2 DEF RowsGranted
  <2> QED
    BY <2>3, <2>4
<1>2. ASSUME NEW p \in Procs, ReleaseCommit(p)
      PROVE  RowsGranted(res')
  <2>1. ASSUME NEW r \in Requests, NEW l \in Lots
        PROVE  /\ res'[r][l].grant = res[r][l].grant
               /\ res'[r][l].status = "none" <=> res[r][l].status = "none"
    <3>1. res[r][l] \in ReservationRow
      BY DEF TypeOK
    <3>2. res'[r][l] = IF <<r, l>> \in RowsOf(p) /\ res[r][l].status = "reserved"
                       THEN [res[r][l] EXCEPT !.status = "released"] ELSE res[r][l]
      BY <1>2, ReleaseWrites
    <3> QED
      BY <3>1, <3>2 DEF ReservationRow
  <2>2. \A r \in Requests, l \in Lots : res[r][l].grant \subseteq Lots
    BY DEF TypeOK, ReservationRow
  <2> QED
    BY <2>1, <2>2 DEF RowsGranted
<1>3. CASE \A p \in Procs : ~ReserveCommit(p) /\ ~ReleaseCommit(p)
  BY <1>3, RowsKept
<1> QED
  BY <1>1, <1>2, <1>3

\* A step that leaves a session releasing something else has read all the rows
\* of a request id.
LEMMA ReleaseReads ==
    ASSUME TypeOK, [Next]_vars, NEW p \in Procs, tx'[p].at = "release", tx'[p] # tx[p]
    PROVE  \E r \in Requests :
              /\ tx'[p].rows = Rows(r)
              /\ \/ tx'[p].done = {}
                 \/ tx[p].at = "release" /\ tx'[p].done = tx[p].done \cup tx[p].rows
<1>0. tx \in [Procs -> Session]
  BY DEF TypeOK
<1>1. ASSUME NEW s \in Procs, NEW t, tx' = [tx EXCEPT ![s] = t]
      PROVE  tx'[p] = t
  <2>1. tx'[p] = IF p = s THEN t ELSE tx[p]
    BY <1>0, <1>1
  <2> QED
    BY <2>1
<1>2. ASSUME NEW s \in Procs, NEW t, tx' = [tx EXCEPT ![s] = t], t.at # "release"
      PROVE  FALSE
  BY <1>1, <1>2
<1>3. ASSUME NEW s \in Procs, NEW S \in SUBSET Requests, NEW r \in S, ReleaseStart(s, r, S)
      PROVE  tx'[p].rows = Rows(r) /\ tx'[p].done = {}
  <2> DEFINE t == [at |-> "release", left |-> S \ {r}, done |-> {}, rows |-> Rows(r)]
  <2>1. tx' = [tx EXCEPT ![s] = t]
    BY <1>3 DEF ReleaseStart, Begin
  <2>2. tx'[p] = t
    BY <1>1, <2>1
  <2> QED
    BY <2>2
<1>4. ASSUME NEW s \in Procs, NEW r \in Requests, ReleaseNext(s, r)
      PROVE  /\ tx'[p].rows = Rows(r)
             /\ tx[p].at = "release" /\ tx'[p].done = tx[p].done \cup tx[p].rows
  <2> DEFINE t == [at |-> "release", left |-> tx[s].left \ {r},
                   done |-> tx[s].done \cup tx[s].rows, rows |-> Rows(r)]
  <2>1. tx' = [tx EXCEPT ![s] = t] /\ tx[s].at = "release"
    BY <1>4 DEF ReleaseNext
  <2>2. tx'[p] = t
    BY <1>1, <2>1
  <2>3. p = s
    <3>1. p # s => tx'[p] = tx[p]
      BY <1>0, <2>1
    <3> QED
      BY <3>1
  <2> QED
    BY <2>1, <2>2, <2>3
<1>5. ASSUME NEW s \in Procs, Commit(s)
      PROVE  FALSE
  BY <1>2, <1>5 DEF Commit, Idle
<1>6. ASSUME NEW s \in Procs, NEW t, Begin(s, t), t.at # "release"
      PROVE  FALSE
  BY <1>2, <1>6 DEF Begin
<1>7. ASSUME NEW s \in Procs, Reserve(s) \/ ReleaseCommit(s) \/ Rollback(s)
      PROVE  FALSE
  <2>1. CASE ReserveQuery(s)
    BY <1>2, <2>1 DEF ReserveQuery
  <2>2. CASE ReserveCommit(s) \/ ReleaseCommit(s) \/ Rollback(s)
    <3>1. Commit(s)
      BY <2>2, Zenon DEF ReserveCommit, ReleaseCommit, Rollback
    <3> QED
      BY <1>5, <3>1
  <2>3. ASSUME NEW r \in Requests, NEW v \in Levels, NEW q \in 1..MaxQty,
               ReserveStart(s, r, v, q)
        PROVE  FALSE
    BY <1>6, <2>3 DEF ReserveStart
  <2> QED
    BY <1>7, <2>1, <2>2, <2>3 DEF Reserve
<1>8. ASSUME NEW s \in Procs, Push(s)
      PROVE  FALSE
  <2>1. CASE PushMiss(s)
    <3>1. tx[s] \in [at : {"push", "create"}, level : Levels, number : Numbers,
                     qty : Nat, lvl : LevelRow]
      BY <2>1, SessionKinds DEF PushMiss, TypeOK
    <3>2. tx' = [tx EXCEPT ![s] = [tx[s] EXCEPT !.at = "create"]]
      BY <2>1 DEF PushMiss
    <3>3. [tx[s] EXCEPT !.at = "create"].at = "create"
      BY <3>1
    <3> QED
      BY <1>2, <3>2, <3>3
  <2>2. CASE PushTopUp(s) \/ PushCreate(s)
    BY <1>5, <2>2 DEF PushTopUp, PushCreate
  <2>3. ASSUME NEW v \in Levels, NEW n \in Numbers, NEW q \in 1..MaxPush, PushStart(s, v, n, q)
        PROVE  FALSE
    BY <1>6, <2>3 DEF PushStart
  <2> QED
    BY <1>8, <2>1, <2>2, <2>3 DEF Push
<1>9. ASSUME NEW s \in Procs, Quarantine(s)
      PROVE  FALSE
  <2>1. CASE QuarantineLock(s)
    BY <1>2, <2>1 DEF QuarantineLock
  <2>2. CASE QuarantineCommit(s)
    BY <1>5, <2>2 DEF QuarantineCommit
  <2>3. ASSUME NEW l \in Lots, QuarantineStart(s, l)
        PROVE  FALSE
    BY <1>6, <2>3 DEF QuarantineStart
  <2> QED
    BY <1>9, <2>1, <2>2, <2>3 DEF Quarantine
<1>10. ASSUME NEW s \in Procs, ReleaseLot(s)
       PROVE  FALSE
  <2>1. CASE ReleaseLotLock(s)
    BY <1>2, <2>1 DEF ReleaseLotLock
  <2>2. CASE ReleaseLotCommit(s)
    BY <1>5, <2>2 DEF ReleaseLotCommit
  <2>3. ASSUME NEW l \in Lots, ReleaseLotStart(s, l)
        PROVE  FALSE
    BY <1>6, <2>3 DEF ReleaseLotStart
  <2> QED
    BY <1>10, <2>1, <2>2, <2>3 DEF ReleaseLot
<1>11. tx' # tx
  OBVIOUS
<1> QED
  BY <1>3, <1>4, <1>7, <1>8, <1>9, <1>10, <1>11, ClerksAssumption
     DEF Next, Release, AdjustStock, vars

LEMMA GrantsStep == TypeOK /\ GrantsInv /\ [Next]_vars => GrantsInv'
<1> SUFFICES ASSUME TypeOK, GrantsInv, [Next]_vars
             PROVE  GrantsInv'
  OBVIOUS
<1>1. RowsGranted(res')
  BY RowsGrantedStep DEF GrantsInv
<1>2. ASSUME NEW p \in Procs, tx'[p].at = "release"
      PROVE  Whole(res', tx'[p].done) /\ Whole(res', tx'[p].rows)
  <2>1. CASE tx'[p] = tx[p]
    BY <1>2, <2>1, WholeStays DEF GrantsInv
  <2>2. CASE tx'[p] # tx[p]
    <3>1. PICK r \in Requests :
            /\ tx'[p].rows = Rows(r)
            /\ \/ tx'[p].done = {}
               \/ tx[p].at = "release" /\ tx'[p].done = tx[p].done \cup tx[p].rows
      BY <1>2, <2>2, ReleaseReads
    <3>2. Whole(res, Rows(r))
      <4> SUFFICES ASSUME NEW l \in Lots, <<r, l>> \in Rows(r)
                   PROVE  /\ res[r][l].status # "none"
                          /\ \A k \in res[r][l].grant : <<r, k>> \in Rows(r)
        BY DEF Whole, Rows
      <4>1. res[r][l].status # "none"
        BY DEF Rows
      <4>2. ASSUME NEW k \in res[r][l].grant
            PROVE  k \in Lots /\ res[r][k].status # "none"
        <5>1. k \in Lots /\ res[r][k].grant = res[r][l].grant
          BY DEF GrantsInv, RowsGranted, TypeOK, ReservationRow
        <5> QED
          BY <5>1 DEF GrantsInv, RowsGranted
      <4> QED
        BY <4>1, <4>2 DEF Rows
    <3>3. Whole(res, tx'[p].done)
      BY <3>1 DEF Whole, GrantsInv
    <3> QED
      BY <3>1, <3>2, <3>3, WholeStays
  <2> QED
    BY <2>1, <2>2
<1> QED
  BY <1>1, <1>2 DEF GrantsInv

\* What grant g holds of each lot, and of level v: what the mapping of Promise
\* says, with a name.
OfGrant(g) == [l \in Lots |-> IF GrantOf(g[1], l) = g THEN HeldOn(l)[g[1]] ELSE 0]
HeldOf(g, v) == Total(OfGrant(g), LotsOf(v))

\* The requests whose row of lot l is of one of the grants in T.
HoldersOf(T, l) == {r \in Requests : GrantOf(r, l) \in T}

LEMMA GrantsFinite == IsFiniteSet(Grants)
<1>1. IsFiniteSet(SUBSET Lots)
  BY LotsAssumption, FS_SUBSET
<1>2. IsFiniteSet((SUBSET Lots) \ {{}})
  BY <1>1, FS_Subset
<1> QED
  BY <1>2, RequestsAssumption, FS_Product DEF Grants

LEMMA OfGrantIsInt ==
    ASSUME TypeOK, NEW g \in Grants, NEW l \in Lots
    PROVE  OfGrant(g)[l] \in Int32
<1>1. HeldOn(l)[g[1]] \in Int32
  BY HeldIsInt DEF Grants
<1> QED
  BY <1>1, MaxIntAssumption DEF OfGrant, Int32

\* One grant more adds to what is held on a lot what that grant holds on it.
LEMMA OneGrantMore ==
    ASSUME TypeOK, NEW T \in SUBSET Grants, NEW g \in Grants, g \notin T, NEW l \in Lots
    PROVE  Total(HeldOn(l), HoldersOf(T \cup {g}, l))
             = Total(HeldOn(l), HoldersOf(T, l)) + OfGrant(g)[l]
<1>1. g[1] \in Requests
  BY DEF Grants
<1>2. \A r \in Requests : GrantOf(r, l)[1] = r
  BY DEF GrantOf
<1>3. HoldersOf(T, l) \subseteq Requests /\ IsFiniteSet(HoldersOf(T, l))
  <2>1. HoldersOf(T, l) \subseteq Requests
    BY DEF HoldersOf
  <2> QED
    BY <2>1, RequestsAssumption, FS_Subset
<1>4. Total(HeldOn(l), HoldersOf(T, l)) \in Nat
  BY <1>3, TotalNat
<1>5. CASE GrantOf(g[1], l) = g
  <2>1. HoldersOf(T \cup {g}, l) = HoldersOf(T, l) \cup {g[1]}
    BY <1>1, <1>2, <1>5 DEF HoldersOf
  <2>2. g[1] \notin HoldersOf(T, l)
    BY <1>5 DEF HoldersOf
  <2>3. HeldOn(l)[g[1]] \in Int32
    BY <1>1, HeldIsInt
  <2>4. OfGrant(g)[l] = HeldOn(l)[g[1]]
    BY <1>5 DEF OfGrant
  <2>5. Total(HeldOn(l), HoldersOf(T, l) \cup {g[1]})
          = Total(HeldOn(l), HoldersOf(T, l)) + HeldOn(l)[g[1]]
    BY <1>3, <2>2, <2>3, TotalInsert
  <2> QED
    BY <2>1, <2>4, <2>5
<1>6. CASE GrantOf(g[1], l) # g
  <2>1. HoldersOf(T \cup {g}, l) = HoldersOf(T, l)
    BY <1>2, <1>6 DEF HoldersOf
  <2>2. OfGrant(g)[l] = 0
    BY <1>6 DEF OfGrant
  <2> QED
    BY <1>4, <2>1, <2>2
<1> QED
  BY <1>5, <1>6

\* A grant holds at most what the level's lots can hold.
LEMMA HeldOfFits ==
    ASSUME NEW g, NEW v \in Levels
    PROVE  HeldOf(g, v) \in Wide!Int32
<1>1. LotsOf(v) \subseteq Lots /\ IsFiniteSet(LotsOf(v))
  BY LotsOfLevel
<1>2. HeldOf(g, v) \in Nat
  BY <1>1, TotalNat DEF HeldOf
<1>3. HeldOf(g, v) <= MaxInt * Cardinality(LotsOf(v))
  BY <1>1, TotalBound DEF HeldOf
<1>4. MaxInt * Cardinality(LotsOf(v)) <= MaxInt * Cardinality(Lots)
  <2>1. /\ Cardinality(LotsOf(v)) \in Nat /\ Cardinality(Lots) \in Nat
        /\ Cardinality(LotsOf(v)) <= Cardinality(Lots)
    BY <1>1, LotsAssumption, FS_Subset, FS_CardinalityType
  <2> QED
    BY <2>1, MaxIntAssumption
<1>5. MaxInt * Cardinality(LotsOf(v)) \in Nat
  BY <1>1, TotalBound
<1>6. HeldOf(g, v) \in 0..(MaxInt * Cardinality(Lots))
  BY <1>2, <1>3, <1>4, <1>5, WideNat
<1> QED
  BY <1>6 DEF Wide!Int32

\* What grants hold of a level adds up lot by lot as well as grant by grant.
LEMMA HeldBothWays ==
    ASSUME TypeOK, NEW G \in SUBSET Grants, NEW v \in Levels,
           \A l \in Lots : Total(HeldOn(l), HoldersOf(G, l)) \in Int32
    PROVE  Total([l \in Lots |-> Total(HeldOn(l), HoldersOf(G, l))], LotsOf(v))
             = Promise!Total([g \in Grants |-> HeldOf(g, v)], G)
<1> DEFINE by(T) == [l \in Lots |-> Total(HeldOn(l), HoldersOf(T, l))]
           of == [g \in Grants |-> HeldOf(g, v)]
           F == {T \in SUBSET G : Total(by(T), LotsOf(v)) = Wide!Total(of, T)}
<1>1. IsFiniteSet(G) /\ LotsOf(v) \subseteq Lots /\ IsFiniteSet(LotsOf(v))
  BY GrantsFinite, FS_Subset, LotsOfLevel
<1>2. {} \in F
  <2>1. \A l \in LotsOf(v) : by({})[l] = 0
    BY <1>1, TotalZero DEF HoldersOf
  <2>2. Total(by({}), LotsOf(v)) = 0
    <3> HIDE DEF by
    <3> QED
      BY <2>1, TotalZero
  <2>3. Wide!Total(of, {}) = 0
    <3> HIDE DEF of
    <3> QED
      BY WideNat, Wide!TotalZero
  <2> QED
    BY <2>2, <2>3
<1>3. ASSUME NEW T \in SUBSET G, NEW g \in G, T \in F, g \notin T
      PROVE  T \cup {g} \in F
  <2>1. IsFiniteSet(T) /\ T \cup {g} \subseteq G /\ T \cup {g} \subseteq Grants
    BY <1>1, FS_Subset
  <2>2. ASSUME NEW l \in LotsOf(v)
        PROVE  /\ by(T)[l] \in Int32 /\ OfGrant(g)[l] \in Int32
               /\ by(T \cup {g})[l] \in Int32
               /\ by(T \cup {g})[l] = by(T)[l] + OfGrant(g)[l]
    <3>1. l \in Lots
      BY <1>1
    <3>2. OfGrant(g)[l] \in Int32
      BY <3>1, OfGrantIsInt
    <3>3. Total(HeldOn(l), HoldersOf(T \cup {g}, l))
            = Total(HeldOn(l), HoldersOf(T, l)) + OfGrant(g)[l]
      BY <1>3, <3>1, OneGrantMore
    <3>4. ASSUME NEW U \in SUBSET G
          PROVE  /\ Total(HeldOn(l), HoldersOf(U, l)) \in Nat
                 /\ Total(HeldOn(l), HoldersOf(U, l)) <= Total(HeldOn(l), HoldersOf(G, l))
      <4>1. /\ HoldersOf(U, l) \subseteq HoldersOf(G, l)
            /\ HoldersOf(G, l) \subseteq Requests
        BY DEF HoldersOf
      <4>2. /\ IsFiniteSet(HoldersOf(G, l)) /\ IsFiniteSet(HoldersOf(U, l))
            /\ IsFiniteSet(HoldersOf(G, l) \ HoldersOf(U, l))
        BY <4>1, RequestsAssumption, FS_Subset
      <4>3. Total(HeldOn(l), HoldersOf(G, l))
              = Total(HeldOn(l), HoldersOf(U, l))
                + Total(HeldOn(l), HoldersOf(G, l) \ HoldersOf(U, l))
        BY <4>1, <4>2, TotalPart
      <4>4. /\ Total(HeldOn(l), HoldersOf(U, l)) \in Nat
            /\ Total(HeldOn(l), HoldersOf(G, l) \ HoldersOf(U, l)) \in Nat
        BY <4>2, TotalNat
      <4> QED
        BY <4>3, <4>4
    <3>5. Total(HeldOn(l), HoldersOf(G, l)) \in Int32
      BY <3>1
    <3>6. /\ Total(HeldOn(l), HoldersOf(T, l)) \in Int32
          /\ Total(HeldOn(l), HoldersOf(T \cup {g}, l)) \in Int32
      BY <2>1, <3>4, <3>5, MaxIntAssumption DEF Int32
    <3> QED
      BY <3>1, <3>2, <3>3, <3>6
  <2>3. Total(by(T \cup {g}), LotsOf(v)) = Total(by(T), LotsOf(v)) + HeldOf(g, v)
    <3> HIDE DEF by
    <3>1. Total(by(T \cup {g}), LotsOf(v))
            = Total(by(T), LotsOf(v)) + Total(OfGrant(g), LotsOf(v))
      BY <1>1, <2>2, TotalAdd
    <3> QED
      BY <3>1 DEF HeldOf
  <2>4. of[g] = HeldOf(g, v) /\ of[g] \in Wide!Int32
    BY HeldOfFits
  <2>5. Wide!Total(of, T \cup {g}) = Wide!Total(of, T) + of[g]
    <3> HIDE DEF of
    <3> QED
      BY <1>3, <2>1, <2>4, WideNat, WideFinite, Wide!TotalInsert
  <2>6. Total(by(T), LotsOf(v)) = Wide!Total(of, T)
    BY <1>3
  <2>7. Total(by(T \cup {g}), LotsOf(v)) = Wide!Total(of, T \cup {g})
    <3> HIDE DEF by, of
    <3> QED
      BY <2>3, <2>4, <2>5, <2>6
  <2> QED
    BY <2>1, <2>7
<1>4. G \in F
  <2> HIDE DEF F
  <2> QED
    BY <1>1, <1>2, <1>3, SubsetInduction
<1> QED
  BY <1>4, WideTotal

\* The mapping of Promise: what is available of a level, what each grant holds
\* of it, and which grants there are.
StockOf == [v \in Levels |-> Total(Available, LotsOf(v))]
HoldingsOf == [g \in Grants |-> [v \in Levels |-> HeldOf(g, v)]]
UsedOf == {g \in Grants : \E l \in Lots : GrantOf(g[1], l) = g}

\* A reservation takes from some lot.
LEMMA TakesFromSome ==
    ASSUME TypeOK, NEW p \in Procs, ReserveCommit(p), tx[p].qty > 0
    PROVE  <<tx[p].req, TakenFrom(p)>> \in Grants
<1>1. tx[p].req \in Requests /\ TakenFrom(p) \subseteq Lots
  BY TakesWhatWasAsked DEF TakenFrom
<1>2. Total(Taken(p), Lots) = tx[p].qty
  BY TakesWhatWasAsked DEF Taken
<1>3. ~(\A l \in Lots : Taken(p)[l] = 0)
  BY <1>2, TotalZero
<1>4. \A l \in Lots : Taken(p)[l] \in Nat
  BY RowsWritten
<1>5. TakenFrom(p) # {}
  BY <1>3, <1>4 DEF TakenFrom
<1> QED
  BY <1>1, <1>5 DEF Grants

\* A reservation's rows are a new grant of the lots it takes from.
LEMMA NewGrant ==
    ASSUME TypeOK, GrantsInv, NEW p \in Procs, ReserveCommit(p),
           NEW g \in Grants, g = <<tx[p].req, TakenFrom(p)>>, NEW l \in Lots
    PROVE  /\ GrantOf(g[1], l) # g
           /\ OfGrant(g)[l] = 0
           /\ OfGrant(g)'[l] = Taken(p)[l]
           /\ GrantOf(g[1], l)' = g <=> l \in TakenFrom(p)
           /\ \A x \in Grants \ {g} :
                /\ GrantOf(x[1], l)' = x <=> GrantOf(x[1], l) = x
                /\ OfGrant(x)'[l] = OfGrant(x)[l]
<1> DEFINE q == g[1]
           T == g[2]
<1>1. /\ q \in Requests /\ T \subseteq Lots /\ T # {} /\ g = <<q, T>>
      /\ q = tx[p].req /\ T = TakenFrom(p)
  BY DEF Grants
<1> HIDE DEF q, T
<1>2. ASSUME NEW k \in Lots
      PROVE  /\ Taken(p)[k] \in Nat
             /\ k \in T <=> Taken(p)[k] > 0
             /\ k \in T => res[q][k].status = "none"
             /\ \A r \in Requests :
                  res'[r][k] = IF r = q /\ k \in T
                               THEN [status |-> "reserved", qty |-> Taken(p)[k], grant |-> T]
                               ELSE res[r][k]
  <2>1. k \in T <=> Taken(p)[k] > 0
    BY <1>1 DEF TakenFrom
  <2>2. Taken(p)[k] \in Nat /\ (Taken(p)[k] > 0 => res[q][k].status = "none")
    BY <1>1, RowsWritten
  <2>3. \A r \in Requests :
          res'[r][k] = IF r = q /\ Taken(p)[k] > 0
                       THEN [status |-> "reserved", qty |-> Taken(p)[k], grant |-> T]
                       ELSE res[r][k]
    BY <1>1, RowsWritten
  <2> QED
    BY <2>1, <2>2, <2>3
<1>3. res[q][l].grant # T
  <2> SUFFICES ASSUME res[q][l].grant = T PROVE FALSE
    OBVIOUS
  <2>1. PICK k \in T : k \in Lots
    BY <1>1
  <2>2. res[q][k].grant = T
    BY <1>1, <2>1 DEF GrantsInv, RowsGranted
  <2>3. res[q][k].status = "none"
    BY <1>2, <2>1
  <2> QED
    BY <1>1, <2>1, <2>2, <2>3 DEF GrantsInv, RowsGranted
<1>4. GrantOf(q, l) # g
  BY <1>1, <1>3 DEF GrantOf
<1>5. OfGrant(g)[l] = 0
  BY <1>1, <1>4 DEF OfGrant, q
<1>6. OfGrant(g)'[l] = (IF GrantOf(q, l)' = g THEN HeldOn(l)'[q] ELSE 0)
  BY DEF OfGrant, q
<1>7. OfGrant(g)'[l] = Taken(p)[l] /\ (GrantOf(q, l)' = g <=> l \in T)
  <2>1. CASE l \in T
    <3>1. res'[q][l] = [status |-> "reserved", qty |-> Taken(p)[l], grant |-> T]
      BY <1>1, <1>2, <2>1
    <3>2. GrantOf(q, l)' = g
      BY <1>1, <3>1 DEF GrantOf
    <3>3. HeldOn(l)'[q] = Taken(p)[l]
      BY <1>1, <3>1 DEF HeldOn
    <3> QED
      BY <1>6, <2>1, <3>2, <3>3
  <2>2. CASE l \notin T
    <3>1. res'[q][l] = res[q][l]
      BY <1>1, <1>2, <2>2
    <3>2. Taken(p)[l] = 0
      <4>1. Taken(p)[l] \in Nat /\ ~(Taken(p)[l] > 0)
        BY <1>2, <2>2
      <4> QED
        BY <4>1
    <3>3. GrantOf(q, l)' # g
      BY <1>1, <1>3, <3>1 DEF GrantOf
    <3> QED
      BY <1>6, <2>2, <3>2, <3>3
  <2> QED
    BY <2>1, <2>2
<1>8. ASSUME NEW x \in Grants \ {g}
      PROVE  /\ GrantOf(x[1], l)' = x <=> GrantOf(x[1], l) = x
             /\ OfGrant(x)'[l] = OfGrant(x)[l]
  <2>1. x[1] \in Requests /\ x = <<x[1], x[2]>> /\ x[2] # {}
    BY DEF Grants
  <2>2. CASE x[1] = q /\ l \in T
    <3>1. res'[q][l].grant = T /\ res[q][l].status = "none"
      <4>1. res'[q][l] = [status |-> "reserved", qty |-> Taken(p)[l], grant |-> T]
        BY <1>1, <1>2, <2>2
      <4>2. res[q][l].status = "none"
        BY <1>2, <2>2
      <4> QED
        BY <4>1, <4>2
    <3>2. GrantOf(x[1], l)' # x
      BY <1>1, <2>2, <3>1 DEF GrantOf
    <3>3. res[q][l].grant = {}
      BY <1>1, <3>1 DEF GrantsInv, RowsGranted
    <3>4. GrantOf(x[1], l) # x
      BY <2>1, <2>2, <3>3 DEF GrantOf
    <3> QED
      BY <3>2, <3>4 DEF OfGrant
  <2>3. CASE ~(x[1] = q /\ l \in T)
    <3>1. res'[x[1]][l] = res[x[1]][l]
      BY <1>2, <2>1, <2>3
    <3>2. GrantOf(x[1], l)' = GrantOf(x[1], l)
      BY <3>1 DEF GrantOf
    <3>3. HeldOn(l)'[x[1]] = HeldOn(l)[x[1]]
      BY <2>1, <3>1 DEF HeldOn
    <3> QED
      BY <3>2, <3>3 DEF OfGrant
  <2> QED
    BY <2>2, <2>3
<1> QED
  BY <1>1, <1>4, <1>5, <1>7, <1>8 DEF q

LEMMA PromiseHold ==
    ASSUME TypeOK, GrantsInv, NEW p \in Procs, ReserveCommit(p), tx[p].qty > 0,
           NEW g \in Grants, g = <<tx[p].req, TakenFrom(p)>>,
           NEW v \in Levels, v = tx[p].level, NEW n, n = tx[p].qty
    PROVE  /\ n \in 1..(MaxInt * Cardinality(Lots))
           /\ g \notin UsedOf
           /\ StockOf[v] >= n
           /\ StockOf' = [StockOf EXCEPT ![v] = @ - n]
           /\ HoldingsOf' = [HoldingsOf EXCEPT ![g][v] = @ + n]
           /\ UsedOf' = UsedOf \cup {g}
<1>1. /\ n \in Nat /\ n > 0
      /\ n <= MaxInt * Cardinality(Lots)
      /\ n <= Total(Available, LotsOf(v))
  BY TakesWhatWasAsked
<1>2. /\ Total(Taken(p), LotsOf(v)) = n
      /\ \A w \in Levels \ {v} : \A l \in LotsOf(w) : Taken(p)[l] = 0
  BY TakesWhatWasAsked DEF Taken
<1>3. ASSUME NEW w \in Levels
      PROVE  Total([l \in Lots |-> lot'[l].avail], LotsOf(w))
               = IF w = v THEN Total(Available, LotsOf(w)) - n
                 ELSE Total(Available, LotsOf(w))
  <2> DEFINE a == Total([l \in Lots |-> lot'[l].avail], LotsOf(w))
             b == Total(Available, LotsOf(w))
  <2>1. b = a + (IF w = v THEN n ELSE 0)
    BY AvailableMoves
  <2>2. a \in Nat /\ b \in Nat
    BY LotsOfLevel, TotalNat
  <2> HIDE DEF a, b
  <2>3. a = IF w = v THEN b - n ELSE b
    BY <1>1, <2>1, <2>2
  <2> QED
    BY <2>3 DEF a, b
<1>4. StockOf' = [StockOf EXCEPT ![v] = @ - n]
  <2>1. StockOf' = [w \in Levels |-> Total([l \in Lots |-> lot'[l].avail], LotsOf(w))]
    BY DEF StockOf, Available, LotsOf
  <2>2. StockOf = [w \in Levels |-> Total(Available, LotsOf(w))]
    BY DEF StockOf
  <2> QED
    BY <1>1, <1>3, <2>1, <2>2
<1>5. ASSUME NEW l \in Lots
      PROVE  /\ GrantOf(g[1], l) # g
             /\ OfGrant(g)[l] = 0
             /\ OfGrant(g)'[l] = Taken(p)[l]
             /\ GrantOf(g[1], l)' = g <=> l \in TakenFrom(p)
             /\ \A x \in Grants \ {g} :
                  /\ GrantOf(x[1], l)' = x <=> GrantOf(x[1], l) = x
                  /\ OfGrant(x)'[l] = OfGrant(x)[l]
  BY NewGrant
<1>6. g \notin UsedOf
  BY <1>5 DEF UsedOf
<1>7. ASSUME NEW x \in Grants, NEW w \in Levels
      PROVE  HeldOf(x, w)' = IF x = g /\ w = v THEN HeldOf(x, w) + n ELSE HeldOf(x, w)
  <2>1. LotsOf(w) \subseteq Lots
    BY LotsOfLevel
  <2>2. HeldOf(x, w)' = Total(OfGrant(x)', LotsOf(w)) /\ HeldOf(x, w) = Total(OfGrant(x), LotsOf(w))
    BY DEF HeldOf, LotsOf
  <2>3. CASE x = g
    <3>1. \A l \in LotsOf(w) : OfGrant(g)[l] = 0 /\ OfGrant(g)'[l] = Taken(p)[l]
      BY <1>5, <2>1
    <3>2. Total(OfGrant(g), LotsOf(w)) = 0
      BY <3>1, TotalZero
    <3>3. Total(OfGrant(g)', LotsOf(w)) = Total(Taken(p), LotsOf(w))
      BY <3>1, TotalSame
    <3>4. w # v => Total(Taken(p), LotsOf(w)) = 0
      BY <1>2, TotalZero
    <3> QED
      BY <1>1, <1>2, <2>2, <2>3, <3>2, <3>3, <3>4
  <2>4. CASE x # g
    <3>1. \A l \in LotsOf(w) : OfGrant(x)'[l] = OfGrant(x)[l]
      BY <1>5, <2>1, <2>4
    <3>2. Total(OfGrant(x)', LotsOf(w)) = Total(OfGrant(x), LotsOf(w))
      BY <3>1, TotalSame
    <3> QED
      BY <2>2, <2>4, <3>2
  <2> QED
    BY <2>3, <2>4
<1>8. HoldingsOf' = [HoldingsOf EXCEPT ![g][v] = @ + n]
  <2>1. HoldingsOf' = [x \in Grants |-> [w \in Levels |-> HeldOf(x, w)']]
    BY DEF HoldingsOf
  <2>2. HoldingsOf = [x \in Grants |-> [w \in Levels |-> HeldOf(x, w)]]
    BY DEF HoldingsOf
  <2>3. [HoldingsOf EXCEPT ![g][v] = @ + n]
          = [x \in Grants |-> [w \in Levels |->
               IF x = g /\ w = v THEN HeldOf(x, w) + n ELSE HeldOf(x, w)]]
    BY <2>2
  <2>4. \A x \in Grants, w \in Levels :
           HeldOf(x, w)' = IF x = g /\ w = v THEN HeldOf(x, w) + n ELSE HeldOf(x, w)
    BY <1>7
  <2> QED
    BY <2>1, <2>3, <2>4
<1>9. UsedOf' = UsedOf \cup {g}
  <2>1. UsedOf' = {x \in Grants : \E l \in Lots : GrantOf(x[1], l)' = x}
    BY DEF UsedOf
  <2>2. \A x \in Grants \ {g} : (\E l \in Lots : GrantOf(x[1], l)' = x)
                                  <=> (\E l \in Lots : GrantOf(x[1], l) = x)
    BY <1>5
  <2>3. \E l \in Lots : GrantOf(g[1], l)' = g
    <3>1. PICK l \in TakenFrom(p) : l \in Lots
      BY DEF Grants
    <3> QED
      BY <1>5, <3>1
  <2> QED
    BY <2>1, <2>2, <2>3 DEF UsedOf
<1>10. n \in 1..(MaxInt * Cardinality(Lots)) /\ StockOf[v] >= n
  <2>1. StockOf[v] = Total(Available, LotsOf(v))
    BY DEF StockOf
  <2>2. Total(Available, LotsOf(v)) \in Nat
    BY LotsOfLevel, TotalNat
  <2> QED
    BY <1>1, <2>1, <2>2, WideNat
<1> QED
  BY <1>4, <1>6, <1>8, <1>9, <1>10

\* The grants of the rows that the release of session p gives back.
GrantsOf(p) ==
    {g \in Grants : \E l \in Lots : <<g[1], l>> \in RowsOf(p) /\ GrantOf(g[1], l) = g}

\* A release gives back all the rows of these grants and no others.
LEMMA WholeGrants ==
    ASSUME TypeOK, GrantsInv, NEW p \in Procs, tx[p].at = "release", NEW l \in Lots
    PROVE  /\ HoldersOf(GrantsOf(p), l) = {r \in Requests : <<r, l>> \in RowsOf(p)}
           /\ \A g \in Grants :
                GrantOf(g[1], l) = g => (g \in GrantsOf(p) <=> <<g[1], l>> \in RowsOf(p))
<1>1. Whole(res, RowsOf(p))
  BY DEF GrantsInv, Whole, RowsOf
<1>2. ASSUME NEW r \in Requests, NEW k \in Lots, <<r, k>> \in RowsOf(p)
      PROVE  GrantOf(r, k) \in GrantsOf(p)
  <2>1. res[r][k].status # "none"
    BY <1>1, <1>2 DEF Whole
  <2>2. k \in res[r][k].grant /\ res[r][k].grant \subseteq Lots
    BY <2>1 DEF GrantsInv, RowsGranted, TypeOK, ReservationRow
  <2> QED
    BY <1>2, <2>2 DEF GrantsOf, GrantOf, Grants
<1>3. ASSUME NEW g \in GrantsOf(p), GrantOf(g[1], l) = g
      PROVE  <<g[1], l>> \in RowsOf(p)
  <2>1. g[1] \in Requests /\ g[2] # {}
    BY DEF GrantsOf, Grants
  <2>2. PICK k \in Lots : <<g[1], k>> \in RowsOf(p) /\ GrantOf(g[1], k) = g
    BY DEF GrantsOf
  <2>3. res[g[1]][l].grant = g[2] /\ res[g[1]][k].grant = g[2]
    BY <1>3, <2>2 DEF GrantOf
  <2>4. res[g[1]][l].status # "none"
    BY <2>1, <2>3 DEF GrantsInv, RowsGranted
  <2>5. l \in res[g[1]][k].grant
    BY <2>1, <2>3, <2>4 DEF GrantsInv, RowsGranted
  <2> QED
    BY <1>1, <2>1, <2>2, <2>5 DEF Whole
<1>4. \A r \in Requests : GrantOf(r, l)[1] = r
  BY DEF GrantOf
<1>5. \A r \in Requests : GrantOf(r, l) \in GrantsOf(p) <=> <<r, l>> \in RowsOf(p)
  BY <1>2, <1>3, <1>4
<1>6. \A g \in Grants :
        GrantOf(g[1], l) = g => (g \in GrantsOf(p) <=> <<g[1], l>> \in RowsOf(p))
  <2>1. \A g \in Grants : g[1] \in Requests
    BY DEF Grants
  <2> QED
    BY <1>5, <2>1
<1> QED
  BY <1>5, <1>6 DEF HoldersOf

LEMMA PromiseGiveBack ==
    ASSUME TypeOK, GrantsInv, NEW p \in Procs, ReleaseCommit(p), NEW G, G = GrantsOf(p)
    PROVE  /\ G \in SUBSET UsedOf
           /\ StockOf' = [v \in Levels |-> StockOf[v]
                            + Promise!Total([g \in Grants |-> HoldingsOf[g][v]], G)]
           /\ HoldingsOf' = [g \in Grants |-> IF g \in G THEN [v \in Levels |-> 0]
                                              ELSE HoldingsOf[g]]
           /\ UsedOf' = UsedOf
<1>1. G \in SUBSET Grants /\ G \in SUBSET UsedOf
  BY DEF GrantsOf, UsedOf
<1>2. ASSUME NEW l \in Lots
      PROVE  /\ HoldersOf(G, l) = {r \in Requests : <<r, l>> \in RowsOf(p)}
             /\ \A g \in Grants :
                  GrantOf(g[1], l) = g => (g \in G <=> <<g[1], l>> \in RowsOf(p))
  BY WholeGrants DEF ReleaseCommit
<1>3. ASSUME NEW l \in Lots
      PROVE  /\ Given(RowsOf(p))[l] = Total(HeldOn(l), HoldersOf(G, l))
             /\ Given(RowsOf(p))[l] \in Int32
  <2>1. Given(RowsOf(p))[l] = Total(HeldOn(l), {r \in Requests : <<r, l>> \in RowsOf(p)})
    BY GivenTotal
  <2>2. Given(RowsOf(p))[l] \in Int32
    BY GivesBack
  <2> QED
    BY <1>2, <2>1, <2>2
<1>4. Given(RowsOf(p)) = [l \in Lots |-> Total(HeldOn(l), HoldersOf(G, l))]
  <2>1. Given(RowsOf(p)) = [l \in Lots |-> Given(RowsOf(p))[l]]
    BY DEF Given
  <2> QED
    BY <1>3, <2>1
<1>5. ASSUME NEW v \in Levels
      PROVE  Total([l \in Lots |-> lot'[l].avail], LotsOf(v))
               = StockOf[v] + Promise!Total([g \in Grants |-> HoldingsOf[g][v]], G)
  <2>1. [g \in Grants |-> HoldingsOf[g][v]] = [g \in Grants |-> HeldOf(g, v)]
    BY DEF HoldingsOf
  <2>2. Total([l \in Lots |-> Total(HeldOn(l), HoldersOf(G, l))], LotsOf(v))
          = Promise!Total([g \in Grants |-> HeldOf(g, v)], G)
    BY <1>1, <1>3, HeldBothWays
  <2>3. StockOf[v] = Total(Available, LotsOf(v))
    BY DEF StockOf
  <2>4. Total([l \in Lots |-> lot'[l].avail], LotsOf(v))
          = Total(Available, LotsOf(v)) + Total(Given(RowsOf(p)), LotsOf(v))
    BY AvailableReturns
  <2> QED
    BY <1>4, <2>1, <2>2, <2>3, <2>4
<1>6. StockOf' = [v \in Levels |-> StockOf[v]
                   + Promise!Total([g \in Grants |-> HoldingsOf[g][v]], G)]
  <2>1. StockOf' = [v \in Levels |-> Total([l \in Lots |-> lot'[l].avail], LotsOf(v))]
    BY DEF StockOf, Available, LotsOf
  <2> QED
    BY <1>5, <2>1
<1>7. ASSUME NEW g \in Grants, NEW l \in Lots
      PROVE  /\ GrantOf(g[1], l)' = GrantOf(g[1], l)
             /\ OfGrant(g)'[l] = IF g \in G THEN 0 ELSE OfGrant(g)[l]
  <2> DEFINE q == g[1]
  <2>1. q \in Requests
    BY DEF Grants
  <2>2. res[q][l] \in ReservationRow
    BY <2>1 DEF TypeOK
  <2>3. res'[q][l] = IF <<q, l>> \in RowsOf(p) /\ res[q][l].status = "reserved"
                     THEN [res[q][l] EXCEPT !.status = "released"] ELSE res[q][l]
    BY <2>1, ReleaseWrites
  <2> HIDE DEF q
  <2>4. res'[q][l].grant = res[q][l].grant
    BY <2>2, <2>3 DEF ReservationRow
  <2>5. GrantOf(g[1], l)' = GrantOf(g[1], l)
    BY <2>4 DEF GrantOf, q
  <2>6. <<q, l>> \in RowsOf(p) => HeldOn(l)'[q] = 0
    <3>1. <<q, l>> \in RowsOf(p) => res'[q][l].status # "reserved"
      BY <2>2, <2>3 DEF ReservationRow
    <3> QED
      BY <2>1, <3>1 DEF HeldOn
  <2>7. <<q, l>> \notin RowsOf(p) => HeldOn(l)'[q] = HeldOn(l)[q]
    BY <2>1, <2>3 DEF HeldOn
  <2>8. OfGrant(g)'[l] = IF GrantOf(g[1], l)' = g THEN HeldOn(l)'[q] ELSE 0
    BY DEF OfGrant, q
  <2>9. OfGrant(g)[l] = IF GrantOf(g[1], l) = g THEN HeldOn(l)[q] ELSE 0
    BY DEF OfGrant, q
  <2>10. GrantOf(g[1], l) = g => (g \in G <=> <<q, l>> \in RowsOf(p))
    BY <1>2 DEF q
  <2> QED
    BY <2>5, <2>6, <2>7, <2>8, <2>9, <2>10
<1>8. ASSUME NEW g \in Grants, NEW v \in Levels
      PROVE  HeldOf(g, v)' = IF g \in G THEN 0 ELSE HeldOf(g, v)
  <2>1. LotsOf(v) \subseteq Lots
    BY LotsOfLevel
  <2>2. HeldOf(g, v)' = Total(OfGrant(g)', LotsOf(v)) /\ HeldOf(g, v) = Total(OfGrant(g), LotsOf(v))
    BY DEF HeldOf, LotsOf
  <2>3. CASE g \in G
    <3>1. \A l \in LotsOf(v) : OfGrant(g)'[l] = 0
      BY <1>7, <2>1, <2>3
    <3>2. Total(OfGrant(g)', LotsOf(v)) = 0
      BY <3>1, TotalZero
    <3> QED
      BY <2>2, <2>3, <3>2
  <2>4. CASE g \notin G
    <3>1. \A l \in LotsOf(v) : OfGrant(g)'[l] = OfGrant(g)[l]
      BY <1>7, <2>1, <2>4
    <3>2. Total(OfGrant(g)', LotsOf(v)) = Total(OfGrant(g), LotsOf(v))
      BY <3>1, TotalSame
    <3> QED
      BY <2>2, <2>4, <3>2
  <2> QED
    BY <2>3, <2>4
<1>9. HoldingsOf' = [g \in Grants |-> IF g \in G THEN [v \in Levels |-> 0]
                                     ELSE HoldingsOf[g]]
  <2>1. HoldingsOf' = [g \in Grants |-> [v \in Levels |-> HeldOf(g, v)']]
    BY DEF HoldingsOf
  <2>2. HoldingsOf = [g \in Grants |-> [v \in Levels |-> HeldOf(g, v)]]
    BY DEF HoldingsOf
  <2>3. ASSUME NEW g \in Grants
        PROVE  [v \in Levels |-> HeldOf(g, v)']
                 = IF g \in G THEN [v \in Levels |-> 0] ELSE HoldingsOf[g]
    BY <1>8, <2>2
  <2> QED
    BY <2>1, <2>3
<1>10. UsedOf' = UsedOf
  <2>1. UsedOf' = {g \in Grants : \E l \in Lots : GrantOf(g[1], l)' = g}
    BY DEF UsedOf
  <2>2. \A g \in Grants : (\E l \in Lots : GrantOf(g[1], l)' = g)
                            <=> (\E l \in Lots : GrantOf(g[1], l) = g)
    BY <1>7
  <2> QED
    BY <2>1, <2>2 DEF UsedOf
<1> QED
  BY <1>1, <1>6, <1>9, <1>10

\* Every other step leaves what grants hold alone.
LEMMA PromiseSupply ==
    ASSUME TypeOK, TypeOK', res' = res
    PROVE  StockOf' \in [Levels -> Nat] /\ HoldingsOf' = HoldingsOf /\ UsedOf' = UsedOf
<1>1. ASSUME NEW v \in Levels
      PROVE  Total([l \in Lots |-> lot'[l].avail], LotsOf(v)) \in Nat
  BY LotsOfLevel, TotalNat
<1>2. StockOf' = [v \in Levels |-> Total([l \in Lots |-> lot'[l].avail], LotsOf(v))]
  BY DEF StockOf, Available, LotsOf
<1>3. HoldingsOf' = HoldingsOf /\ UsedOf' = UsedOf
  BY DEF HoldingsOf, UsedOf, HeldOf, OfGrant, GrantOf, HeldOn, LotsOf
<1> QED
  BY <1>1, <1>2, <1>3

LEMMA PromiseInit ==
    ASSUME Init
    PROVE  /\ StockOf \in [Levels -> Nat]
           /\ HoldingsOf = [g \in Grants |-> [v \in Levels |-> 0]]
           /\ UsedOf = {}
<1>1. \A v \in Levels : Total(Available, LotsOf(v)) \in Nat
  BY LotsOfLevel, TotalNat
<1>2. ASSUME NEW g \in Grants, NEW l \in Lots
      PROVE  GrantOf(g[1], l) # g
  <2>1. g[1] \in Requests /\ g[2] # {}
    BY DEF Grants
  <2>2. res[g[1]][l].grant = {}
    BY <2>1 DEF Init, NoRow
  <2> QED
    BY <2>1, <2>2 DEF GrantOf
<1>3. ASSUME NEW g \in Grants, NEW v \in Levels
      PROVE  HeldOf(g, v) = 0
  <2>1. \A l \in LotsOf(v) : OfGrant(g)[l] = 0
    BY <1>2, LotsOfLevel DEF OfGrant
  <2> QED
    BY <2>1, TotalZero DEF HeldOf
<1>4. HoldingsOf = [g \in Grants |-> [v \in Levels |-> 0]]
  BY <1>3 DEF HoldingsOf
<1> QED
  BY <1>1, <1>2, <1>4 DEF StockOf, UsedOf

LEMMA PromiseStep == TypeOK /\ GrantsInv /\ [Next]_vars => [Promise!Next]_(Promise!stockVars)
<1> SUFFICES ASSUME TypeOK, GrantsInv, [Next]_vars
             PROVE  \/ Promise!Next
                    \/ StockOf' = StockOf /\ HoldingsOf' = HoldingsOf /\ UsedOf' = UsedOf
  BY DEF Promise!stockVars, StockOf, HoldingsOf, HeldOf, OfGrant, UsedOf
<1>1. TypeOK'
  BY TypeStep
<1>2. ASSUME res' = res
      PROVE  Promise!Next
  <2>1. StockOf' \in [Levels -> Nat] /\ HoldingsOf' = HoldingsOf /\ UsedOf' = UsedOf
    BY <1>1, <1>2, PromiseSupply
  <2>2. Promise!Supply
    BY <2>1 DEF Promise!Supply, StockOf, HoldingsOf, HeldOf, OfGrant, UsedOf
  <2> QED
    BY <2>2 DEF Promise!Next
<1>3. ASSUME NEW p \in Procs, ReserveCommit(p)
      PROVE  Promise!Next
  <2>1. /\ tx[p].level \in Levels /\ tx[p].qty \in Nat
        /\ Total(Taken(p), Lots) = tx[p].qty
        /\ \A l \in Lots : Taken(p)[l] \in Int32
    BY <1>3, TakesWhatWasAsked DEF Taken
  <2>2. CASE tx[p].qty > 0
    <3>1. PICK g \in Grants : g = <<tx[p].req, TakenFrom(p)>>
      BY <1>3, <2>2, TakesFromSome
    <3>2. PICK v \in Levels : v = tx[p].level
      BY <2>1
    <3>3. PICK n \in Nat : n = tx[p].qty
      BY <2>1
    <3>4. /\ n \in 1..(MaxInt * Cardinality(Lots))
          /\ g \notin UsedOf
          /\ StockOf[v] >= n
          /\ StockOf' = [StockOf EXCEPT ![v] = @ - n]
          /\ HoldingsOf' = [HoldingsOf EXCEPT ![g][v] = @ + n]
          /\ UsedOf' = UsedOf \cup {g}
      BY <1>3, <2>2, <3>1, <3>2, <3>3, PromiseHold
    <3>5. Promise!Hold(g, v, n)
      BY <3>4 DEF Promise!Hold, StockOf, HoldingsOf, HeldOf, OfGrant, UsedOf
    <3> QED
      BY <3>4, <3>5 DEF Promise!Next
  <2>3. CASE tx[p].qty = 0
    <3>1. ASSUME NEW l \in Lots
          PROVE  Taken(p)[l] = 0
      <4>1. Total(Taken(p), Lots) >= Total(Taken(p), {}) + Taken(p)[l]
        BY <2>1, LotsAssumption, TotalMonotone
      <4>2. Total(Taken(p), {}) = 0
        BY TotalZero
      <4>3. Taken(p)[l] \in Nat
        BY <1>3, RowsWritten
      <4> QED
        BY <2>1, <2>3, <4>1, <4>2, <4>3
    <3>2. ASSUME NEW r \in Requests, NEW l \in Lots
          PROVE  res'[r][l] = res[r][l]
      <4>1. ~(Taken(p)[l] > 0)
        BY <3>1
      <4> QED
        BY <1>3, <4>1, RowsWritten
    <3>3. res' = res
      BY <1>1, <3>2 DEF TypeOK
    <3> QED
      BY <1>2, <3>3
  <2> QED
    BY <2>1, <2>2, <2>3
<1>4. ASSUME NEW p \in Procs, ReleaseCommit(p)
      PROVE  Promise!Next
  <2>1. PICK G : G = GrantsOf(p)
    OBVIOUS
  <2>2. /\ G \in SUBSET UsedOf
        /\ StockOf' = [v \in Levels |-> StockOf[v]
                         + Promise!Total([g \in Grants |-> HoldingsOf[g][v]], G)]
        /\ HoldingsOf' = [g \in Grants |-> IF g \in G THEN [v \in Levels |-> 0]
                                           ELSE HoldingsOf[g]]
        /\ UsedOf' = UsedOf
    BY <1>4, <2>1, PromiseGiveBack
  <2>3. Promise!GiveBack(G)
    BY <2>2 DEF Promise!GiveBack, StockOf, HoldingsOf, HeldOf, OfGrant, UsedOf
  <2>4. G \in SUBSET {g \in Grants : \E l \in Lots : GrantOf(g[1], l) = g}
    BY <2>2 DEF UsedOf
  <2> QED
    BY <2>3, <2>4 DEF Promise!Next
<1> QED
  BY <1>2, <1>3, <1>4, RowsKept

\* The inventory module implements Stock: a reservation makes one new grant of
\* all that was asked for, or nothing, and a release gives back whole grants,
\* whatever reservations under its request ids commit while it waits.
THEOREM ImplementsStock == Spec => KeepsPromise
<1>1. Init => Promise!Init
  BY PromiseInit DEF Promise!Init, Promise!HoldNothing, StockOf, HoldingsOf, HeldOf,
                     OfGrant, UsedOf
<1>2. TypeOK /\ GrantsInv /\ [Next]_vars => [Promise!Next]_(Promise!stockVars)
  BY PromiseStep
<1> QED
  BY <1>1, <1>2, TypeCorrect, GrantsInit, GrantsStep, PTL DEF Spec, KeepsPromise, Promise!Spec
=============================================================================
