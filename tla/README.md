# Formal models of the B2B platform backend

TLA+ models of the Go backend (`src/backend`): what its transactions do when they
interleave, fail half-way or are retried. TLC checks the models on small instances;
TLAPS proves every safety property that the passing runs check - invariants, action
properties and three refinements of abstract specifications - for every value of the
constants. `PROJECT.json` lists every run, property, test
variant, finding, hazard and theorem, and maps each definition to its source lines.

## 1. Inventory of the system

A modular monolith: HTTP handlers call services, services call repositories,
repositories talk to one PostgreSQL database. There is no in-memory state worth
modelling; everything that matters is a row. The unit of atomicity is
`DB.WithTx` (`database/tx.go`): one transaction at PostgreSQL's default READ
COMMITTED, in which a plain read sees what is committed *when that statement runs*
and a `FOR UPDATE` read or an update locks the row until the end. Services mostly
read without a lock, decide, then open a transaction and sometimes read again.
That is where nearly all the hazards are.

| Component | State | Operations | Interacts with | Hard behaviour |
|---|---|---|---|---|
| inventory | stock levels, lots, reservations, quarantine records | reserve, release, push, quarantine, release lot, adjust | called by checkout, cancellation, supplier portal | counters of two tables kept equal by hand; rows read unlocked and written back; FEFO under concurrency |
| checkout | carts, idempotency claims, orders | cart edits, voucher, checkout | inventory, promotions, pricing, catalog, credit gate | a saga of several transactions with a hand-written rollback; retries, crashes, take-over of stale claims |
| promotions | promotions, budgets, redemptions | create, edit, publish, archive; validate, consume | checkout | edits between a checkout's discount and its orders; last unit of a budget; once per buyer; a discount split with rounding |
| order lifecycle, fulfillment | orders, shipments, holds | transition, cancel, hold, ship | inventory, supplier portal | the same order moved by two people; cancellation spans two transactions |
| invoices, returns, credit notes | invoices and balances, returns, credit notes | issue, void, reissue, pay, reverse, return, credit | payments | balances moved by several flows, some with unlocked checks |
| payments | intents, webhook events, refunds, credit accounts | create, settle, webhook, refund, credit gate | invoices | duplicated and contradicting webhooks; settle-then-allocate is two transactions; refunds approved twice |
| reports, export worker | export jobs | enqueue, claim, complete | none | a worker that dies while a job is processing |
| identity | users, codes, refresh tokens | register, verify, log in, suspend, refresh, log out | every handler | rows written back from stale reads; one token refreshed or revoked by two requests |
| cms | legal documents and their versions, content records | save, publish | storefront | two editors, an optimistic check |
| suppliers | contracts by version, profiles | set contract, push stock, acknowledge | inventory, orders | two requests minting one version |
| erp, crm, platform, catalog, pricing, ai | records of their own | create, read, update | few | mostly record keeping |

What makes each correct:

- **inventory**: a lot's reserved counter equals the units its reservations hold; a
  reservation is all or nothing, from the earliest lots first, never from a
  quarantined lot, and is given back at most once.
- **checkout**: a key places at most one order set, remembered for ever; orders are
  exactly the cart at that moment; an order placed has its stock held; the voucher
  budget is not exceeded.
- **promotions**: the shares of a discount add up to it, no order becomes negative, and
  every redemption is counted.
- **order lifecycle**: one request at a time moves an order along its state machine; a
  hold freezes it; lines are never over-shipped; a cancelled order ships nothing and
  holds nothing, an order that ships has its stock held.
- **invoices**: balances stay within 0 and the total; what is gone from one was paid, or is
  credited by a note that stands; a return is credited once, a line in full or not at all;
  the oldest invoice first.
- **payments**: an intent becomes terminal once and is allocated at most once, an event
  counts as applied only if it is true, a redelivered one settles its intent in the end;
  nothing is refunded without its approvals.
- **exports**: a job is claimed once, and in the end; a completed one has its file.
- **tokens, accounts**: one working token for each login; verified only after the right
  code, locked only after enough wrong passwords.
- **versions** (legal documents, contracts): numbered without gaps, never changed, only the
  newest in force; no save over what its editor has not seen.

## 2. Plan

1. `Inventory`, with `Stock` as the abstract specification of what it promises. *Done.*
2. `Checkout`, which uses `Stock`, so it relies on the promise and not on lots. *Done.*
3. `Orders`, which uses `Stock` too. *Done.*
4. `Billing`: invoices, payments and reversals, credit notes, returns. *Done.*
5. `Settlement` (intents and webhooks) and `Payments`, its composition with `Billing` and
   refunds. *Done.*
6. Smaller state: `Exports`; `VersionLog`, the abstract log of versions, which `Contracts`
   and `Publishing` implement; `Tokens`; `Promotions`; `Accounts`. *Done.*

What is left, in order: a COMMIT whose acknowledgement is lost; the credit gate; what would
have to change for each violated property to hold, as a variant with its proof; price
resolution; password resets and supplier verification.

## 3. Modules

| Module | What it is |
|---|---|
| `Counting` | sums of INT columns over sets of rows, and int32 wrapping |
| `Stock` | abstract: units per level, granted all or nothing, given back whole and once |
| `Inventory` | the inventory module in detail, statement by statement where it matters |
| `Checkout` | carts, vouchers, claims and the checkout saga, over `Stock` |
| `Orders` | transitions, cancellation, holds, shipments, over `Stock` |
| `Billing` | invoices and balances, credit notes, returns |
| `Settlement` | payment intents, settled by staff or by webhooks |
| `Payments` | `Billing` and `Settlement` composed, and refunds |
| `Promotions` | a promotion from draft to archive, its edits, the discount and its split |
| `Accounts` | registration, its code, logins with their lock, suspension |
| `Tokens` | refresh tokens: login, rotation, logout |
| `Exports` | the export queue and its workers |
| `VersionLog` | abstract: versions numbered without gaps, the newest in force |
| `Contracts`, `Publishing` | supplier contracts and legal documents, each implementing `VersionLog` |
| `CountingProofs` | lemmas: sums, and induction on finite sets |
| `InventoryProofs`, `CheckoutProofs`, `OrdersProofs`, `BillingProofs`, `SettlementProofs` | theorems about the module of that name |
| `PaymentsProofs` | theorems about `Payments`, `Promotions`, `Accounts` and all that `MCPayments` brings together |
| `BackofficeProofs` | theorems about `Exports`, `Tokens`, `Contracts`, `Publishing` and all of `MCBackoffice` |
| `MCInventory`, `MCCheckout`, `MCOrders`, `MCBilling`, `MCPayments`, `MCBackoffice` | instances for TLC |

### Reading the code as steps

All that a transaction does *from its last unlocked read on* is one action, its commit: the
rows it relies on are locked and nobody sees its writes before. What it read earlier is an
action of its own that stores the value (in `tx`, `session`, `request`, `call`, `desk`, ...),
where it grows stale while others run. Rows a transaction has already written while it
still reads others are locked (`Locked`, `RowLocked`, `RowLocks`). Every transaction may end
in a rollback: an error, a CHECK or unique constraint, a lost connection, an aborted
deadlock. Checks that only refuse early are guards of the first action. Where a read and the
use of what it found cannot be told apart by any property, they are one action; such merges
are named below. A single statement that no transaction surrounds is an action of its own.

### `Inventory` (`inventory/service/services.go`, `inventory.sql`, migration 000005)

- `level`, `lot`, `res`, `record` are the tables; `tx` is what each session has read. A
  reservation table keyed by request and lot is its unique index. `is_quarantined` and
  the status `quarantined` are always written together and are one field. Lots are numbered
  in the order `expires_at, id`.
- `ReserveStart` is the replay check and the unlocked read of the level (merged: nothing
  happens between them that either would notice); `ReserveQuery` is the snapshot of the
  allocation query; `ReserveCommit` locks what that snapshot found, drops the lots that no
  longer match, and writes lots, rows and the level with the *total read at the start*.
- `ReleaseStart`, `ReleaseNext`, `ReleaseCommit` are `ReleaseReservationAttempt`. For one
  request id after the other it reads the rows, then waits for their lots and levels and
  restores them. A row that a reservation of the same id commits between that read and the
  locks is not among them (`rows`) and stays reserved. Rows of earlier ids (`done`) are given
  back but not committed, so their lots and levels are locked; those of the last id are
  given back in the commit. `FOR UPDATE` on the rows themselves is not a step: two releases of
  one row are ordered by its lot, and the second finds it released.
- `grant` on a row is a history of which lots the reservation that inserted it took.
- `PushStart`, `PushTopUp`, `PushMiss`, `PushCreate` are `PushSupplierStock`; the level's
  new counters come from the row read at the start.
- `QuarantineStart/Lock/Commit` and `ReleaseLotStart/Lock/Commit`: the lot read, the lot's
  update, and the level's rewrite.
- `AdjustStock` is one step: the lot is locked and both counters move by relative updates.
- INT columns are `0..MaxInt` with the CHECKs; the sum of available units wraps as Go's
  int32 does (`Wrapped`).
- Left out: the adjustment log, codes and times, `ReleaseExpiredReservations`, which
  nothing calls.

### `Checkout` (`commerce/service/checkout.go`, `services.go`, `vouchers.go`, migration 000008, `promotions`)

- `cart`, `claim` (idempotency rows, ids counted by `claims`), `orders`, `redeemed`;
  `stock, held, used` are the inventory as `Stock` sees it, one level per product.
- `ReadCart`, `ReadLines`: two statements. `ClaimIdempotency`, `AnswerClaimed`,
  `StalePending`, `DeleteStale`: the claim and the take-over of a stale one. `Validate` or
  `Refuse`; `Reserve` once per line; `CreateOrderSet` is the order transaction; `Fail`,
  `ReleaseReservationAttempt`, `DeleteIdempotency` are `fail()`. `Stop` ends a request anywhere.
- A claim may be taken over once it is five minutes old. A request is cancelled after 60 s
  (`middleware.Timeout` in `server.go`), so its owner has stopped: `Alive` stands for
  the clock.
- A claim keeps a hash of the payload, compared when the key is claimed again; a mismatch
  and a replay both end the request (`AnswerClaimed`), so the hash is not stored. The
  comparison that matters, of the cart read first with the cart locked at the end, is
  `SameCart`.
- A redemption row is written only for orders with a share of the discount, and that
  share may round to nothing: `discounted` may be FALSE although the budget was consumed.
- `first` on an order is a history flag: no reservation row existed under the request ids
  of the attempt when it claimed its key.
- Left out: amounts (see `Promotions`), the credit limit (a reason to `Refuse`), a COMMIT whose
  acknowledgement is lost.

### `Orders` (`commerce/service/lifecycle.go`, `fulfillment.go`, migration 000009)

- `order` has status and hold; `shipment` has status, order and quantities per line; lines
  never change, so `Quantity` is a constant. Orders begin holding their stock: those placed
  by a retry (see the finding below) and legacy ones without an `idem_key` are left out.
- Each operation is its unlocked check, then its transaction. `TransitionLock` and
  `TransitionCommit`, `CancelLock`, `CancelRelease` and `CancelCommit` are separate steps,
  because `UpdateShipment` locks only the shipment and the inventory's release commits by
  itself meanwhile. Holding, releasing a hold and creating a shipment are one step once the
  row is locked.
- `NextStatus`, `ShipmentMayBecome` are the two transition tables.
- Left out: history rows, notes, carrier data, events.

### `Stock`

Both `Checkout` and `Orders` hold and give back through it. `Inventory` implements it
(`KeepsPromise`, checked and proved) under the mapping: stock of a level is the sum of its lots'
available units, and a grant is what one reservation took, namely a request id and the set of
lots whose rows it inserted; a grant holds the sum of those rows that are still reserved.

Grants and not ids, because the inventory may grant an id twice: two requests with one id both
find no rows; if the first drains the lot they found, the second takes from the next one,
where the unique index does not stop it. A release that has read the id's rows between the
two commits gives back the first grant and misses the second, so "all that the id holds goes
back" would be false of the code. What is true is that a grant is never split, and that is what
`Stock` says. In `Checkout` and `Orders` an id is its own grant: the requests that reserve
or release under it work for one claim and one after the other (`OneOwner` in section 6), and
an order is cancelled after its rows were committed, so no release of theirs misses a row.

### `Billing` (`commerce/service/fulfillment.go`, `returns.go`, their repositories, migrations 000009, 000011)

- One order; every invoice is for its total, `Price`. Invoices are numbered in order of
  creation, which is the order in which payments walk them.
- `IssueInvoice`, `VoidInvoice`, `ReissueInvoice`, `VoidCreditNote`, `CreateInvoice` read and
  check without a lock; their `...Commit` writes a status *whatever it has become*.
- `RecordPayment`, `ReversePayment`, `ApplyCredit` lock the order's invoices and move balances
  relative to what they are: one step. What each invoice gives or gets is `Taken`, `Restored`.
- `CompleteReturn` commits the status; each `CreditLine` is a transaction of its own, in the
  order of the lines, and `Stop` may come in between.
- A credit note row is kept for each call and invoice; `received` is a history of payments.
- In the code, lines and notes have tax; here a line has one price.

### `Settlement` and `Payments` (`payments/service/service.go`, `webhook.go`, `finance.go`)

- `CreateIntent` and its commit; `MarkIntentLocked` is the locked check and update both staff
  and webhooks go through; `MarkIntent` leaves an `allocate` step behind, the transaction of
  its own that pays the invoices, which a crash may cut off for good.
- A webhook is `Deliver` (the event row is inserted or found; a decided one is answered),
  `ApplyWebhook` (the unlocked read of the intent), `WebhookMarks` or, if somebody was
  faster, `WebhookConverges`, and `WebhookAnswers`, which may fail to write the event's status
  and answers all the same. `Fail` ends any request anywhere.
- `Payments` composes both by conjoining an action of one with the other's: `Allocate` is
  `AllocatePayment` and `RecordPayment` in one step, `ReverseRefund` is `ReversePayment`. A refund
  is approved, reversed and marked applied in three transactions; a desk holds what its
  request has read. Who approves is a clerk; `seconded` remembers second persons.
- The amount of an intent is the order's total. Payment methods and attempts' details are
  left out.

### `Promotions` and `Accounts`

- `Promotions` (`promotions/service/service.go`, `commerce/service/vouchers.go`): an edit
  reads and checks (`UpdatePromotionRead`) and writes the fields it was given
  (`UpdatePromotionWrite`) in two statements. A checkout computes its discount
  (`ValidateVoucher`) before the transaction that redeems it (`CreateOrderSet`), which checks
  status, window and budget again but not the discount. `splitDiscount` and `ComputeDiscount`
  are the code's integer arithmetic. A cart is the list of its subtotals per supplier. An edit
  may write any of status, value and budget at once; one of the window is a `WindowMoves`
  before or after it.
- `Accounts` (`identity/service/services.go`): `handler[r].read` is the row a request has
  read; `UseOTPCode` may fail without anybody noticing, and `VerifyUser` follows all the same;
  `VerifyUser`, `SetActive` and `UpdateUserLoginAttempts` write columns computed from
  it. Registration is three statements without a transaction. `failed` and `presented` are
  history.

### `Exports`, `Tokens`, `Contracts`, `Publishing`

- `Exports` (`worker/export_worker.go`, `reports/repository/repository.go`): claiming takes
  the oldest row that is not locked (`ClaimPendingExportJob`, SKIP LOCKED) and writes it
  (`ClaimCommit`); the file is created and filled in two steps; completing may succeed without
  the worker learning it, and then it marks the job failed. `Die` at any step, `Restart`
  later.
- `Tokens` (`identity/service`, `queries/identity/user.sql.go`): `RefreshToken` and `Logout`
  are the reads; replacing is one statement that locks the old row and inserts its successor,
  revoking is one that fixes the rows it sees and then waits for their locks. Hence two steps
  each.
- `Contracts` (`suppliers/service/service.go`): the read of the newest version, then
  deactivating and inserting in one step, which the unique constraint refuses if the version
  is taken.
- `Publishing` (`cms/repository/repository.go`): a save may send the `updated_at` its editor
  read; a publish locks the document's row first and so is one step.
- `Contracts` and `Publishing` implement `VersionLog` under the mapping: the log is the texts
  of the versions in their order, in force is what is marked current (for a legal document
  both the version that is published and the one the document points to).

## 4. Runs

Every run uses two or three concurrent sessions, with symmetry over names that are
interchangeable where no liveness is checked. Numbers are distinct states; times are for two
workers.

| Run | Instance | Checks |
|---|---|---|
| `inventory` | one lot, two request ids, two sessions, everything (1.84M, 2 min) | `TypeOK`, `LotReservedExact`, `ReservationHistory`, `QuarantineBlocks` |
| `inventory_lots` | two stocked lots, two request ids, three sessions; reserve and release (77k, 40 s) | `EarliestFirst`, `ReservesWhatWasAsked`, `ReservationsMoveUnits`, `KeepsPromise` |
| `checkout` | two buyers, two keys, one product, two requests, two claims; stock changes only by checkout (1.28M, 1.5 min) | `TypeOK`, `PlacedIsRemembered`, `BudgetKept`, `PlacedIsTheCart` |
| `checkout_lines` | one buyer, one key, two products of two suppliers, three claims, stock changes at any time (1.40M, 1.5 min) | `FirstAttemptIsHeld`, `PlacedIsTheCart` |
| `checkout_retry` | one line, one key | **violated** `OrdersAreHeld` |
| `checkout_voucher` | one buyer, two keys, three requests, budget 2 | **violated** `RedeemedOncePerBuyer` |
| `orders` | lines of two and one units, two shipments, two requests (233k, 20 s) | `TypeOK`, `CancelledIsFree`, `ShippedWithinOrdered`, `HoldFreezes`, `OneTransitionAtATime` |
| `orders_cancel` | one line, two shipments | **violated** `ShippedHoldsStock` |
| `billing` | two invoices of price 1, one return of a line that costs 2, two credits, two requests, one payment (837k, 1 min) | `TypeOK`, `SettledIsBacked`, `ReturnCreditedOnce`, `CreditedInFull`, `OldestFirst` |
| `payments` | two intents, one event, one refund, one desk, total and threshold 2; a promotion with one administrator and two buyers; an account with two requests (1.10M, 1.2 min) | `MCPaymentsTypeOK`, `PaidByIntents`, `ReversalsAreApproved`, `DiscountsAddUp`, `FlagsAreEarned` |
| `payments_refund` | one intent, one refund, two desks | **violated** `ReversedOnce` |
| `backoffice` | one intent with two contradicting events and two calls; two jobs and two workers; one document with three versions and two editors; one contract with two versions and two requests; one token family with four tokens and two devices (6.6k, 1 min) | `BackofficeTypeOK`, `SettledOnce`, `AppliedIsTrue`, `ClaimedOnce`, `CompletedIsStored`, `OneLivePerFamily`, `WebhooksSettle`, `EveryJobIsClaimed`, `SavedAsRead`, `VersionsAreALog`, `ContractsAreALog` |

`MCPayments` and `MCBackoffice` hold several components that share no state. They are
explored *one at a time*: while one moves, the others are as they started. Nothing is lost,
since no property relates two of them, and their product need not be explored. A
component that has moved and returned to its initial state lets another one start.

Why the bounds are enough. The hazards are pairs: one request holds something stale while
another commits. Two sessions give every pair; a third is needed by the voucher race
(two checkouts and an `ApplyVoucher`) and by a release between two reservations of one id
(`inventory_lots`). `PlacedIsTheCart` is checked twice: in `checkout` one cart is checked out
under two keys at once, in `checkout_lines` it has two lines while stock runs out. FEFO order, all-or-nothing and drained lots need two
lots; splitting a reservation over them needs a request of two units (`MaxQty = 2`), which
`inventory`, with its one lot, does without. Quarantines are in `inventory` only: what they
do to reservations over several lots is left to the theorems.
In the inventory runs `MaxInt = 2` puts overflow of the INT columns and of the int32 sum
inside reach; the other modules do not depend on it.
`MaxRecords`, `MaxClaims` and `Shipments` bound how many quarantine records, claims and
shipments are ever inserted: two claims are an attempt and a retry, three allow a take-over
of the retry; two shipments are two that race for a line, or one that replaces a cancelled
one. A line of two units can be shipped in parts.

In `billing`, two invoices of price 1 give an older and a newer one that an amount of 2 spans,
and a void invoice reissued; two credits give a return credited twice if that were possible,
or a manual credit beside a return's. One payment (`LastPayment`) can be reversed and its
balance asked for again. Returns of several lines, and several payments, are covered only by
the proofs. In `payments`, a total of 2 with the threshold at 2 makes refunds of 1 small and of 2 large;
a refund of 2 makes room on the invoice again, where an intent allocated a second time would
be accepted. Its one desk meets rejections and approvals abandoned half-way; that two desks
at once reverse nothing unapproved is shown only by the theorem `RefundsAreApproved`. The promotion's values are 1 and 67: 1 % of a cart rounds to nothing, 67 % of the
carts 1+1+1 and 1+2 leaves a remainder, which in the first is a share above its subtotal, and
a fixed 67 is capped. `MaxFailures = 2` and `LastFailure = 3` let an account lock, its lock
expire and a stale counter be written back. In `backoffice`, four tokens are a login and three
refreshes; three versions and five writes are two publishes with a save in between, and more.

That more rows or more sessions change nothing is what the theorems of section 6 add.

Every property of a passing run is shown to be able to fail: a test variant of a modelled
definition (a guard dropped, a check not repeated under the lock, a counter not restored)
makes TLC report it violated under the same configuration. The variants stand next to the
definitions they vary, marked "Test variant".

`CHECK_DEADLOCK FALSE` stands where the system may really stop: a cancelled order with no
shipments has nothing left to happen, a stocked instance whose lots are used up neither, nor
bounded invoices, versions and tokens once they are spent.

**Fairness and liveness.** Two components have something outside a person's request that
makes progress.

- *Webhooks.* A provider redelivers an event until it is answered (SF of `Deliver` for each
  recorded, unanswered event). Every request ends, because `middleware.Timeout` cancels it
  after 60 s if nothing else ends it (WF of `Fail`). Of infinitely many deliveries not all
  fail at the same step (SF of `ApplyWebhook` and `WebhookMarks`). Under this,
  `WebhooksSettle`: an event whose intent existed when it first came settles it in the end. It
  rests on the code applying an event it finds only `received`; were a known event answered at
  once, a crash between recording and applying would lose it (the property's test variant).
- *Exports.* The worker is a ticker in every process (SF of `ClaimPendingExportJob`, which
  others' locks disable again and again, and of `ClaimCommit`: not every claim is cut short);
  a statement it is running ends (WF of `Proceed`), and a dead process is started again (WF of
  `Restart`). Under this, `EveryJobIsClaimed`. That every job is *completed* is not true: a
  job whose worker died stays `processing`.

Nothing else is assumed fair, and no other liveness is claimed: every other step is a request of
some person; the code schedules nothing that would finish a stopped checkout, release an
abandoned reservation (`ReleaseExpiredReservations` has no caller), allocate a succeeded
intent, finish crediting a return or move an order.

## 5. What the violated properties show

1. `checkout_retry` - a failed checkout releases its reservations and forgets the key "so
   the same key may be retried", but the request ids depend on the key and the released
   rows stay: the retry is answered with them, and places an order that holds no stock.
2. `checkout_voucher` - `ApplyVoucher` validates before it writes the cart. A checkout that
   redeems the voucher in between empties the cart, the voucher is written back, and a
   second checkout that had validated before the first committed redeems it again. The
   documentation says a UNIQUE constraint enforces once per buyer.
3. `orders_cancel` - `CancelOrder` gives the stock back through a transaction of its own
   while it holds the order's row. If the rest of the cancellation fails, the order is live,
   its stock belongs to others, and it is shipped and delivered all the same. The comment
   says that the order is locked, validated and updated in a single transaction so that
   stock of a shipped order is never freed.
4. `payments_refund` - `ApproveRefund` accepts an approved refund, to retry it, and does not look
   at it again in the transaction that restores the balances: two approvals restore twice.

Behaviours that are in the models, or were met while reading, and that no run reports:

- *Inventory.* Two supplier pushes to different lots write level counters computed from the
  same old row, and one is lost from the level. A lot quarantined with nothing available has a
  record of 0 units, and `ReleaseLot` takes that for "unknown" and restores the initial
  quantity. Allocation does not look at `expires_at`. A reservation code,
  `res_<nanoseconds>_<lot>`, has room for a lot id of two digits in its VARCHAR(26).
- *Checkout and promotions.* When the remainder of a discount makes a share exceed its
  subtotal, the checkout fails on the CHECK. One line whose quote fails makes the whole cart
  fall back to base prices (`checkout.go:289-293`). An edit that read before an archive can
  publish the promotion again, and a budget can be lowered, against "forward only" and the
  comments of migration 000012. The credit gate reads the exposure before the order exists, so
  two checkouts may each fit the limit (`payments/service/finance.go:269-288`).
- *Orders.* A shipment may be cancelled after its order was marked shipped because of it
  (`fulfillment.go:266`).
- *Invoices and payments.* A void invoice becomes issued again when `IssueInvoice` had read it
  before; a note voided twice restores its balance twice: the buyer is then asked for too
  much. A refund restores the newest invoices, not those its payment had settled: a note on
  one of them that is voided afterwards restores nothing, and the older invoice stays settled
  by money that went back (so `SettledIsBacked` counts reversed payments too). Approved returns may together exceed the quantity ordered. A refund request does not
  count those that wait for approval (`payments/service/finance.go:52`). An intent a webhook
  settles is never allocated to the invoices (`webhook.go:175`), nor one whose `MarkIntent`
  dies in between.
- *Exports.* `GetExportJobByCode` passes no argument for its `$1`, so a download always
  answers "not found" (`reports/repository/repository.go:560-577`).
- *Identity.* A suspension, a verification or a count of failed logins is undone by a slower
  request that read the row before it. A registration cut off after its first statement leaves
  a user with neither profile nor code. A logout that began before a refresh inserted the
  successor leaves the successor alive.
- *Elsewhere.* A legal document published with an `effective_at` in the future leaves nothing
  in force until then; newsletter confirmation tokens are never mailed, and a used one
  confirms again after an unsubscribe; `DispatchOrder` of erp writes a second dispatch when
  repeated (`erp/service/service.go:248-297`); a crm lead can be `assigned` to nobody; a price
  list stays in use where it was assigned after it is deactivated.

## 6. What is proved

All proofs are checked by TLAPS; the assumptions are those on the constants, named in the
modules (finite sets of products, lots, intents, buyers and other rows that are summed over or
counted, bounds that are naturals, a level for each lot, a quantity for each line, a result for
each event, carts of one or more positive subtotals). No bound
of a run appears in them: they hold for any number of sessions, lots, request ids, orders,
shipments, invoices, events, workers and tokens, and any `MaxInt`. Each follows the same
argument: an inductive invariant, holding initially, kept by one lemma for each action, and
implying the property; action properties follow from the invariant and the step.

`Counting` defines a sum as the cardinality of the set of units counted, so `CountingProofs`
derives the laws of sums (a changed summand, monotonicity, zero) from the library's facts
about finite sets, without recursion. The prover cannot instantiate the library's induction
theorems, whose parameter is a predicate. `SubsetInduction` and `AscendingInduction` replace
them: the parameter is the *set* of the subsets for which the claim is true, and a minimal
subset outside it, which exists because strict inclusion is well founded, is refuted. From
these come `TotalAdd` (sums of sums) and `TotalGreedy` (rows that give one after the other what
the earlier ones lack give all that is asked, or all they have), on which FEFO allocation and the
oldest-invoice-first plan rest.

**Inventory.**
- `TypeCorrect`: `TypeOK` is inductive. The interesting part is that counters stay storable
  where nothing checks them, namely that what a reservation takes fits in an INT.
- `ReservedExact`: `LotReservedExact` alone is not inductive: inserting a lot writes
  `reserved = 0`, which is right only if no row holds units of a lot that does not
  exist. `ReservedInv` adds that and typing.
- `HistoryKept`, `QuarantineHolds`, `FirstExpiredFirstOut`: action properties, from typing and
  what a reservation and a release write. The last needs that units taken from a lot imply
  the earlier lots found did not suffice, so each of them is drained.
- `AllOrNothing`: what a commit takes adds up to what was asked (`TakesWhatWasAsked`, from
  `TotalGreedy`), although the sum it tested may wrap as an int32: a sum that wraps to enough
  is enough.
- `UnitsMove`: a lot and its rows change by the same units in opposite directions, since no
  row of a request exists twice and a released one gives back what it held.
- `ImplementsStock`: the initial state maps to one of `Stock`, and each step to a step of it. A
  commit that takes something is a `Hold` of one new grant and one level (`PromiseHold`: other
  grants and levels add up to what they did; it is new since the unique index left its lots
  without rows); a release is a `GiveBack` of the grants whose rows it has read; whatever
  leaves the rows alone is a `Supply`. That a release never splits a grant is `GrantsInv`:
  rows are inserted with all the others of their grant (`RowsGranted`), and what a release has
  read holds all rows of a grant or none (`Whole`), because it reads an id's rows in one
  statement. `Checkout` and `Orders` hold stock through `Stock`, so this is the promise that
  their theorems rest on.

**Orders.**
- The inductive invariant `OInv` says what the lock of an order's row is good for: at most one
  request has it (`LockExclusive`); while it does, the order is not held, has the status the
  request first read, has no live shipment once a cancellation looked, and holds no stock
  once it was given back (`SeenUnderLock`). Without the last two,
  `CancelledIsFree` is not preserved by the commit of the cancellation. A shipment update
  needs no lock because it never brings a cancelled shipment back.
- `OrdersTypeCorrect`, `CancelledOrdersAreFree`, `NeverOverShipped` follow from `OInv`;
  `HoldsFreezeOrders` and `OneTransition` from `OInv` and one lemma per action.

**Checkout.** `CInv` is typing and three parts. `OneOwner`: a claim has at most one working
request; this is what makes take-over sound, since only a claim whose owner has stopped is
deleted. `IdsGiven`: no claim has an id that has not been given out yet. `Sound`, for each
request: while it works its claim is pending under its own id; a claim it found stale has no
living owner; and in a first attempt what it reserved is held under its request ids, and
nothing was ever held under the others. With these,
`OrdersAreRemembered`, `BudgetsAreKept` and `FirstAttemptsAreHeld` are preserved (the second
because the budget counts order sets, not attempts), and `OrdersAreTheCart` is an action
property from the invariant.

**Billing.** `BInv` is typing, `SettledIsBacked`, `ReturnCreditedOnce`, and two parts that make
them inductive: `CreditsAlone` (at most one request credits a given return, because completing
it is decided under its lock) and `RequestSound` (that request's return is completed, and none
of the lines it has left is credited yet; an invoice somebody is about to write exists). Most of
the work is arithmetic over sums, by the laws of `CountingProofs`. `OldestInvoicesFirst` follows
from what `Taken` leaves to an invoice when an older one is still owed. `LinesAreCreditedInFull`
adds that what is taken adds up to the amount if that much is owed (`TakenAddsUp`, from
`TotalGreedy`), that `applyCredit` refuses otherwise, and that the notes of a line credited for
a completed return are never rewritten.

**Settlement.** `SInv`: `SettledOnce` is not inductive alone. `AllocatesOnce` adds that at
most one request is about to allocate an intent, and only one not yet allocated;
`DecidesTruly`, that a request about to write `applied` saw the intent with the event's
result, which no step takes back. Both theorems are about `SettlementSpec` for any number of
calls, intents and events.

**Payments.** `PInv` is `BInv`, `SInv`, `RInv` for the refunds and `Paid` for the money that ties
the two together.
- `InvoicesPaidByIntents`: the invoices have received `Price` times the *number of intents* that
  were allocated, and each of these has succeeded. `SInv` says that the intent of an allocation
  has succeeded and was not allocated before, so the set of paid intents grows by one
  (`AllocationCounts`); an intent allocated twice would add `Price` and no intent. That it adds *all* of `Price` needs the order's invoices to owe that much,
  which `RecordPayment` requires; that `Total` counts it needs a bound on what one
  invoice has received (`Paid`), since it is history that no INT column holds. `Money` is
  therefore `Counting` with a wider integer, and its laws are an instance of `CountingProofs`.
- `RefundsAreApproved`: `RInv` says that a refund whose reversal a desk is about to write, or has
  written, is approved or applied, which no step takes back (`Stands`), and that a large one
  which is so was seconded.
- `PaymentsKeepTheBooks`, `AllocationsAreOldestFirst`, `CreditsStayInFull`: what `Billing` and
  `Settlement` guarantee alone survives their composition, because each step is one of theirs
  (an allocation is one of both). `PaymentsImplementsSettlement` states that as a refinement.
  `Billing` bounds its payments for TLC (`LastPayment`), the composition does not, so there the
  properties are carried over instead.

**Promotions.** `QInv` is `PromotionsTypeOK`, which says that a discount under way is at most the
cart's worth, with `DiscountsAddUp` and that nothing is edited before there is a promotion.
`DiscountsAreSharedOut` is arithmetic: rounded shares are at most their subtotals and together
at most the discount (`SharesRoundDown`: worth times the sum of the shares is at most discount
times worth, by `SubsetInduction`), there is a first largest subtotal (`LargestIsThere`), and it
takes exactly what is left; where this exceeds its subtotal, the CHECK refuses the order.

**Accounts.** `AInv` says of the row, *and of every row a request has read*, that it is verified only
if the code was presented and counts no more failures than there were; and of a request what it
has done itself (`wrongPassword`: one failure more than it read). `AccountFlagsAreEarned` follows:
a stale row that is written back can undo something, never invent it.

**Exports.** `EInv`: a job has one owner (`OneOwner`), was claimed exactly once if it is no longer
pending, and has its file if it is completed (`JobSound`); a worker's step says what the
status and the file of its own job are (`WorkerSound`).

**Tokens.** `TInv`: a family has one live token (`OneLive`), only tokens that were issued are live
(`LiveIsIssued`), and a row locked for rotation is live and locked by one request
(`LockedIsLive`), so that its successor takes the place of a token that worked.

**Version logs.** Numbers in use are always an initial segment (`MintedSoFar`,
`ReleasedSoFar`), so the count that the code uses as the next number is one. From that, both
refinements of `VersionLog` are proved in full: the initial state maps to the initial state,
and each step to `NewVersion` or a stutter.

`BackofficeTypeCorrect` and `MCPaymentsTypeCorrect` bring the type invariants of the components
together; a step of one component is a stutter of the others.

**Only model-checked**: the two liveness properties, `WebhooksSettle` and `EveryJobIsClaimed`, since
liveness under fairness and `ENABLED` are out of this prover's reach; and of course the four
violations, whose counterexamples TLC finds. No module declares a RECURSIVE operator.

## 7. Not modelled, and why

- Lock waits, deadlock detection, the connection pool: PostgreSQL aborts a victim, which is
  a rollback. A cancellation keeps one connection while the inventory takes a second.
- A lost acknowledgement of COMMIT in the checkout: with it, `fail()` would release the stock
  of an order that was placed. It is listed as a hazard.
- The credit gate, payment methods, reconciliation: the first is a reason for a checkout to be
  refused, on a figure nothing locks; the others are records and reports.
- Pricing: resolving a price reads tables and writes none the rest depends on. Clocks, lot
  expiry, identifiers and their formats.
- Catalog, erp, crm, platform, ai, the rest of cms and of identity: record keeping, rows with
  one status each that one request at a time updates. About a third of the Go code is
  generated by sqlc, most of it copies of one `models.go` in each package of queries.
- Messaging is best effort and not wired. Migrations, configuration, logging, health,
  storage: start-up and I/O. The Nuxt front ends are clients of the API.
