# Verification of the retail and café platform

TLA+ models of the parts of this repository that move money, stock, tables and
the right to write, TLC runs over small instances of them, and TLAPS proofs for
every instance. All paths below are relative to the repository; a bare file name
ending in `.ts` (`billing.ts`) is one of `src/apps/web/src/server/`, a bare one
ending in `.py` one of `src/backend/app/`.

    cd tla
    tlc -workers 2 -config MCTill.cfg MCTill            # a run
    tlapm BranchTillProofs.tla                          # a module of proofs

`PROJECT.json` lists the components, the runs, the lines each definition models
(`map`), the hazards of the code with the properties aimed at them, the findings
and the theorems.

## 1. The system

The repository holds two generations of one product.

* **The web server** (`src/apps/web/src/server`, TypeScript). Stateless handlers
  on MongoDB. Any number of invocations serve the two portals (retail, café) and
  the public QR pages at once; every change of business state is one MongoDB
  transaction (`query.ts:transaction`, and the same `withTransaction` calls in
  `billing.ts`, `closing.ts`, `inventory.ts`). Accounts are changed by single
  conditional updates.
* **The hub** (`src/backend/app`, Python). FastAPI on PostgreSQL, in the shop,
  with the same business rules under row locks, plus a durable outbox and inbox
  towards a cloud gateway, and a writer lease with epochs that decides which hub
  speaks for a branch.
* **User interfaces** (`src/frontend`, `src/apps/web/src/legacy`), which keep
  the keys under which a sale is sent again; migrations, deployment scripts and
  Power BI exports.

| component | its state | its operations | talks to | what is hard | what makes it correct | module |
|---|---|---|---|---|---|---|
| snapshot transactions (`query.ts`, `db.ts`) | the documents and their counters | begin, commit, abort, retry | everything | only write-write conflicts are detected | a handler may rely on what it read | SnapshotTxn |
| counter checkout, drafts, collections (`billing.ts`, `financial.ts`) | `invoices`, `invoice_payments`, `operation_keys`, stock | checkout, draft, issue, cancel, collect | ledger, closing, stock, café bill | the same request twice, two tills at once, midnight | one posting per request; paid + due = total; nothing oversold | BranchTill |
| credit ledger (`ledger.ts`) | `customers.outstanding_scaled`, ledger entries | post, account payment, adjustment | checkout, collection, void | balance written from the balance read | balance = unpaid invoices − payments on account; limit kept | BranchTill |
| closing of the day (`closing.ts`) | `business_day_closings` | open, submit, close, reopen | every collection | money counted and money taken at the same time | a submitted day counts all its money | BranchTill, DayBook |
| void (`governance.ts`) | `invoices`, `void_records` | void | ledger, closing | against a collection on the same invoice | nothing is owed on a void invoice | BranchTill, CafeFloor |
| café floor (`cafe.ts`, `catalog.ts`) | `cafe_tables`, `table_sessions`, `cafe_orders` | open, order, seven transitions, ask for the bill, close, edit, deactivate | billing, QR | one table, session and set of orders, each handler writing some of the three | table, session and orders agree | CafeFloor |
| café billing (`cafe-billing.ts`) | the same, and `invoices` | quote, bill, finalise at every collection | checkout, collection | quote, bill, cancel and order at once | every order charged once, none left out | CafeFloor |
| QR ordering (`public-cafe.ts`) | `qr_tokens`, `guest_access` | resolve, order, ask, rotate, revoke | floor | checks made before the transaction | a repeat stores one order; what is charged was quoted | CafeFloor |
| purchasing (`purchasing.ts`, `inventory.ts`) | `purchase_orders`, `inventory` | create, edit, submit, approve, mark ordered, receive, cancel, adjust | stock | partial receipts at once, with and without keys | on order = what remains on orders underway; goods received = stock moved | Purchasing |
| sign-in, MFA, step-up (`security.ts`, `accounts.ts`, `mfa-console.ts`) | `users`: token version, authenticator, recovery codes | sign in, log out, step up, enrol, confirm, remove, manage, console | every page | the account is read once and written later | a session carries today's authenticator; a code opens one session | Accounts |
| selling pages (`CafePOSPage`, `useCafeCart`, `POSPage`) | cart, the key of an attempt, session storage | sell, edit, send again, reload | server, accounts | an answer that is lost or late | a sale sent again is posted once | SaleDesk |
| hub outbox, inbox, dead letters (`sync/service.py`, `sync/worker.py`) | `sync_outbox`, `sync_inbox`, dead letters | record, send, retry, apply, revive | cloud gateway | crash between two transactions, late requests, backoff | every event applied once, in order, or shown as failed | HubSync |
| cloud mirror (`services/hc3_cloud_*`, `api/routes/hc3_cloud.py`) | cloud orders, events, commands | submit, pull, take an event | hub, guests | gaps and duplicates of versions | the guest sees the published statuses in order | CloudGateway, StatusFeed |
| hub café staff work (`services/cafe_staff_orders.py`) | orders, sessions | transitions, request of the bill, billing, closing | outbox | every status is published in its transaction | versions without a gap | HubSync |
| continuity (`services/continuity.py`, `api/routes/hc4_cloud.py`, `api/routes/cloud_gateway.py`) | the lease and its epoch, continuity state, references | acquire, heartbeat, expire, record, receive, reconcile | hub, cloud | a writer that lost its lease and does not know | one hub per epoch; references are taken once | Continuity, Fencing |
| hub café till (`services/cafe_billing.py`, `cafe_pos.py`, `cafe_staff_orders.py`, `cafe_bill_request.py`, `public_cafe.py`, `governance.py`) | sessions, orders, invoices, payments, ledger, the day's closing | open, place, move, ask, bill, check out, collect, void, count the day | outbox, retail counter | copies older than the locks, locks in different orders | a bill is its orders; paid is the sum of payments; a counted day stays counted | HubCafe |
| hub counter (`services/invoices.py`, `sales.py`, `inventory.py`, `customers.py`, `business_settings.py`) | invoices, sales, stock and movements, ledger, the number sequence | draft, issue, check out, cancel, collect, void, sell, adjust, settle | café till | some rows are locked, others are read and overwritten | numbers without a gap; one sale per invoice; stock falls by what is sold | HubRetail |
| hub purchase orders (`services/purchase_orders.py`) | orders, receipts | as `purchasing.ts` | stock | its locking query is refused by PostgreSQL | – | – |
| controlled purge (`governance.ts`) | `purge_requests`, tombstones | request, approve, execute | floor | two people, and billing in between | nothing billed is deleted | – |
| exact money (`money.ts`) | none | parse, format, multiply | all | rounding, the safe-integer bound | equals decimal arithmetic | – |
| catalogue, settings, reports, dashboards, planning, assistant, other pages, scripts | single documents, or none | edits and reads | | no protocol | | – |

## 2. What is modelled, module by module

### SnapshotTxn: the transactions of the web server

`db` is the committed database, one record whose fields stand for collections,
and `run` maps each busy handler to its open transaction: the request `op`, the
snapshot `snap`, the business date it read, and `missed`, the documents that
others committed since. `CommitTxn(h, W, next)` needs `missed` and `W` to be
disjoint (first committer wins), installs `next` and adds `W` to everybody
else's `missed`. A document that is only read is not protected: whether a
handler writes enough to be safe is what `CommitsAreSerial` and `FloorIsSerial`
ask.

* The driver's retry of a transaction is `Abandon` followed by `Begin` of the
  same request; so are a lost reply and the client that sends again.
* Nothing of a transaction is visible before its commit, so the handler's body
  is one action on its snapshot; its interleaving with others is fully
  represented by when it began and when it commits. `next` is built from the
  current `db` where the code uses `$inc`, `insertOne` or `$set` of single
  fields, and from `snap` where it writes a value it computed from its read
  (`Posted`, the balance of the ledger).
* A refusal writes nothing and is an `Abandon`. Counters of logs
  (`audit_events`, `stock_movements`), which nearly every handler writes, get no
  document: leaving a document out can only allow more interleavings.
* `closing.ts` and `inventory.ts` call `withTransaction` without asking for
  snapshot read concern. On a replica set a transaction reads from one storage
  snapshot all the same, and that is what is modelled.

### BranchTill and DayBook: the till of a branch

One branch, its invoices, its customers' balances, one product, its closings.
Actions are the handlers: `Checkout` (and `ReplayCheckout`, the early return for
a known key), `CreateDraft`, `CancelDraft`, `CollectPayment`, `VoidInvoice`,
`PayAccount`, `AdjustStock`, `Closing`, each split in `...Allowed` (checks in
the code's order of reads), `...Writes` (documents) and `...Effect`. `Midnight`
advances the business date at any time, also between the moment a checkout
looks at the closing and the moment it dates its payments (`Runs`).

| field | code |
|---|---|
| `closing[d]` | `business_day_closings` of day d: status, counted money |
| `invoice[i]` | `invoices`: status, `idempotency_key`, `request_hash`, customer, total, `paid_amount`, `balance_due` |
| `outstanding[c]`, `account[c]` | `customers.outstanding_scaled`; the sum of `customer_payments` |
| `stock` | `inventory.quantity_scaled` |
| `opkeys` | `operation_keys` |
| `booked[d]`, `stray[d]`, `received[i]` | sums over `invoice_payments` and `customer_payments`, split by whether the writer had checked the closing of the day the money is dated on |

History variables: `applied` (how often a request was committed) and `replies`
(what clients were told). Cash and other modes are one sum, taxes and lines are
one total, a request's id stands for its hash.

`DayBook` is the abstract closing without requests, transactions or documents:
money is collected into a day that is not finalised, submitting a day fixes its
count, only a reopened day changes. The two kinds of collection in the code that
do not look at the closing of their own day are in it as strays. `BranchTill`
implements it (`DayBookSpec`, checked by `till` and proved).

### CafeFloor: tables, sessions, orders, bills

The floor of a café branch on the same `SnapshotTxn`: `OpenSession`,
`PlaceOrder` (staff and guests), `MoveOrder` (the seven transitions),
`RequestBill`, `CloseSession`, `BillSource` (`loadCafeBill` and checkout),
`CollectBill`, `VoidBill`, `EditTable` (the catalogue's PUT), `DeactivateTable`,
`RotateQr`, `RevokeQr`, and outside transactions `Resolve` (a guest scans) and
`Quote` (a cashier looks). What the code checks *before* its transaction, the
guest's access and the table whose QR is rotated, is the action `Arrive`; the
transaction begins later (`Begin`), on another snapshot.

* An order is worth 1 and a bill the number of its orders. What a bill does to
  stock and credit is `BranchTill`'s, as both go through the same `checkout`.
* A handler with `expected_version` is refused unless it equals the version the
  transaction reads. A client may always have fetched that version a moment
  before, so the check by itself removes no behaviour; it matters where the
  client was *shown* something with the version. That is the quote, and the
  history variable `quoted` keeps what was shown.
* The closing of the day is not looked at here; it only refuses more.
* Not modelled: expiry of tokens and of guest access, throttling, menu
  availability, the roles a transition asks for.

### Purchasing: goods ordered and received

Also on `SnapshotTxn`. A line of an order is a product, so quantities are
functions on products. `CreateOrders` (one order, or the several of
from-recommendations in one transaction), `EditDraft`, `MoveOrder` (submit,
approve, mark-ordered, cancel), `ReceiveGoods` (partial receipts) and
`AdjustStock`. `stock[x].row` says whether the inventory row exists: the first
order or adjustment of a product inserts it and takes its id from a counter,
which is the only document two such handlers share. `moved[o]` sums the stock
movements that name order o. Keys are the `operation_keys` of the route and
order; a request without a key may be sent again and is applied again.

### Accounts: who may act

The `users` collection and the tokens handed out. A request reads the account
at its start (`Read…`, `Begin…`: the `row` of the request) and writes later
(`Finish…`), each write one conditional update on the account as it is *then*.
`version` is `token_version`, raised by whatever ends sessions; a session is
accepted (`Live`) while its version is the account's. A code is its secret and,
of an authenticator, its time step: `last` is the step used last, `recovery` the
secrets whose recovery code is unused (one code per secret). `stepped` is a step-up that has not lapsed. The console's
replacement of an authenticator is `ConsoleBegin` and `ConsoleConfirm`, each one
step. A wrong password or code and a login over the limit of attempts change
nothing that is modelled and are left out.

### SaleDesk: the pages that sell

The three pages, the network and a server that posts sales by key, on top of
`Accounts` (`EXTENDS`: the seller signs in and out and is transferred while he
sells). `desk[p]` is a page: its cart, its `attempt` (the key it holds, for which
sale and body) and the try it waits for. `wire` holds requests and the answers
that are waited for; a page that gives up (`NetworkError`, `Reload`) leaves its
request travelling. The pages differ in three operators only: `MayEdit`,
`Attempt` (when a key is kept) and `Reloaded` (what survives; the café's counter
keeps its attempt in session storage, which lives as long as the tab).

### CloudGateway, HubSync, StatusFeed: hub and cloud

`CloudGateway` is the cloud side: guests' orders and bill requests become
commands, statuses the hub publishes become events, one per version
(`ApplyLocalSyncEvent` with the answers of the code: applied, duplicate,
rejected). `HubSync` extends it with the hub: `inbox` and `outbox` with their
rows (`state`, `attempts`, `letter` for the dead letter), the worker's cycle
(`StartCycle`: heartbeat and pull; `ProcessInboxRow`; `StartOutbox`; `Send`;
`RecordAnswer`, `TimeOut`; `EndCycle`), `Crash` between any two of its
transactions, the staff's handlers, which publish in the same transaction, and
the operator's retry of a dead letter. The link may lose a request, lose its
answer, or deliver it after the worker gave up (`wire`, `HandleRequest`,
`LoseRequest`). Time is abstract: a row in backoff becomes due at some moment.

`StatusFeed` is the promise to a guest: published statuses appear in their
order, none skipped, none invented. HubSync implements it (`FeedSpec`).

The free choices stand for what is outside the model: `fit`, whether the menu
and QR codes of the hub still match an order; `up`, whether a handler meets an
unexpected exception. Checkpoints are written by the code and never read, and
nothing on the hub posts a receipt for a command, so neither is modelled.

### Continuity and Fencing: who may write

One scope, its hubs, the cloud's lease row and the references clients record.
`Heartbeat`, `HandleAcquire`, `Expire` follow the gateway; `Pull`, `Receive`,
`EndCycle`, `Persist` the worker and the state it keeps in its database;
`Restart` loses the epoch that was only in memory; `ReadState`, `Reconcile`,
`Retry` are the hub's API. A reference is checked against the lease and stored in
two steps, as the code reads the lease without locking it. `lease/renew` is never
called by the worker and is left out.

`Fencing` is what epochs promise: an epoch belongs to one hub, a hub acts under
an epoch it was given, what is recorded under an epoch is taken by its owner.
Continuity implements it (`FencingSpec`, checked by `lease` and proved).

### RowLocks: the transactions of the hub

One SQLAlchemy session per request on PostgreSQL, READ COMMITTED, no autoflush
(`db/session.py`). `db` is the committed database; `work[w]` is an open
transaction: its request `op`, the `version` the client was shown, the query it
is `at`, the rows it `saw` and those it has `locked`.

A handler is the list of its queries (`...Queries`), what lets it go on after
each (`...GoesOn`) and what its commit leaves (`...Effect`). Between two queries
anybody may commit. The point that is easy to get wrong, in the code as in a
model, is the session's identity map: a row that was loaded keeps its first
values even when a later query locks it (`Load`); only `db.refresh`, here
`Again` or `refresh |-> TRUE`, reads it again. `RollBack` is possible at any
moment and stands for refusals, constraints, crashes and for PostgreSQL ending a
deadlock, which needs no action of its own: two transactions that wait for each
other can both only roll back.

What the unique indexes refuse is a guard of the commit (`InvoiceIsNew`,
`SaleIsNew`, `NumberIsNew`, `OneActive`).

### HubCafe: the café's till on the hub

One table and one business day. The kinds of request are the handlers: `open`,
`close`, `place`, `move`, `ask` and `guest-ask`, `bill`, `checkout`, `collect`,
`void` and the four of the day. Three locks carry the money: the invoice in a
collection, the branch in everything that books money or counts the day
(`DayQuery`, which reads the closing again under it), the source and its orders
in a bill. `received` and `owed` are the sums of an invoice's payments and
ledger entries. A row like `KeyRow(k)` is what a query for that key finds.

Stock and credit of a café bill go through the code HubRetail models and are
left out here; so are the quote and the item rows, which follow their order.

### HubRetail: the counter on the hub

Invoices with one line of goods, the sequence their numbers come from, stock,
customers. Each request inserts rows of its own (payment, stock movement, ledger
entry, Sale) which nobody changes: `db.booked`, the requests that committed,
stands for them, and `Received`, `SalesOf`, `Outstanding` are sums over it. That
is why each request commits once at most; to send one twice, the instance has it
twice. `Written` is SQLAlchemy's UPDATE: it sets the columns the handler changed
in its copy and leaves the others, so that two unlocked handlers overwrite each
other column by column.


## 3. Runs

Handlers are interchangeable (symmetry), and two of them run at once wherever
interleaving matters: a conflict, a lost update, a stale check and a duplicated
request all need two, and more add no new kind of conflict, because the second
one to commit already meets every document the first has written. Several menus
of requests share a run; its `CONSTRAINT Menu` keeps each behaviour to one of
them, which keeps the state space the sum and not the product of the menus.
Deadlock is not checked: tills, floors and desks stop when the bounds are used
up, and a worker may be off for ever.

| run | instance | properties | shows |
|---|---|---|---|
| `till` | three menus. `DayMenu`: two days, a checkout of today, one with a client's date, a collection, open/submit/reopen. `CreditMenu`: two customers, a limit of 3, three checkouts of which two share a key, two collections, a void, an account payment. `StockMenu`: two units, a draft issued by two checkouts or cancelled, an adjustment, a closing | `InvoicesReconcile`, `LedgerReconciles`, `CreditLimitHolds`, `KeyedRequestsPostOnce`, `NoOverselling`, `StockReconciles`, `CommitsAreSerial`, `DayBookSpec` | money, stock, counts and keys agree under races and repeats; the till is a DayBook |
| `floor` | one table, four menus: two sessions in turn with two orders, competing bills, collection, void; a quote, orders and cancellations before its bill; a guest's order and its repeat with rotation, revocation, edit, deactivation; a takeaway order billed twice | `TableShowsItsSession`, `NothingArrivesAfterTheBillIsAsked`, `BillCoversItsSession`, `GuestOrdersAreStoredOnce`, `ChargedWithinQuote`, `FloorIsSerial` | a session from opening to settlement, guests against staff |
| `purchasing` | two handlers, two products, two menus: one order through its life with partial receipts and an edit; two orders created together that share a product without an inventory row | `OnOrderReconciles`, `GoodsReconcile`, `OrderedAsSubmitted` | what is announced, received and in stock agrees |
| `hub_sync` | two orders and a bill request, batches of 2, two attempts, every mishap | `SentIsMirrored`, `AcknowledgedIsImported`, `FailuresAreVisible`, `PublishedWithoutGap`, `FeedSpec` | nothing lost, doubled, reordered or silently given up |
| `hub_converge` | one order, misfits, exceptions and a lossy link, with fairness and an operator | `EverythingIsMirrored`, `CommandsAreAnswered` | what is published is mirrored in the end, commands are answered |
| `lease` | two hubs, one reference, two epochs | `EpochsAreExclusive`, `FencingSpec` | epochs fence |
| `lease_live` | one hub, three epochs, with fairness and an operator | `LeaseIsRegained`, `DeadLettersAreShown` | the lease comes back, failures are shown |
| `desk` | two accounts, three sessions, two enrolments, two time steps; the café's counter and a guest with two sales and three tries | `SessionsCarryTheFactor`, `CodesOpenOneSession`, `EndedForGood`, `UnconfirmedIsStored`, `SalesArePostedOnce` | sign-in races; a sale sent again is one sale |
| `hub_till` | two requests at a time, two stories: a table with two orders from opening to settlement, two bills under two keys, part payments, the kitchen, the request for the bill, closing by hand; a day with a counter order, two checkouts, a bill on credit, a collection, a void and all that turns the day | `BillsCoverTheirOrders`, `CafeInvoicesReconcile`, `OrdersAreNotOverwritten`, `NothingIsCollectedAfterTheCount` | the locks of the café's till are enough for its money |
| `hub_counter` | two requests at a time, two invoices of one product with three units in stock, a third of another product; a draft issued twice and cancelled, checkouts for cash and on credit, collections, a void, a sale, an adjustment | `NumbersHaveNoGap`, `InvoicesAreSoldOnce`, `SalesTakeWhatTheyMove` | what the counter locks stays right among handlers that lock nothing |
| `pos_retry`, `hub_payment` | as above, smaller | one each | the findings of section 5 |

Bounds, all constants: `MaxInvoice`, `MaxSession`, `MaxOrder`, `MaxToken`,
`MaxSecret`, `MaxSessions`, `MaxSales` cap the counters (a handler that would pass
one is not taken), `LastDay`, `MaxStep` and `MaxEpoch` time, `MaxPosts` how often
a request without a key is applied, `MaxTries` how often a page sends, `MaxVersion` how far
the staff move an order or a token version is raised on request. Two invoices
are what it takes for two to share a customer, a key or the stock; two days, for
money to slip from one to the other; two orders, for one of a session to be
missed or doubled; two sessions, for a table to be left pointing at the first;
two attempts, for a row to be retried by itself and then by the operator; two
epochs, for a hub to hold one that is over; three tries, for a late request to
arrive between two others.

`MCHubSync!Menu` lets inbound and outbound attempts fail in separate behaviours
and the second order in only where none fails: the two queues share no row, and
a row's failures do not depend on another order's. `MCHubCafe!OneStory` keeps a
behaviour of the hub's till to a table or to a day: the two share the invoice
numbers and the closing only, and the day's story has bills and collections of
its own to cross the count with. In HubCafe a request may be sent any number of
times (versions, keys and statuses refuse the repeat), in HubRetail it commits
once and a repeat is a second request.

The type invariants of the till, the floor, the accounts and the lease are not
listed with the runs: they are proved (section 4), and so are `RepliesAgree`,
`FinalisedCountCoversBooked` and `ReferencesAreReceivedOnce`.

Fairness. No safety property uses any. `HubSync!WorkerFairness` is what
`run_forever` does: its loop takes its next step (weak fairness of `WorkerStep`),
backoffs end, and the link works now and then: a cycle that can begin with the
cloud in reach does so again and again, a row that is sent again and again
reaches the cloud and its answer comes back (strong fairness, per row). Crashes
are left out of the instances with fairness, as a worker that is killed for ever
does nothing. `OperatorFairness` is somebody who retries open dead letters; the
code gives up by design after `MaxAttempts`. In `Continuity` likewise: the
cycles go on, a heartbeat and an acquisition are answered again and again, and
`AttendedSpec` has an operator who restarts a worker whose heartbeats are
refused; without him such a worker never asks for the lease again (section 5).

Each property of a passing run has a mutant in its module: the definition as a
plausible bug would leave it (a document not written, a guard dropped, a version
not raised), placed before the original and commented `Mutant:`. TLC finds the
property violated with each.

## 4. Proofs

| theorem | module | says, for all constants |
|---|---|---|
| `TypeCorrect` | BranchTillProofs | `TypeOK` of the till is invariant |
| `TillInvariant` | BranchTillProofs | the inductive invariant `TillInv` |
| `FinalisedCountsHold` | BranchTillProofs | `FinalisedCountCoversBooked` |
| `NeverOversold` | BranchTillProofs | `NoOverselling` |
| `Serialisable` | BranchTillProofs | `CommitsAreSerial` |
| `ImplementsDayBook` | BranchTillProofs | `DayBookSpec`: the till implements DayBook |
| `InvoicesBalance` | BranchTillProofs | `InvoicesReconcile` |
| `CreditNeverExceeded` | BranchTillProofs | `CreditLimitHolds` |
| `KeysPostOnce` | BranchTillProofs | `KeyedRequestsPostOnce` |
| `AnswersAgree` | BranchTillProofs | `RepliesAgree` |
| `LedgerAlwaysReconciles` | BranchTillProofs | `LedgerReconciles` |
| `StockAlwaysReconciles` | BranchTillProofs | `StockReconciles` |
| `FloorTypeCorrect` | CafeFloorProofs | `TypeOK` of the floor |
| `FloorInvariant` | CafeFloorProofs | the inductive invariant `FloorInv` |
| `EveryCommitIsSerial` | CafeFloorProofs | `FloorIsSerial` |
| `TablesAlwaysShow` | CafeFloorProofs | `TableShowsItsSession` |
| `AskedSessionsAreFrozen` | CafeFloorProofs | `NothingArrivesAfterTheBillIsAsked` |
| `BillsAlwaysCover` | CafeFloorProofs | `BillCoversItsSession` |
| `ChargesAreWithinQuotes` | CafeFloorProofs | `ChargedWithinQuote` |
| `GuestOrdersOnce` | CafeFloorProofs | `GuestOrdersAreStoredOnce` |
| `LeaseTypeCorrect`, `LeaseInvariance` | HubProofs | the type and the inductive invariant `Inv` of lease, hubs and references |
| `ExclusiveEpochs` | HubProofs | `EpochsAreExclusive` |
| `ReferencesReceivedOnce` | HubProofs | `ReferencesAreReceivedOnce` |
| `Fences` | HubProofs | `FencingSpec`: Continuity implements Fencing |
| `AccountsTypeCorrect` | AccountsProofs | `AccountsTypeOK` |
| `SessionsCarryTheFactorAlways` | AccountsProofs | `SessionsCarryTheFactor` |
| `CodesOpenOneSessionAlways` | AccountsProofs | `CodesOpenOneSession` |
| `SessionsEndForGood` | AccountsProofs | `EndedForGood` |
| `DeskInvariant` | AccountsProofs | the inductive invariant `DeskInv` of the pages that sell |
| `UnconfirmedSalesAreStored` | AccountsProofs | `UnconfirmedIsStored` |
| `SalesAreAlwaysPostedOnce` | AccountsProofs | `SalesArePostedOnce`, where no retail page sells |
| `PurchasingInvariant` | PurchasingProofs | the inductive invariant `PurchasingInv` |
| `AnnouncementsReconcile` | PurchasingProofs | `OnOrderReconciles` |
| `GoodsAlwaysReconcile` | PurchasingProofs | `GoodsReconcile` |
| `SubmittedOrdersStay` | PurchasingProofs | `OrderedAsSubmitted` |
| `LocksHold` | HubCafeProofs | the inductive invariant `Inv`: a locked row has one owner, a copy read under its lock stays current |
| `OrdersAreSafe` | HubCafeProofs | `OrdersAreNotOverwritten` |
| `DayIsSealed` | HubCafeProofs | `NothingIsCollectedAfterTheCount` |
| `BillsInvariant` | HubCafeProofs | the inductive invariant `BillsInv` |
| `BillsAlwaysCoverOrders` | HubCafeProofs | `BillsCoverTheirOrders` |
| `CafeInvoicesAlwaysReconcile` | HubCafeProofs | `CafeInvoicesReconcile` |
| `RetailInvariance` | HubProofs | the inductive invariant `RetailInv` of the hub's counter |
| `InvoiceNumbersAreConsecutive` | HubProofs | `NumbersHaveNoGap` |
| `InvoicesSoldOnce` | HubProofs | `InvoicesAreSoldOnce` |
| `SalesMoveStock` | HubProofs | `SalesTakeWhatTheyMove` |
| `SyncInvariant` | HubSyncProofs | the inductive invariant `SyncInv` |
| `SentRowsAreMirrored` | HubSyncProofs | `SentIsMirrored` |
| `AcknowledgedCommandsAreImported` | HubSyncProofs | `AcknowledgedIsImported` |
| `FailuresStayVisible` | HubSyncProofs | `FailuresAreVisible` |
| `VersionsHaveNoGap` | HubSyncProofs | `PublishedWithoutGap` |
| `GuestsFollowTheCafe` | HubSyncProofs | `FeedSpec`: HubSync and CloudGateway implement StatusFeed |

They assume the named assumptions of the modules: that bounds are numbers and
requests are requests, that a request's id stands for its body (the code compares
hashes; two bodies with one hash are left out), that `Nobody` is no hub and the
owner an account, that an order and a bill request are different things, and, for
the sums, that the requests, on the hub the orders, are finitely many
(`FiniteRequestAssumption`, a part of `PurchasingAssumption` and of
`HubCafeAssumption`). Any number of handlers, customers, tables, requests, invoices,
sessions, days, hubs, epochs and accounts.

**The till.** None of the properties is inductive: a commit uses a snapshot, so
the invariant must say what a snapshot is worth. `TillInv` is the conjunction of

* `TypeOK`;
* `Sound(db)`: invoice numbers above the counter are unused, no day has a
  closing before it begins, a finalised day's count is its booked money plus at
  most its strays, stock is not negative;
* `SeenInv`: for every open transaction, the part of its snapshot that belongs
  to a document it has *not* missed is still the committed state;
* `ClockInv`: a transaction's date is not in the future and no closing in its
  snapshot is later than that date.

Each handler has three lemmas: `...Covers` (it writes a document for everything
it changes, which keeps `SeenInv` for the others), `...Sound` (it keeps
`Sound`, because by `ReadsCurrent` what it read of the documents it writes is
current), `...Alone` (its checks and effect on the snapshot are those on `db`).
The closing needs one thing more: it and every checked collection write the
branch document (`writableDay` increments `branches.write_version`), so the sum
a submit reads is current. Payments on account do not, which is why `stray` is
in the statement. `ImplementsDayBook` maps each commit to a step of DayBook or
to a stutter.

The second half of BranchTillProofs uses serialisability instead of repeating it: by the `...Alone`
lemmas every commit is one of a handler that ran by itself on `db` (`Solo`), so
the invariants below need to be shown for solo runs only.

* `BooksInv`: of every invoice, what `InvoicesReconcile` says of an issued one
  and that a draft, an unused number and a void one have no money due
  (`SumsRight`); of every customer, the limit. That a draft has received nothing
  is what makes issuing it keep the sum.
* `KeysInv`: every committed keyed request left its mark, in `opkeys` or as the
  key of an invoice (`AppliedKeys`); no two invoices share a key
  (`InvoiceKeys`); every answer names an invoice of that request which has a key
  (`ToldKeys`); and a key that a snapshot shows is still there (`SnapKeys`),
  because an invoice that has a key keeps it and a key is never deleted. The last
  one is for `ReplayCheckout`, which answers from its snapshot and commits
  nothing, so no conflict protects it.

* `SumsInv`: a customer's balance is the sum of the claims of all invoices on that
  customer less what was paid on account, and the stock is the opening stock with
  every commit counted. A solo run changes one invoice and one balance, so each
  handler's lemma compares two terms: `OwedChanges` says that a sum with one term
  replaced changes by the difference.

**Sums.** Sums.tla states what these proofs need of `MapThenSumSet`: the sum over a
finite set is the one number that every order of taking its elements leads to
(`SumIs`), a set with one more element has its term more (`SumTake`), one changed
term changes the sum by its change (`SumChange`), terms that are zero may be left
out (`SumPart`). The library's induction over finite sets has an operator as
parameter; here induction is over a set of subsets (`SetSteps`), from the least
number that would fail.

**The floor.** For each handler CafeFloorProofs says what its commit leaves,
field by field (`...Leaves`), that this is a database, and that the step keeps
`FloorShape`: `TypeOK`, and that a live token names a table (`TokensHaveTables`,
for the guest's scan). `FloorInv` adds

* `SeenInv`: what an open transaction read of a document it has not missed is
  still so. Unlike the till's handlers, those of the floor read documents they do
  not write: a bill reads every order of its session and writes those that count.
  So a snapshot is also related to the database by `Later`: an order that was
  rejected, cancelled, billed or closed never comes back from there, and a token
  keeps its table and does not come to life again. These are exactly the orders
  and tokens that are read and left alone, and the `...Alone` lemmas need no more
  to show that every commit is one of a handler that ran by itself;
* `Sound`: numbers are handed out in order (`Numbered`); a table and its live
  session point to each other (`TablesShow`); a session whose bill was asked for
  has no order in preparation (`AskedStaysAsked`); an order is billed or closed
  just when a bill charges it (`ChargedOnBills`), and a bill charges the orders
  that count and has their status and the session's, whose version is beyond the
  one it was billed at (`BillsCover`); a guest's stored order has left its key
  and is the only one (`GuestKeys`); a quote of the current version shows every
  order that counts (`QuotesShow`). The properties alone are not inductive:
  `BillCoversItsSession` survives a collection only because no other bill charges
  the same orders, `ChargedWithinQuote` survives a bill only because quotes of
  its version are complete.

By serialisability the `...Sound` lemmas need to look at handlers that run alone
only. Two facts about the inputs are used and assumed by name in CafeFloor: the
value for "no table" is not a table, and a guest's Idempotency-Key is not the id
the model gives to an order of the staff.

**The lease.** `Inv` is `TypeOK`, `LeaseInv` (the row carries the last epoch
granted and its owner), `HubInv` (an epoch a hub knows, in memory or database,
was granted to it; its memory is not ahead of its database), `ReferenceInv`
(what is checked or stored carries an epoch that exists), `InboxInv` and
`ReceiptInv` (what was received carries an epoch of its receiver). A lease request
on the wire carries an epoch too, and that is where a late one could harm: its
epoch is one of its sender's. Every action is first reduced to what it does to
the fields the invariant reads (`Delta`), and the invariant is shown for `Delta`
once. The refinement maps a grant to `Grant` or, heard at once, to `Learn`.

**Accounts.** The token version dates every fact. `AccountsInv` is
`AccountsTypeOK`, `RecoveryInv` (recovery codes are those of the
authenticator), `SecretsApart` (no two accounts share a secret), `SessionInv` (a
session whose version is the account's was opened with its authenticator and with
a code that is consumed), `OnceInv`, `LoginInv` (a login underway whose version is
still current read what is still true) and `ConfirmInv`. What
changes role, activity or authenticator raises the version (`Grown`), so that
every older session and login falls out of the invariant's reach at once. Again
every action is reduced to a `Delta`, `DeltaKeepsInv` is proved once, and `Kept`
gives the action property.

**The pages that sell.** `DeskInv` is `PagesInv` (no two pages have the same sale on
their counter), `WireInv` (only the request that a page waits for is answered, and
the cafe's counter holds the attempt it waits for), `KeysInv` and `CounterInv`.
`KeysInv` is about every attempt that a page holds, that is underway or that was
posted: a key stands for one of them; while its page still has the sale in its
cart, the key was given up or is the one the page will send again; so of two
attempts at one sale one was given up. `CounterInv`: what the cafe's counter has
sent it holds, until it has been told how it went. Each action changes one page or
the wire (`Forward`), and whatever the accounts do changes neither. The second
theorem has the hypothesis that no retail page is open, because that page does
post a sale twice: run `pos_retry` finds it, and the rule of keys is stated for
the other two pages only.

**Purchasing.** A handler writes every order that it changes, so the order it read is
the order that is there when it commits (`Seen`, `SnapIsCurrent`); the stock rows are
changed in place. `PurchasingInv` is `ShapeInv` (types, unused numbers, `Seen`),
`OrdersInv` (of one order: received and remaining add up to ordered, what was
received is what was moved into stock, a received order has nothing left, one with
receipts was ordered) and `StockInv` (every product's announced stock is the sum of
what the open orders bring, its stock on hand the sum of what came and was
adjusted). Every handler changes one order (`OneOrderStep`), hence one term of each
sum, by what it adds to the stock row: `MovedOnIs`, `ArrivedIs` and `CreatedIs` say
by how much, `ComingChanges` and `CameChanges` that the sum follows.

**The hub's till.** What a transaction knows is worth something only for rows it
has locked, and only if it had not loaded them before. `Inv` of HubCafeProofs
says so for the rows that matter: `LocksAreExclusive`; `OrderInv` (an order is
loaded exactly when it is locked, and its copy is the committed row), which
gives `OrdersAreSafe`; `ClosingInv` and `BranchInv` (past its `DayQuery` a
request holds the branch and its copy of the closing is the committed one),
which gives `DayIsSealed`: whoever adds a payment holds the branch and has seen
the day open, so it is open. `MoveInv`, `SourceInv` and `CollectInv` say that a
handler finds the rows it writes among those it has read. A query keeps all of
this because it takes the lock and the value in one step, a commit because it
writes no row another has locked.

**The hub's bills.** `BillsInv` adds to `Inv` the books and what is known of them by
those who will change them. `BooksRight`: of every invoice, its payments, balance,
status and debt (`InvoicesRight`); of every order, that it is billed just when it
points at an invoice, which was made for it or for its session and is not paid while
the order is open (`OrderRight`); of every bill, that its total is the price of the
orders that point at it. `ReadInv`: an invoice that is collected or voided exists; the
invoice that a collection has read it has locked, and its copy is current
(`HeldInv`), which is why two collections, or a void in between, do not spoil
`paid_amount`; the orders a bill has read are those of its source (`BillReadInv`);
and at its last query a collection has read every order on its bill
(`CollectReadInv`), which is why none stays open behind a paid one. A void reads its
invoice without a lock; it assigns status and balance only, and the payments are not
its business. `Kept` is what every commit leaves to the requests still underway, and
two lemmas serve all handlers: `UnbilledKeep` for those that move orders that are not
billed, `NewBillKeeps` for the two that make a bill.

**The hub's counter.** Some rows are locked here before they are read and some are
read without any lock; `RetailInv` of HubProofs says what each is worth. Besides the
types (`RetailShape`, `RetailWork`):

* `SequenceInv`: a request knows a number only while it holds the sequence, and the
  number is `next_number`. With it `NumbersInv`, the property and that the numbered
  invoices are finitely many, is inductive: who gives up takes his lock and his
  number with him;
* `StockInv`: a request other than an adjustment knows a product's stock only under
  its lock, so the value is current when it commits. Adjustments read without a lock
  and may overwrite a sale's stock; they sell nothing, which is why
  `SalesTakeWhatTheyMove` is about the step of a sale and is not a sum over all.
  `StockReadInv`: a sale has read the stock it takes;
* `CopyInv`: an invoice is copied without a lock, and the copy may be stale. The
  invoice exists, and if the copy shows it sold then it was sold: of everything in
  the copy only that cannot be undone, because a Sale is never taken back;
* `SalesInv`: an invoice has one Sale at most, none while it does not exist, and one
  when its status says so. The unique sale number, which is made of the invoice's, refuses the
  second; `CopyInv` is needed where a stale copy is written back over the status.

Every commit is reduced to `RetailKeeps`, what it leaves to the requests underway.
The theorem on stock is proved for the single request that a commit books
(`OneBooked`, `SaleMoves`).

**The synchronisation.** Nothing is sent once only, so what counts is what a
repeated or late request can find. `SyncInv` of HubSyncProofs is `TypeOK` and

* `WorkerInv`: what the worker holds are rows of the queue it works on, and it
  has an answer only while it waits for one;
* `LogInv`: an order's log in the cloud is numbered from 1 without a gap and
  consists of its submission and of uploads of that order;
* `CommandInv`, `ImportInv`: an order has one command at most; the hub has an
  order only by its command, and publishes only orders it has;
* `UploadInv`: the k-th upload of an order has version k + 1
  (`PublishedWithoutGap`), and until it is billed an order has as many uploads as
  its row has versions. Billing raises the row's version without publishing, and
  the second half stops there, which is enough because no transition leaves a
  billed order;
* `AnswerInv`: an answer "applied" or "duplicate" means that the row is in the
  log; and the three properties on sent rows, acknowledgements and failures.

The step that matters is `AnswerMeans`: the gateway knows a duplicate by its
version only, and a version in the log is that of an upload of the order; two
uploads with one version have one rank (`UploadRanks`), so it is the same row.
`RankExists` is the fact about finite sets this needs: the elements of a set with
n distinct numbers have the ranks 0 to n - 1. Every act of the hub that publishes
is reduced to `Publishes(P, s)`, one upload for every order of P, and
`PublishedOnce` says what that does to the ranks. The refinement reads an order's
published statuses by rank: an act that publishes is a `Publish`, a request the
cloud applies is a `Take`, every other step a stutter.
Only model-checked: liveness under fairness (`EverythingIsMirrored`,
`CommandsAreAnswered`, `LeaseIsRegained`, `DeadLettersAreShown`), which the provers do
not reach. HubProofs holds the proofs of two components, Continuity and HubRetail,
which share no variable.

## 5. Findings

Disagreements of the code with a document of the repository, each a run that
ends in a counterexample:

* `pos_retry`: the retail page's payload holds the time of the click
  (`POSPage.tsx:288`), so a retry after a lost answer has another payload, takes
  another key and is a second sale.
* `hub_payment`: the hub's collection of a retail invoice reads the invoice
  without a lock (`services/invoices.py:1008`) and writes `paid_amount` and
  `balance_due` computed from that copy (1026). Of two collections at once both
  payments are stored and one is not counted, so that the balance can be
  collected again. The café's collection locks the invoice.

Seen while modelling, and part of the models without a run of their own. On the
web server:

* a checkout looks at the closing of the client's `invoice_date`
  (`billing.ts:340`) and dates its payments by the clock (`billing.ts:417`). A
  draft of an open earlier day, paid today, adds money to today after today was
  counted; in DayBook it is a stray;
* a payment on a customer's account, a draft, a manual adjustment and a receipt
  of goods without a key are applied again when they are sent again
  (`ledger.ts:175`, `purchasing.ts:221`);
* cancelling an order does not change the version of its session
  (`cafe.ts:370`), which is all a bill compares with its quote: it may charge
  less than was quoted, never more (`ChargedWithinQuote`);
* a guest's access is checked before the transaction (`public-cafe.ts:211`), so
  an order may be stored after its token was revoked or its table disabled;
* voiding the unpaid bill of a session (`governance.ts:70`) leaves orders,
  session and table as billed; nothing can settle, cancel or close them.

On the hub and the cloud:

* an event that overtakes another answers 409, which the hub takes for
  permanent (`hc3_cloud_orders.py:511`): it ends as a dead letter, visible
  (`FailuresAreVisible`) and mirrored only when an operator retries it;
* `pull_commands` returns the oldest commands that nobody acknowledged
  (`api/routes/hc3_cloud.py:76`), and only the import of an order acknowledges
  one. Bill requests, references and failed orders can fill the batch for good;
* a hub whose lease request was granted and whose answer was lost keeps its old
  epoch in memory, and every later heartbeat is refused with it
  (`api/routes/cloud_gateway.py:195`) before it comes to ask again, until
  somebody restarts it;
* a bill that is sent twice at once is refused the second time instead of
  answered with the first invoice, because its key is looked up before its
  source is locked (`services/cafe_billing.py:877`);
* a guest's request for the bill loads the session before it locks it
  (`services/public_cafe.py:578`, 596) and may give a table that was closed in
  between the status `bill_requested`; an order may likewise be placed after the
  bill was requested or made (`services/cafe_order_engine.py:80`);
* a void records as its compensation the payment of an unlocked copy of the
  invoice (`services/governance.py:198`), which a collection in between has
  outdated;
* a stock adjustment reads without a lock and writes what it computed
  (`services/inventory.py:278`): a sale in between stays in the movements and
  disappears from the quantity;
* two drafts of one customer, with different goods, issued on credit at once
  both pass his limit (`services/customers.py:564`);
* the retail route collects café invoices as well, and looks at no closing
  (`services/invoices.py:999`).
## 6. Not modelled, and the plan

Not modelled because there is no protocol in it: catalogue and settings edits of
single documents, reports, dashboards, planning, the assistant, exports, pages
that only show or send single requests, deployment, migrations.
`consistency.ts` only reads; what it compares is what `InvoicesReconcile` and
`LedgerReconciles` state. The exact arithmetic of `money.ts` is on arbitrary
integers and has no state; the models count in whole units.

Not modelled though there is a protocol, with the hazards it has in
`PROJECT.json`:
* the hub's purchase orders: every transition loads its order with
  `FOR UPDATE` and outer joins to optional rows in one statement
  (`services/purchase_orders.py:195`), which PostgreSQL refuses and the SQLite of
  the tests ignores. There is no behaviour under concurrency to be faithful to;
* of the hub's services, taxes, the editing of number sequences, step-up and the
  transfer of a table;
* the controlled purge: every step is a guarded update of one request document,
  and the purge refuses a billed order inside its transaction;
* two owners who demote each other at the same moment (`accounts.ts`): each is
  allowed by what it reads. The model has one owner at the start and lets him
  promote another, and states nothing about how many remain;
* expiry of tokens, of guest access and of pending enrolments, rate limits, the
  count of login attempts: they only refuse more.

Plan: the controlled purge against billing on `CafeFloor`.
