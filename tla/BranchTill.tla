----------------------------- MODULE BranchTill -----------------------------
(***************************************************************************)
(* The financial core of one branch: counter checkout, drafts, collections *)
(* on an invoice, audited voids, customer account payments, manual stock   *)
(* adjustments and the business-day closing, as the handlers of            *)
(* apps/web/src/server run them in MongoDB snapshot transactions.          *)
(*                                                                         *)
(* A request is one intention of a user (one click, one request key).  The *)
(* network may deliver it any number of times, to any handler, in any      *)
(* order: a reply may be lost and the client then sends the request again. *)
(***************************************************************************)
EXTENDS SnapshotTxn, Integers, FiniteSetsExt

CONSTANTS
    Requests,       \* the requests the clients may send
    Customers,      \* customers with a credit account
    NoCustomer,     \* a sale to nobody in particular
    CreditLimit,    \* customers.credit_limit, the same for all
    OpeningStock,   \* inventory.quantity_scaled at the start
    MaxInvoice,     \* bound on the invoice counter
    LastDay,        \* bound on the calendar
    MaxPosts        \* bound on how often one keyless request is applied

Invoices == 1..MaxInvoice
Days     == 1..LastDay
NoDate   == 0           \* a checkout body without invoice_date
NoKey    == 0           \* the key of an invoice no checkout has issued
RequestId == Nat \ {0}

ASSUME TillAssumption ==
    /\ NoCustomer \notin Customers
    /\ CreditLimit \in Nat /\ OpeningStock \in Nat
    /\ MaxInvoice \in Nat  /\ LastDay \in Nat \ {0} /\ MaxPosts \in Nat

(***************************************************************************)
(* The requests.  A checkout that issues a draft names it; `date' is the   *)
(* invoice_date the client put in the body.                                *)
(***************************************************************************)
SaleRequests ==
    [kind: {"sale"}, id: RequestId, key: Nat \ {0},
     customer: Customers \cup {NoCustomer},
     total: Nat \ {0}, paid: Nat, quantity: Nat,
     date: Days \cup {NoDate}, draft: Invoices \cup {0}]
DraftRequests   == [kind: {"draft"}, id: RequestId]
CancelRequests  == [kind: {"cancel"}, id: RequestId, invoice: Invoices]
CollectRequests == [kind: {"collect"}, id: RequestId, key: Nat \ {0},
                    invoice: Invoices, amount: Nat \ {0}]
VoidRequests    == [kind: {"void"}, id: RequestId, key: Nat \ {0},
                    invoice: Invoices]
AccountRequests == [kind: {"account"}, id: RequestId, customer: Customers,
                    amount: Nat \ {0}]
AdjustRequests  == [kind: {"adjust"}, id: RequestId, change: Int \ {0}]
DayRequests     == [kind: {"open", "submit", "close", "reopen"}, id: RequestId,
                    date: Days]

ASSUME RequestAssumption ==
    Requests \subseteq
        SaleRequests \cup DraftRequests \cup CancelRequests \cup
        CollectRequests \cup VoidRequests \cup AccountRequests \cup
        AdjustRequests \cup DayRequests

\* StockReconciles adds up over all requests.
ASSUME FiniteRequestAssumption == IsFiniteSet(Requests)

\* The id of a request is its identity: other bodies are other requests.
ASSUME RequestIdAssumption == \A q, r \in Requests : q.id = r.id => q = r

VARIABLES
    today,      \* the business date (Asia/Kolkata) of the wall clock
    applied,    \* history: how often a request that posts was committed
    replies     \* history: <<sale request, invoice>> a client was told

vars == <<db, run, today, applied, replies>>

(***************************************************************************)
(* Documents.  `due' and `paid' are the invoice's balance_due and          *)
(* paid_amount; `key' is its idempotency_key and `request' stands for its  *)
(* request_hash.                                                           *)
(***************************************************************************)
InvoiceStatus == {"none", "draft", "credit", "partial_paid", "paid", "cancelled"}
DayStatus     == {"none", "open", "submitted", "closed", "reopened"}

NoInvoice == [status |-> "none", key |-> NoKey, request |-> 0,
              customer |-> NoCustomer, total |-> 0, paid |-> 0, due |-> 0]
NoClosing == [status |-> "none", count |-> 0]

(***************************************************************************)
(* The database.  The last four fields are sums over document collections: *)
(* booked[d] and stray[d] together are the money of the invoice_payments   *)
(* and customer_payments whose payment_datetime falls on d (stray[d] is    *)
(* the part whose writer did not check the closing of the day it collected *)
(* on), received[i] is the money of the invoice_payments of invoice  *)
(* i and account[c] the money of c's customer_payments.                    *)
(***************************************************************************)
EmptyDb ==
    [closing     |-> [d \in Days |-> NoClosing],
     invoice     |-> [i \in Invoices |-> NoInvoice],
     lastInvoice |-> 0,
     outstanding |-> [c \in Customers |-> 0],
     stock       |-> OpeningStock,
     opkeys      |-> {},
     booked      |-> [d \in Days |-> 0],
     stray       |-> [d \in Days |-> 0],
     received    |-> [i \in Invoices |-> 0],
     account     |-> [c \in Customers |-> 0]]

Init ==
    /\ db = EmptyDb
    /\ run = [h \in {} |-> 0]
    /\ today = 1
    /\ applied = [r \in Requests |-> 0]
    /\ replies = {}

\* Names of the documents a transaction may conflict on.
BranchDoc       == <<"branch">>
StockDoc        == <<"inventory">>
InvoiceCounter  == <<"counter", "invoices">>
LedgerCounter   == <<"counter", "customer_ledger">>
InvoiceDoc(i)   == <<"invoice", i>>
CustomerDoc(c)  == <<"customer", c>>
ClosingDoc(d)   == <<"closing", d>>
KeyDoc(k)       == <<"operation_key", k>>
\* Mutant: the balance is posted without holding the customer's document.
LedgerDocsUnlocked(c) == {}

LedgerDocs(c)   == IF c = NoCustomer THEN {} ELSE {CustomerDoc(c), LedgerCounter}

\* A sum grows by n at x: one more document to add up.
Plus(f, x, n) == [f EXCEPT ![x] = @ + n]

\* Mutant: only a closed day stops a collection, a submitted one does not.
FinalisedWhenClosed(c) == c.status = "closed"

Finalised(c) == c.status \in {"submitted", "closed"}

\* postLedger: the new balance comes from the transaction's own read.
Posted(cur, snap, c, delta) ==
    IF c = NoCustomer THEN cur
    ELSE [cur EXCEPT ![c] = snap[c] + delta]

\* The operation_keys _id: the action (route) is part of the digest.
OpKey(r) == <<r.kind, r.invoice, r.key>>
Replayed(t) == OpKey(t.op) \in t.snap.opkeys

-----------------------------------------------------------------------------
(***************************************************************************)
(* POST pos/checkout, cafe/billing/pos/checkout and invoices/:id/issue.    *)
(***************************************************************************)
\* Mutant: the lookup includes the body, so a key may be used with two bodies.
ExistingInvoicesOfBody(t) ==
    {i \in Invoices : /\ t.snap.invoice[i].key = t.op.key
                      /\ t.snap.invoice[i].request = t.op.id}

ExistingInvoices(t) ==
    {i \in Invoices : t.snap.invoice[i].key = t.op.key}

\* The day whose closing the checkout looks at: the client may choose it ...
LockDate(t) == IF t.op.date = NoDate THEN t.day ELSE t.op.date
\* ... while its payments are dated by the clock.
ChecksItsDay(t) == LockDate(t) = t.day

\* Mutant: the balance is checked before this sale is added to it.
WithinCreditBefore(t) ==
    t.op.paid < t.op.total =>
        /\ t.op.customer # NoCustomer
        /\ t.snap.outstanding[t.op.customer] <= CreditLimit

WithinCredit(t) ==
    t.op.paid < t.op.total =>
        /\ t.op.customer # NoCustomer
        /\ t.snap.outstanding[t.op.customer] + t.op.total - t.op.paid
             <= CreditLimit

SaleAllowed(t) ==
    /\ ExistingInvoices(t) = {}
    /\ t.op.draft # 0 => t.snap.invoice[t.op.draft].status = "draft"
    /\ t.op.draft = 0 => t.snap.lastInvoice < MaxInvoice
    /\ ~Finalised(t.snap.closing[LockDate(t)])
    /\ t.op.paid <= t.op.total
    /\ WithinCredit(t)
    /\ t.op.quantity <= t.snap.stock

SaleInvoiceId(t) ==
    IF t.op.draft = 0 THEN t.snap.lastInvoice + 1 ELSE t.op.draft

\* Mutant: the stock is decremented outside the transaction's conflicts.
SaleWritesStockFree(t) ==
    {BranchDoc, InvoiceDoc(SaleInvoiceId(t))}
        \cup (IF t.op.draft = 0 THEN {InvoiceCounter} ELSE {})
        \cup LedgerDocs(t.op.customer)

SaleWrites(t) ==
    {BranchDoc, InvoiceDoc(SaleInvoiceId(t))}
        \cup (IF t.op.draft = 0 THEN {InvoiceCounter} ELSE {})
        \cup (IF t.op.quantity > 0 THEN {StockDoc} ELSE {})
        \cup LedgerDocs(t.op.customer)

IssuedInvoice(r) ==
    [status |-> IF r.paid = r.total THEN "paid"
                ELSE IF r.paid > 0 THEN "partial_paid" ELSE "credit",
     key |-> r.key, request |-> r.id, customer |-> r.customer,
     total |-> r.total, paid |-> r.paid, due |-> r.total - r.paid]

SaleEffect(t) ==
    LET i == SaleInvoiceId(t)
        r == t.op
    IN  [db EXCEPT
          !.invoice[i]    = IssuedInvoice(r),
          !.lastInvoice   = IF r.draft = 0 THEN i ELSE @,
          !.stock         = @ - r.quantity,
          !.outstanding   = Posted(@, t.snap.outstanding, r.customer,
                                   r.total - r.paid),
          !.received      = Plus(@, i, r.paid),
          !.booked        = IF ChecksItsDay(t) THEN Plus(@, t.stamp, r.paid) ELSE @,
          !.stray         = IF ChecksItsDay(t) THEN @ ELSE Plus(@, t.stamp, r.paid)]

-----------------------------------------------------------------------------
(***************************************************************************)
(* POST invoices (a draft) and invoices/:id/cancel (a draft only).         *)
(* Neither looks at the closing nor locks the branch.                      *)
(***************************************************************************)
DraftAllowed(t) == t.snap.lastInvoice < MaxInvoice

DraftWrites(t) == {InvoiceCounter, InvoiceDoc(t.snap.lastInvoice + 1)}

DraftEffect(t) ==
    LET i == t.snap.lastInvoice + 1
    IN  [db EXCEPT !.invoice[i] = [NoInvoice EXCEPT !.status = "draft"],
                   !.lastInvoice = i]

CancelAllowed(t) == t.snap.invoice[t.op.invoice].status = "draft"

CancelWrites(t) == {InvoiceDoc(t.op.invoice)}

CancelEffect(t) ==
    [db EXCEPT !.invoice[t.op.invoice] =
        [t.snap.invoice[t.op.invoice] EXCEPT !.status = "cancelled"]]

-----------------------------------------------------------------------------
(***************************************************************************)
(* POST invoices/:id/payments: collect on an issued invoice.               *)
(***************************************************************************)
CollectAllowed(t) ==
    LET invoice == t.snap.invoice[t.op.invoice]
    IN  /\ ~Replayed(t)
        /\ invoice.status \notin {"none", "draft", "cancelled"}
        /\ ~Finalised(t.snap.closing[t.day])
        /\ t.op.amount <= invoice.due

CollectWrites(t) ==
    {BranchDoc, InvoiceDoc(t.op.invoice), KeyDoc(OpKey(t.op))}
        \cup LedgerDocs(t.snap.invoice[t.op.invoice].customer)

\* Mutant: paid_amount is left as it was.
CollectedUncounted(t) ==
    [t.snap.invoice[t.op.invoice] EXCEPT
       !.due    = @ - t.op.amount,
       !.status = IF t.snap.invoice[t.op.invoice].due > t.op.amount
                  THEN "partial_paid" ELSE "paid"]

Collected(t) ==
    [t.snap.invoice[t.op.invoice] EXCEPT
       !.paid   = @ + t.op.amount,
       !.due    = @ - t.op.amount,
       !.status = IF t.snap.invoice[t.op.invoice].due > t.op.amount
                  THEN "partial_paid" ELSE "paid"]

CollectEffect(t) ==
    LET i == t.op.invoice
    IN  [db EXCEPT
          !.invoice[i]    = Collected(t),
          !.outstanding   = Posted(@, t.snap.outstanding,
                                   t.snap.invoice[i].customer, -t.op.amount),
          !.opkeys        = @ \cup {OpKey(t.op)},
          !.received      = Plus(@, i, t.op.amount),
          !.booked        = Plus(@, t.stamp, t.op.amount)]

-----------------------------------------------------------------------------
(***************************************************************************)
(* POST governance/voids/invoices/:id.  The open balance is credited back; *)
(* money already collected is left for a manual refund, stock for a manual *)
(* adjustment.                                                             *)
(***************************************************************************)
VoidAllowed(t) ==
    /\ ~Replayed(t)
    /\ t.snap.invoice[t.op.invoice].status \notin {"none", "draft", "cancelled"}
    /\ ~Finalised(t.snap.closing[t.day])

\* Only an open balance is posted to the ledger.
CreditedTo(invoice) == IF invoice.due > 0 THEN invoice.customer ELSE NoCustomer

\* Mutant: the open balance is credited without locking the customer.
VoidWritesLedgerFree(t) ==
    {BranchDoc, InvoiceDoc(t.op.invoice), KeyDoc(OpKey(t.op))}

VoidWrites(t) ==
    {BranchDoc, InvoiceDoc(t.op.invoice), KeyDoc(OpKey(t.op))}
        \cup LedgerDocs(CreditedTo(t.snap.invoice[t.op.invoice]))

Voided(t) ==
    [t.snap.invoice[t.op.invoice] EXCEPT !.status = "cancelled", !.due = 0]

VoidEffect(t) ==
    LET invoice == t.snap.invoice[t.op.invoice]
    IN  [db EXCEPT
          !.invoice[t.op.invoice] = Voided(t),
          !.outstanding = Posted(@, t.snap.outstanding, CreditedTo(invoice),
                                 -invoice.due),
          !.opkeys      = @ \cup {OpKey(t.op)}]

-----------------------------------------------------------------------------
(***************************************************************************)
(* POST customers/:id/payments: money on account.  No request key, no look *)
(* at the closing, no lock on the branch.                                  *)
(***************************************************************************)
AccountAllowed(t) == TRUE

AccountWrites(t) == LedgerDocs(t.op.customer)

AccountEffect(t) ==
    [db EXCEPT
      !.outstanding  = Posted(@, t.snap.outstanding, t.op.customer, -t.op.amount),
      !.account      = Plus(@, t.op.customer, t.op.amount),
      !.stray        = Plus(@, t.stamp, t.op.amount)]

(***************************************************************************)
(* POST inventory/adjust on a product the branch already stocks.           *)
(***************************************************************************)
AdjustAllowed(t) == t.snap.stock + t.op.change >= 0

AdjustWrites(t) == {StockDoc}

AdjustEffect(t) ==
    [db EXCEPT !.stock = @ + t.op.change]

-----------------------------------------------------------------------------
(***************************************************************************)
(* governance/closings: open, submit, close and reopen a business day.     *)
(***************************************************************************)
DayAllowed(t) ==
    LET closing == t.snap.closing[t.op.date]
    IN  CASE t.op.kind = "open"   -> t.op.date = t.day /\ closing.status = "none"
          [] t.op.kind = "submit" -> closing.status \in {"open", "reopened"}
          [] t.op.kind = "close"  -> closing.status = "submitted"
          [] t.op.kind = "reopen" -> Finalised(closing)

DayWrites(t) == {BranchDoc, ClosingDoc(t.op.date)}

\* Submitting counts every payment document dated on the day it can see.
DayRecord(t) ==
    LET d == t.op.date
    IN  CASE t.op.kind = "open"   -> [status |-> "open", count |-> 0]
          [] t.op.kind = "submit" -> [status |-> "submitted",
                                      count |-> t.snap.booked[d] + t.snap.stray[d]]
          [] t.op.kind = "close"  -> [t.snap.closing[d] EXCEPT !.status = "closed"]
          [] t.op.kind = "reopen" -> [t.snap.closing[d] EXCEPT !.status = "reopened"]

DayEffect(t) == [db EXCEPT !.closing[t.op.date] = DayRecord(t)]

-----------------------------------------------------------------------------
(***************************************************************************)
(* The transactions.                                                       *)
(***************************************************************************)
\* Requests that post money, stock or a document more than a day's status.
Posting(r) == r.kind \notin {"open", "submit", "close", "reopen"}

\* Requests the server recognises when they are sent again.
Keyed(r) == r.kind \in {"sale", "collect", "void"}

Begin(h) ==
    /\ h \notin DOMAIN run
    /\ \E r \in Requests : OpenTxn(h, r, today)
    /\ UNCHANGED <<db, today, applied, replies>>

\* The ways h's handler can read the clock: once when it looks at the closing
\* (`day') and again when it dates its payments (`stamp').
Runs(h) ==
    {t \in [op: {run[h].op}, snap: {run[h].snap}, day: Days, stamp: Days] :
        run[h].day <= t.day /\ t.day <= t.stamp /\ t.stamp <= today}

\* The handler h runs is of this kind, its checks pass and it commits.
Execute(h, kinds, Allowed(_), Writes(_), Effect(_)) ==
    /\ h \in DOMAIN run
    /\ \E t \in Runs(h) :
          /\ t.op.kind \in kinds
          /\ Allowed(t)
          /\ Posting(t.op) => applied[t.op] < MaxPosts
          /\ CommitTxn(h, Writes(t), Effect(t))
          /\ applied' =
                [applied EXCEPT ![t.op] = IF Posting(t.op) THEN @ + 1 ELSE @]
    /\ UNCHANGED today

Checkout(h) ==
    /\ Execute(h, {"sale"}, SaleAllowed, SaleWrites, SaleEffect)
    /\ replies' = replies \cup {<<run[h].op.id, SaleInvoiceId(run[h])>>}

\* A checkout that finds its key returns the invoice of that key, unless the
\* body differs; it writes nothing.
ReplayCheckout(h) ==
    /\ h \in DOMAIN run
    /\ run[h].op.kind = "sale"
    /\ \E i \in ExistingInvoices(run[h]) :
          /\ run[h].snap.invoice[i].request = run[h].op.id
          /\ replies' = replies \cup {<<run[h].op.id, i>>}
    /\ AbortTxn(h)
    /\ UNCHANGED <<db, today, applied>>

CreateDraft(h) ==
    /\ Execute(h, {"draft"}, DraftAllowed, DraftWrites, DraftEffect)
    /\ UNCHANGED replies

CancelDraft(h) ==
    /\ Execute(h, {"cancel"}, CancelAllowed, CancelWrites, CancelEffect)
    /\ UNCHANGED replies

CollectPayment(h) ==
    /\ Execute(h, {"collect"}, CollectAllowed, CollectWrites, CollectEffect)
    /\ UNCHANGED replies

VoidInvoice(h) ==
    /\ Execute(h, {"void"}, VoidAllowed, VoidWrites, VoidEffect)
    /\ UNCHANGED replies

PayAccount(h) ==
    /\ Execute(h, {"account"}, AccountAllowed, AccountWrites, AccountEffect)
    /\ UNCHANGED replies

AdjustStock(h) ==
    /\ Execute(h, {"adjust"}, AdjustAllowed, AdjustWrites, AdjustEffect)
    /\ UNCHANGED replies

Closing(h) ==
    /\ Execute(h, {"open", "submit", "close", "reopen"},
               DayAllowed, DayWrites, DayEffect)
    /\ UNCHANGED replies

\* Mutant: a checkout that is cut short has already taken the stock.
AbandonHalfWay(h) ==
    /\ h \in DOMAIN run
    /\ AbortTxn(h)
    /\ db' = IF run[h].op.kind = "sale" /\ run[h].op.quantity <= db.stock
             THEN [db EXCEPT !.stock = @ - run[h].op.quantity] ELSE db
    /\ UNCHANGED <<today, applied, replies>>

\* A refused request, a replay that writes nothing, a write conflict (the
\* driver then begins again), a crash of the invocation.
Abandon(h) ==
    /\ h \in DOMAIN run
    /\ AbortTxn(h)
    /\ UNCHANGED <<db, today, applied, replies>>

Midnight ==
    /\ today < LastDay
    /\ today' = today + 1
    /\ UNCHANGED <<db, run, applied, replies>>

Step(h) ==
    \/ Begin(h) \/ Checkout(h) \/ ReplayCheckout(h) \/ CreateDraft(h)
    \/ CancelDraft(h) \/ CollectPayment(h) \/ VoidInvoice(h) \/ PayAccount(h)
    \/ AdjustStock(h) \/ Closing(h) \/ Abandon(h)

Next == Midnight \/ \E h \in Handlers : Step(h)

Spec == Init /\ [][Next]_vars

-----------------------------------------------------------------------------
(***************************************************************************)
(* Properties.                                                             *)
(***************************************************************************)
InvoiceType ==
    [status: InvoiceStatus, key: Nat, request: Nat,
     customer: Customers \cup {NoCustomer}, total: Nat, paid: Nat, due: Nat]

DbType ==
    [closing: [Days -> [status: DayStatus, count: Nat]],
     invoice: [Invoices -> InvoiceType], lastInvoice: 0..MaxInvoice,
     outstanding: [Customers -> Int], stock: Int,
     opkeys: SUBSET ({"collect", "void"} \X Invoices \X Nat),
     booked: [Days -> Nat], stray: [Days -> Nat],
     received: [Invoices -> Nat], account: [Customers -> Nat]]

Docs ==
    {BranchDoc, StockDoc, InvoiceCounter, LedgerCounter}
        \cup {InvoiceDoc(i) : i \in Invoices}
        \cup {CustomerDoc(c) : c \in Customers}
        \cup {ClosingDoc(d) : d \in Days}
        \cup {KeyDoc(OpKey(r)) : r \in {q \in Requests : q.kind \in {"collect", "void"}}}

\* The shape of the state: the database, every open transaction's snapshot of
\* it (MongoDB hands out only committed states) and the histories.
TypeOK ==
    /\ db \in DbType
    /\ DOMAIN run \subseteq Handlers
    /\ \A h \in DOMAIN run :
          run[h] \in [op: Requests, snap: DbType, day: Days, missed: SUBSET Docs]
    /\ today \in Days
    /\ applied \in [Requests -> Nat]
    /\ replies \subseteq (RequestId \X Invoices)

Issued(invoice) == invoice.status \in {"credit", "partial_paid", "paid"}

\* What consistency.ts reconciles and the code must keep true through every
\* interleaving of checkout, collection and void: an invoice's paid_amount is
\* the sum of its payment documents, paid and balance add up to the total,
\* the status says which of them is zero, and a cancelled one claims nothing.
InvoicesReconcile ==
    \A i \in Invoices :
        LET invoice == db.invoice[i]
        IN  /\ invoice.paid = db.received[i]
            /\ Issued(invoice) =>
                 /\ invoice.paid + invoice.due = invoice.total
                 /\ invoice.status = "paid" <=> invoice.due = 0
                 /\ invoice.status = "credit" <=> invoice.paid = 0
            /\ invoice.status \in {"none", "draft", "cancelled"} => invoice.due = 0

OpenBalance(c) ==
    MapThenSumSet(LAMBDA i : db.invoice[i].due,
                  {i \in Invoices : db.invoice[i].customer = c})

\* A customer's stored balance (customers.outstanding_scaled, rewritten by
\* every postLedger from its own read) is what the customer still owes on
\* invoices less the money paid on account: no posting is lost or doubled.
LedgerReconciles ==
    \A c \in Customers : db.outstanding[c] = OpenBalance(c) - db.account[c]

\* The credit check of a checkout reads the balance before writing it: two
\* sales on credit, each within the limit, must not pass it together.
CreditLimitHolds == \A c \in Customers : db.outstanding[c] <= CreditLimit

StockChange(r) ==
    IF r.kind = "sale" THEN -r.quantity
    ELSE IF r.kind = "adjust" THEN r.change ELSE 0

\* Two buyers never get the same last units: what is on hand stays positive
\* although each checkout compares it in its own snapshot.
NoOverselling == db.stock >= 0

\* What is on hand is the opening stock with every committed sale and
\* adjustment applied once, whichever transactions ran at the same time, were
\* retried or were cut short.
StockReconciles ==
    db.stock = OpeningStock
      + MapThenSumSet(LAMBDA r : applied[r] * StockChange(r), Requests)

\* Sent again, by a client that lost the reply or by two tabs at once, a
\* request with a key posts at most once; and a key names one invoice only,
\* even when a different body arrives with it.
KeyedRequestsPostOnce ==
    /\ \A r \in Requests : Keyed(r) => applied[r] <= 1
    /\ \A i, j \in Invoices :
          /\ db.invoice[i].key # NoKey
          /\ db.invoice[i].key = db.invoice[j].key
          => i = j

\* Whatever a client is told about its checkout, first answer or replay, is
\* the invoice its own request created, and always the same one.
RepliesAgree ==
    \A p, q \in replies :
        /\ db.invoice[p[2]].request = p[1]
        /\ p[1] = q[1] => p[2] = q[2]

\* A submitted or closed day counts exactly what the collections that check
\* its closing (checkouts and invoice payments) took that day, plus at most
\* what slipped in unchecked: no locked collection lands after the count.
FinalisedCountCoversBooked ==
    \A d \in Days :
        LET closing == db.closing[d]
        IN  Finalised(closing) =>
              closing.count - db.booked[d] \in 0..db.stray[d]

(***************************************************************************)
(* Serialisability.  `Alone(t)' is t run by itself on the database as it   *)
(* is when t commits.                                                      *)
(***************************************************************************)
Alone(t) == [t EXCEPT !.snap = db]

Serial(h, Allowed(_), Effect(_)) ==
    \E t \in Runs(h) : Allowed(Alone(t)) /\ db' = Effect(Alone(t))

SerialStep(h) ==
    /\ Checkout(h)       => Serial(h, SaleAllowed, SaleEffect)
    /\ CollectPayment(h) => Serial(h, CollectAllowed, CollectEffect)
    /\ VoidInvoice(h)    => Serial(h, VoidAllowed, VoidEffect)
    /\ CreateDraft(h)    => Serial(h, DraftAllowed, DraftEffect)
    /\ CancelDraft(h)    => Serial(h, CancelAllowed, CancelEffect)
    /\ PayAccount(h)     => Serial(h, AccountAllowed, AccountEffect)
    /\ AdjustStock(h)    => Serial(h, AdjustAllowed, AdjustEffect)
    /\ Closing(h)        => \E t \in Runs(h) : DayAllowed(Alone(t))

\* The documents a transaction writes are enough to protect the ones it only
\* reads: a checkout, collection, void, account payment, draft or adjustment
\* that commits does what it would have done alone at that moment.  A change
\* of the day is one the day's current status allows; only what it counts may
\* miss a payment that was being made on a customer's account.
CommitsAreSerial == [][\A h \in DOMAIN run : SerialStep(h)]_vars

(***************************************************************************)
(* What the closing promises, as an abstract specification.                *)
(***************************************************************************)
Book == INSTANCE DayBook WITH closing <- db.closing, booked <- db.booked,
                              stray <- db.stray

DayBookSpec == Book!Spec
=============================================================================
