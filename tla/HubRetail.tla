----------------------------- MODULE HubRetail ------------------------------
(***************************************************************************)
(* The counter of one branch on the Local Hub: draft invoices, their issue *)
(* and cancellation, point-of-sale checkouts, collections, sales without   *)
(* an invoice, stock adjustments, payments on account and voids            *)
(* (backend/app/services: invoices, sales, inventory, customers,           *)
(* business_settings, governance).                                         *)
(*                                                                         *)
(* An invoice has one line of goods.  Each request that commits inserts    *)
(* its own payment, stock movement, ledger entry and Sale, and nobody      *)
(* changes them: db.booked, the requests that have committed, stands for   *)
(* these rows.  Taxes and the choice among number sequences are left out.  *)
(***************************************************************************)
EXTENDS RowLocks, FiniteSets, FiniteSetsExt

CONSTANTS
    Requests,       \* what clients may send; a bound: each commits once at
                    \* most, one that is sent twice is two of them
    Invoices,       \* invoices that may be drafted
    Line,           \* an invoice's product, quantity, total and customer
    Products, Opening,      \* the products and their opening stock
    Customers, CreditLimit, \* the customers and their credit_limit
    VoidKeys        \* idempotency keys of voids

None == "none"
Statuses == {"none", "draft", "issued", "partial_paid", "paid", "credit", "cancelled"}

InvoiceRow(i) == <<"invoice", i>>
StockRow(p)   == <<"inventory", p>>
LedgerRow(c)  == <<"ledger", c>>        \* calculate_customer_outstanding
VoidRow(k)    == <<"reversal", k>>
Sequence      == <<"sequence">>

ASSUME HubRetailAssumption ==
    /\ Line \in [Invoices -> [product: Products, quantity: Nat \ {0}, total: Nat \ {0},
                              customer: Customers \cup {None}]]
    /\ Opening \in [Products -> Nat] /\ CreditLimit \in [Customers -> Nat]
    /\ None \notin Invoices \cup Customers
    /\ Requests \subseteq
          [kind: {"draft", "cancel"}, invoice: Invoices]
          \cup [kind: {"issue", "checkout"}, invoice: Invoices, pay: Nat]
          \cup [kind: {"pay"}, invoice: Invoices, pay: Nat \ {0}, nr: Nat]
          \cup [kind: {"void"}, invoice: Invoices, key: VoidKeys]
          \cup [kind: {"sell"}, product: Products, quantity: Nat \ {0}]
          \cup [kind: {"adjust"}, product: Products, change: Int]
          \cup [kind: {"settle"}, customer: Customers, pay: Nat \ {0}]

RetailInit ==
    /\ db = [invoice  |-> [i \in Invoices |-> [status |-> "none", number |-> 0,
                                               paid |-> 0, due |-> 0]],
             next     |-> 1,                    \* InvoiceSequence.next_number
             stock    |-> Opening,
             reversal |-> [k \in VoidKeys |-> None],
             booked   |-> {}]
    /\ work = <<>>

-----------------------------------------------------------------------------
(* What the inserted rows add up to.                                        *)

Booked(kinds) == {r \in db.booked : r.kind \in kinds}

\* The Sale records of invoice i, and its payments.
SalesOf(i) == {r \in Booked({"issue", "checkout"}) : r.invoice = i}
Received(i) ==
    MapThenSumSet(LAMBDA r : r.pay,
                  {r \in Booked({"issue", "checkout", "pay"}) : r.invoice = i})

\* A customer owes what was sold on credit less what was collected.
Outstanding(c) ==
    MapThenSumSet(LAMBDA r : Line[r.invoice].total - r.pay,
                  {r \in Booked({"issue", "checkout"}) : Line[r.invoice].customer = c})
    - MapThenSumSet(LAMBDA r : r.pay,
                    {r \in Booked({"pay"}) : Line[r.invoice].customer = c}
                    \cup {r \in Booked({"settle"}) : r.customer = c})

Row(r) ==
    CASE r[1] = "invoice"   -> db.invoice[r[2]]
      [] r[1] = "inventory" -> db.stock[r[2]]
      [] r[1] = "ledger"    -> Outstanding(r[2])
      [] r[1] = "reversal"  -> db.reversal[r[2]]
      [] r[1] = "sequence"  -> db.next

\* An UPDATE sets the columns that the handler changed in its copy.
Written(row, copy, new) ==
    [c \in DOMAIN row |-> IF new[c] # copy[c] THEN new[c] ELSE row[c]]

-----------------------------------------------------------------------------
(* Invoices: create_invoice, issue_invoice, pos_checkout.                   *)

Bill(t) == Line[t.op.invoice]
OnCredit(t) == t.op.pay < Bill(t).total

\* validate_stock_for_invoice and, on credit, validate_customer_credit_limit.
\* Mutant: the stock is read without a lock.
GoodsQueriesUnlocked(t) ==
    <<Find({StockRow(Bill(t).product)})>>
    \o IF OnCredit(t) THEN <<Find({LedgerRow(Bill(t).customer)})>> ELSE <<>>

GoodsQueries(t) ==
    <<Take({StockRow(Bill(t).product)})>>
    \o IF OnCredit(t) THEN <<Find({LedgerRow(Bill(t).customer)})>> ELSE <<>>

DraftQueries(t)    == <<Take({Sequence})>>
IssueQueries(t)    == <<Find({InvoiceRow(t.op.invoice)})>> \o GoodsQueries(t)
CheckoutQueries(t) == DraftQueries(t) \o GoodsQueries(t)

\* The goods are there, and what is not paid is within the customer's limit.
GoodsGoOn(t) ==
    LET bill == Bill(t)
    IN  /\ t.at > 2 => /\ bill.quantity <= t.saw[StockRow(bill.product)]
                       /\ t.op.pay <= bill.total
                       /\ OnCredit(t) => bill.customer # None
        /\ t.at > 3 => t.saw[LedgerRow(bill.customer)] + bill.total - t.op.pay
                          <= CreditLimit[bill.customer]

IssueGoesOn(t) ==
    /\ t.at > 1 => t.saw[InvoiceRow(t.op.invoice)].status = "draft"
    /\ GoodsGoOn(t)

\* invoice_status_for_payment.
StatusFor(bill, paid) ==
    CASE paid >= bill.total                  -> "paid"
      [] paid > 0 /\ paid < bill.total       -> "partial_paid"
      [] paid = 0 /\ bill.customer # None    -> "credit"
      [] OTHER                               -> "issued"

Drafted(i, number) == [status |-> "draft", number |-> number, paid |-> 0, due |-> Line[i].total]
Paid(i, invoice, paid) ==
    [invoice EXCEPT !.status = StatusFor(Line[i], paid), !.paid = paid,
                    !.due = Line[i].total - paid]

DraftEffect(t) ==
    [db EXCEPT !.invoice[t.op.invoice] = Drafted(t.op.invoice, t.saw[Sequence]),
               !.next = t.saw[Sequence] + 1]

\* What issuing adds to the database d, in which the invoice is a draft.
Issued(t, d, draft) ==
    [d EXCEPT
       !.invoice[t.op.invoice] = Written(@, draft, Paid(t.op.invoice, draft, t.op.pay)),
       !.stock[Bill(t).product] = t.saw[StockRow(Bill(t).product)] - Bill(t).quantity,
       !.booked = @ \cup {t.op}]

IssueEffect(t)    == Issued(t, db, t.saw[InvoiceRow(t.op.invoice)])
CheckoutEffect(t) == Issued(t, DraftEffect(t), Drafted(t.op.invoice, t.saw[Sequence]))

\* Mutant: Sale.sale_number is not unique.
SaleIsNotLookedFor(t) == TRUE

\* What the unique indexes refuse: a second Sale of an invoice, an invoice
\* number that is in use.
SaleIsNew(t) == SalesOf(t.op.invoice) = {}
NumberIsNew(t) ==
    /\ db.invoice[t.op.invoice].status = "none"
    /\ \A i \in Invoices : db.invoice[i].number # t.saw[Sequence]

-----------------------------------------------------------------------------
(* cancel_invoice, add_invoice_payment, void_invoice: on a copy of the      *)
(* invoice that is not locked.                                              *)
CopyQueries(t) == <<Find({InvoiceRow(t.op.invoice)})>>
Copy(t) == t.saw[InvoiceRow(t.op.invoice)]

CancelGoesOn(t) == t.at > 1 => Copy(t).status = "draft"
PayGoesOn(t) ==
    t.at > 1 => /\ Copy(t).status \notin {"draft", "cancelled"}
                /\ t.op.pay <= Copy(t).due

VoidQueries(t) == <<Find({InvoiceRow(t.op.invoice), VoidRow(t.op.key)})>>
VoidGoesOn(t) ==
    t.at > 1 => t.saw[VoidRow(t.op.key)] = None /\ Copy(t).status # "cancelled"

Rewritten(t, new) == Written(db.invoice[t.op.invoice], Copy(t), new)

CancelEffect(t) ==
    [db EXCEPT !.invoice[t.op.invoice] = Rewritten(t, [Copy(t) EXCEPT !.status = "cancelled"])]
PayEffect(t) ==
    [db EXCEPT
       !.invoice[t.op.invoice] =
            Rewritten(t, Paid(t.op.invoice, Copy(t), Copy(t).paid + t.op.pay)),
       !.booked = @ \cup {t.op}]
VoidEffect(t) ==
    [db EXCEPT
       !.invoice[t.op.invoice] =
            Rewritten(t, [Copy(t) EXCEPT !.status = "cancelled", !.due = 0]),
       !.reversal[t.op.key] = t.op.invoice]

-----------------------------------------------------------------------------
(* create_sale, which locks the stock; apply_stock_adjustment, which does   *)
(* not; record_customer_payment, which reads nothing it depends on.         *)
OnHand(t) == t.saw[StockRow(t.op.product)]

SellQueries(t)   == <<Take({StockRow(t.op.product)})>>
AdjustQueries(t) == <<Find({StockRow(t.op.product)})>>

SellGoesOn(t)   == t.at > 1 => t.op.quantity <= OnHand(t)
AdjustGoesOn(t) == t.at > 1 => OnHand(t) + t.op.change >= 0

SellEffect(t) ==
    [db EXCEPT !.stock[t.op.product] = OnHand(t) - t.op.quantity, !.booked = @ \cup {t.op}]
AdjustEffect(t) ==
    [db EXCEPT !.stock[t.op.product] = OnHand(t) + t.op.change, !.booked = @ \cup {t.op}]
SettleEffect(t) == [db EXCEPT !.booked = @ \cup {t.op}]

-----------------------------------------------------------------------------
Queries(t) ==
    CASE t.op.kind = "draft"    -> DraftQueries(t)
      [] t.op.kind = "issue"    -> IssueQueries(t)
      [] t.op.kind = "checkout" -> CheckoutQueries(t)
      [] t.op.kind \in {"cancel", "pay"} -> CopyQueries(t)
      [] t.op.kind = "void"     -> VoidQueries(t)
      [] t.op.kind = "sell"     -> SellQueries(t)
      [] t.op.kind = "adjust"   -> AdjustQueries(t)
      [] t.op.kind = "settle"   -> <<>>

GoesOn(t) ==
    CASE t.op.kind = "issue"    -> IssueGoesOn(t)
      [] t.op.kind = "checkout" -> GoodsGoOn(t)
      [] t.op.kind = "cancel"   -> CancelGoesOn(t)
      [] t.op.kind = "pay"      -> PayGoesOn(t)
      [] t.op.kind = "void"     -> VoidGoesOn(t)
      [] t.op.kind = "sell"     -> SellGoesOn(t)
      [] t.op.kind = "adjust"   -> AdjustGoesOn(t)
      [] OTHER                  -> TRUE

Begin(w) == \E op \in Requests \ db.booked :
    /\ w \notin DOMAIN work
    /\ op.kind \in {"issue", "cancel", "pay", "void"} => db.invoice[op.invoice].status # "none"
    /\ OpenTxn(w, op, 0)
    /\ UNCHANGED db

Query(w) ==
    /\ w \in DOMAIN work
    /\ work[w].at <= Len(Queries(work[w]))
    /\ GoesOn(work[w])
    /\ LET q == Queries(work[w])[work[w].at]
       IN  Load(w, q.lock, [r \in q.look |-> Row(r)], q.refresh)
    /\ UNCHANGED db

\* Mutant: the number is taken in a transaction of its own.
RollBackWithoutNumber(w) ==
    /\ w \in DOMAIN work
    /\ EndTxn(w)
    /\ db' = IF Sequence \in DOMAIN work[w].saw THEN [db EXCEPT !.next = @ + 1] ELSE db

RollBack(w) ==
    /\ w \in DOMAIN work
    /\ EndTxn(w)
    /\ UNCHANGED db

Writes(w, kind) ==
    /\ w \in DOMAIN work
    /\ work[w].op.kind = kind
    /\ work[w].at > Len(Queries(work[w]))
    /\ GoesOn(work[w])
    /\ work[w].op \notin db.booked

InvoiceOf(w) == InvoiceRow(work[w].op.invoice)

Draft(w) ==
    /\ Writes(w, "draft")
    /\ NumberIsNew(work[w])
    /\ CommitTxn(w, {Sequence}, DraftEffect(work[w]))

Issue(w) ==
    /\ Writes(w, "issue")
    /\ SaleIsNew(work[w])
    /\ CommitTxn(w, {InvoiceOf(w), StockRow(Bill(work[w]).product)}, IssueEffect(work[w]))

Checkout(w) ==
    /\ Writes(w, "checkout")
    /\ NumberIsNew(work[w])
    /\ CommitTxn(w, {Sequence, StockRow(Bill(work[w]).product)}, CheckoutEffect(work[w]))

Cancel(w) == Writes(w, "cancel") /\ CommitTxn(w, {InvoiceOf(w)}, CancelEffect(work[w]))

Pay(w) == Writes(w, "pay") /\ CommitTxn(w, {InvoiceOf(w)}, PayEffect(work[w]))

Void(w) ==
    /\ Writes(w, "void")
    /\ db.reversal[work[w].op.key] = None
    /\ CommitTxn(w, {InvoiceOf(w)}, VoidEffect(work[w]))

Sell(w) ==
    Writes(w, "sell") /\ CommitTxn(w, {StockRow(work[w].op.product)}, SellEffect(work[w]))

Adjust(w) ==
    Writes(w, "adjust") /\ CommitTxn(w, {StockRow(work[w].op.product)}, AdjustEffect(work[w]))

Settle(w) == Writes(w, "settle") /\ CommitTxn(w, {}, SettleEffect(work[w]))

RetailNext == \E w \in Workers :
    \/ Begin(w) \/ Query(w) \/ RollBack(w)
    \/ Draft(w) \/ Issue(w) \/ Checkout(w) \/ Cancel(w) \/ Pay(w) \/ Void(w)
    \/ Sell(w) \/ Adjust(w) \/ Settle(w)

RetailSpec == RetailInit /\ [][RetailNext]_txnVars

-----------------------------------------------------------------------------
\* The numbers of the invoices are consecutive: whoever gives up after he was
\* given a number, or waits for one, neither skips nor repeats any.
NumbersHaveNoGap ==
    LET numbered == {i \in Invoices : db.invoice[i].status # "none"}
    IN  /\ {db.invoice[i].number : i \in numbered} = 1..Cardinality(numbered)
        /\ db.next = Cardinality(numbered) + 1

\* An invoice is sold once, though two clerks issue the same draft on copies
\* that both show a draft, and every invoice that is being paid was sold.
InvoicesAreSoldOnce ==
    \A i \in Invoices :
        /\ Cardinality(SalesOf(i)) <= 1
        /\ db.invoice[i].status \notin {"none", "draft", "cancelled"} => SalesOf(i) # {}

\* The quantity of goods a request sells.
SoldBy(r, p) ==
    CASE r.kind \in {"issue", "checkout"} ->
            IF Line[r.invoice].product = p THEN Line[r.invoice].quantity ELSE 0
      [] r.kind = "sell" -> IF r.product = p THEN r.quantity ELSE 0
      [] OTHER -> 0

\* A sale takes from the stock what it moves and no more than there is,
\* whatever sales and adjustments of the same product come between its
\* questions and its commit.
SalesTakeWhatTheyMove ==
    [][ \A p \in Products :
          LET sold == MapThenSumSet(LAMBDA r : SoldBy(r, p), db'.booked \ db.booked)
          IN  sold > 0 => /\ db'.stock[p] = db.stock[p] - sold
                          /\ db'.stock[p] >= 0 ]_txnVars

\* docs/FINAL_PRODUCT_OPERATING_MODEL.md:108: what an invoice says was paid
\* is the sum of its payments.
PaymentsAreKept ==
    \A i \in Invoices :
        db.invoice[i].status \notin {"none", "draft", "cancelled"}
            => db.invoice[i].paid = Received(i)
=============================================================================
