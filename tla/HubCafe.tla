------------------------------ MODULE HubCafe -------------------------------
(***************************************************************************)
(* Tables, orders, bills, collections and the business day of one Cafe     *)
(* branch on the Local Hub: backend/app/services (cafe, cafe_staff_orders, *)
(* public_cafe, cafe_bill_request, cafe_billing, cafe_pos, governance).    *)
(*                                                                         *)
(* One table, one business day.  An order stands for its items, which its  *)
(* lock covers and whose states follow its own; a bill takes the orders    *)
(* whose items are eligible.  Stock, credit limits and the invoice number  *)
(* row, which a bill locks after the branch, are left out; so are waits    *)
(* for foreign keys, which only delay.  Payments are cash of the day.      *)
(***************************************************************************)
EXTENDS RowLocks, FiniteSets, FiniteSetsExt

CONSTANTS
    Requests,       \* what clients may send, any number of times
    Sessions,       \* sessions the table may have, one after the other
    Orders,         \* orders that may be placed
    Price,          \* estimated_total of an order
    Keys,           \* Idempotency-Keys of bills and checkouts
    VoidKeys,       \* idempotency keys of voids
    MaxInvoice      \* bound on the invoice number

Invoices == 1..MaxInvoice
None == 0
NoSession == "no session"

ActiveTable == {"open", "bill_requested", "billed"}
Targets == {"accepted", "preparing", "ready", "served", "bill_requested",
            "rejected", "cancelled"}
SessionStatuses == {"none", "closed", "cancelled"} \cup ActiveTable
OrderStatuses == {"none", "placed", "billed", "closed"} \cup Targets
ClosingStatuses == {"none", "open", "submitted", "closed", "reopened"}

\* Rows, and queries for the rows that have something in common.
SessionRow(s) == <<"session", s>>
OrderRow(o)   == <<"order", o>>
InvoiceRow(i) == <<"invoice", i>>
KeyRow(k)     == <<"keyed", k>>         \* invoices with this idempotency key
SourceRow(r)  == <<"source", r>>        \* active invoices of this source
VoidRow(k)    == <<"reversal", k>>
Branch        == <<"branch">>
Closing       == <<"closing">>
Table         == <<"table">>            \* its active sessions
Collected     == <<"collected">>        \* _payment_totals

Sources == {SessionRow(s) : s \in Sessions} \cup {OrderRow(o) : o \in Orders}

SessionRequests == [kind: {"open", "ask", "guest-ask"}, session: Sessions]
PlaceRequests   == [kind: {"place"}, order: Orders, session: Sessions \cup {NoSession}]
MoveRequests    == [kind: {"move"}, order: Orders, to: Targets]
BillRequests    == [kind: {"bill"}, source: Sources, key: Keys, pay: Nat, customer: BOOLEAN]
CheckoutRequests == [kind: {"checkout"}, order: Orders, key: Keys]
CollectRequests == [kind: {"collect"}, invoice: Invoices, pay: Nat \ {0}]
CloseRequests   == [kind: {"close"}, session: Sessions, cancel: BOOLEAN]
VoidRequests    == [kind: {"void"}, invoice: Invoices, key: VoidKeys]
DayRequests     == [kind: {"begin-day", "submit", "close-day", "reopen"}]

ASSUME HubCafeAssumption ==
    /\ IsFiniteSet(Orders)
    /\ MaxInvoice \in Nat /\ Price \in [Orders -> Nat \ {0}]
    /\ NoSession \notin Sessions
    /\ Requests \subseteq SessionRequests \cup PlaceRequests \cup MoveRequests
          \cup BillRequests \cup CheckoutRequests \cup CollectRequests
          \cup CloseRequests \cup VoidRequests \cup DayRequests

vars == txnVars

NoInvoice == [status |-> "none", total |-> 0, paid |-> 0, due |-> 0,
              key |-> None, source |-> <<>>, customer |-> FALSE]

Init ==
    /\ db = [session  |-> [s \in Sessions |-> [status |-> "none", version |-> 0, invoice |-> None]],
             order    |-> [o \in Orders |-> [status |-> "none", version |-> 0,
                                             session |-> NoSession, invoice |-> None]],
             invoice  |-> [i \in Invoices |-> NoInvoice],
             received |-> [i \in Invoices |-> 0],   \* its invoice_payments
             owed     |-> [i \in Invoices |-> 0],   \* its customer_ledger_entries
             reversal |-> [k \in VoidKeys |-> [invoice |-> None, paid |-> 0]],
             closing  |-> [status |-> "none", cash |-> 0]]
    /\ work = <<>>

Live(i) == db.invoice[i].status \in {"unpaid", "paid"}

Amount(os) == MapThenSumSet(LAMBDA o : Price[o], os)

CollectedNow == MapThenSumSet(LAMBDA i : db.received[i], {i \in Invoices : Live(i)})

\* What a query finds.
Row(r) ==
    CASE r[1] = "session"   -> db.session[r[2]]
      [] r[1] = "order"     -> db.order[r[2]]
      [] r[1] = "invoice"   -> db.invoice[r[2]]
      [] r[1] = "reversal"  -> db.reversal[r[2]]
      [] r[1] = "keyed"     -> {i \in Invoices : db.invoice[i].key = r[2]}
      [] r[1] = "source"    -> {i \in Invoices : Live(i) /\ db.invoice[i].source = r[2]}
      [] r[1] = "table"     -> {s \in Sessions : db.session[s].status \in ActiveTable}
      [] r[1] = "closing"   -> db.closing
      [] r[1] = "collected" -> CollectedNow
      [] r[1] = "branch"    -> None

\* _orders_for_session, or the order itself.
OrdersOf(source) ==
    {o \in Orders : IF source[1] = "order" THEN source = OrderRow(o)
                    ELSE /\ db.order[o].status # "none"
                         /\ SessionRow(db.order[o].session) = source}
OrderRows(source) == {OrderRow(o) : o \in OrdersOf(source)}

\* The closing is read, or read again, under the lock of the branch.
DayQuery(rows) == [lock |-> {Branch}, look |-> {Closing} \cup rows, refresh |-> TRUE]

DayOpen(t) == t.saw[Closing].status \notin {"submitted", "closed"}

-----------------------------------------------------------------------------
(* Tables: open_table_session, close_table_session.                         *)
OpenQueries(t) == <<Find({Table})>>
OpenGoesOn(t)  == t.at > 1 => t.saw[Table] = {}
OpenEffect(t)  == [db EXCEPT !.session[t.op.session] =
                     [status |-> "open", version |-> 1, invoice |-> None]]

CloseQueries(t) == <<Find({SessionRow(t.op.session)})>>
CloseGoesOn(t) ==
    t.at > 1 => LET session == t.saw[SessionRow(t.op.session)]
                IN  session.status \in ActiveTable /\ session.version = t.version
CloseEffect(t) ==
    [db EXCEPT !.session[t.op.session].status = IF t.op.cancel THEN "cancelled" ELSE "closed",
               !.session[t.op.session].version = t.saw[SessionRow(t.op.session)].version + 1]

-----------------------------------------------------------------------------
(* Orders: create_staff_order and create_public_order on create_order_      *)
(* snapshot, transition_order.                                              *)
DineIn(t) == t.op.session # NoSession

\* The session is read first and locked afterwards.
PlaceQueries(t) ==
    IF DineIn(t) THEN <<Find({SessionRow(t.op.session)}), Take({SessionRow(t.op.session)})>>
    ELSE <<>>
PlaceGoesOn(t) ==
    DineIn(t) /\ t.at > 1 => t.saw[SessionRow(t.op.session)].status = "open"
PlaceEffect(t) ==
    [db EXCEPT !.order[t.op.order] = [status |-> "placed", version |-> 1,
                                      session |-> t.op.session, invoice |-> None]]

MovesFrom(status) ==
    CASE status = "placed"    -> {"accepted", "rejected", "cancelled"}
      [] status = "accepted"  -> {"preparing", "cancelled"}
      [] status = "preparing" -> {"ready", "cancelled"}
      [] status = "ready"     -> {"served"}
      [] status = "served"    -> {"bill_requested"}
      [] OTHER -> {}

\* Mutant: the order is read without a lock.
MoveQueriesUnlocked(t) == <<Find({OrderRow(t.op.order)})>>

MoveQueries(t) == <<Take({OrderRow(t.op.order)})>>

\* The bill of a dine-in order is requested for its table.
MoveGoesOn(t) ==
    t.at > 1 => LET order == t.saw[OrderRow(t.op.order)]
                IN  /\ order.version = t.version
                    /\ t.op.to \in MovesFrom(order.status)
                    /\ t.op.to = "bill_requested" => order.session = NoSession
MoveEffect(t) ==
    [db EXCEPT
       !.order[t.op.order].status = t.op.to,
       !.order[t.op.order].version = t.saw[OrderRow(t.op.order)].version + 1]

-----------------------------------------------------------------------------
(* The request for the bill: request_table_session_bill, and a guest's      *)
(* request_public_bill, whose guest context loads the session before it is  *)
(* locked.                                                                  *)
AskQueries(t) ==
    LET session == SessionRow(t.op.session)
    IN  <<Take({session}), Take(OrderRows(session))>>

\* The orders of the session this transaction has loaded.
Loaded(t) == {o \in Orders : OrderRow(o) \in DOMAIN t.saw}
Asked(t) == {o \in Loaded(t) :
               t.saw[OrderRow(o)].status \notin {"rejected", "cancelled", "closed"}}

AskGoesOn(t) ==
    /\ t.at > 1 => LET session == t.saw[SessionRow(t.op.session)]
                   IN  session.version = t.version /\ session.status = "open"
    /\ t.at > 2 => /\ Asked(t) # {}
                   /\ \A o \in Asked(t) : t.saw[OrderRow(o)].status = "served"
AskEffect(t) ==
    [db EXCEPT
       !.order = [o \in Orders |->
                    IF o \in Asked(t)
                    THEN [@[o] EXCEPT !.status = "bill_requested",
                                      !.version = t.saw[OrderRow(o)].version + 1]
                    ELSE @[o]],
       !.session[t.op.session].status = "bill_requested",
       !.session[t.op.session].version = t.saw[SessionRow(t.op.session)].version + 1]

GuestAskQueries(t) ==
    <<Find({SessionRow(t.op.session)}), Take({SessionRow(t.op.session)})>>
GuestAskGoesOn(t) ==
    LET session == t.saw[SessionRow(t.op.session)]
    IN  /\ t.at > 1 => session.status \in ActiveTable
        /\ t.at > 2 => session.status = "open"
GuestAskEffect(t) ==
    [db EXCEPT
       !.session[t.op.session].status = "bill_requested",
       !.session[t.op.session].version = t.saw[SessionRow(t.op.session)].version + 1]

-----------------------------------------------------------------------------
(* Bills: _bill, for a table or for a takeaway or counter order.            *)
\* Mutant: the branch is not locked.
BillQueriesAnyDay(t) ==
    <<Find({KeyRow(t.op.key)}), Take({t.op.source}), Again({Closing}),
      [lock |-> OrderRows(t.op.source),
       look |-> OrderRows(t.op.source) \cup {SourceRow(t.op.source)}, refresh |-> FALSE]>>

BillQueries(t) ==
    <<Find({KeyRow(t.op.key)}), Take({t.op.source}), DayQuery({}),
      [lock |-> OrderRows(t.op.source),
       look |-> OrderRows(t.op.source) \cup {SourceRow(t.op.source)}, refresh |-> FALSE]>>

Eligible(t) ==
    {o \in Loaded(t) : /\ t.saw[OrderRow(o)].status \in {"accepted", "served", "bill_requested"}
                       /\ t.saw[OrderRow(o)].invoice = None}

CanBeBilled(t) ==
    LET source == t.saw[t.op.source]
    IN  /\ IF t.op.source[1] = "session" THEN source.status \in {"open", "bill_requested"}
           ELSE /\ source.status \notin {"billed", "closed", "cancelled", "rejected"}
                /\ source.session = NoSession
        /\ source.version = t.version

PaymentFits(t) ==
    LET total == Amount(Eligible(t))
    IN  t.op.pay <= total /\ (t.op.pay < total => t.op.customer)

\* A used key is answered before anything else is looked at.
Replayed(t) == t.at > 1 /\ t.saw[KeyRow(t.op.key)] # {}

BillGoesOn(t) ==
    /\ ~Replayed(t)
    /\ t.at > 3 => DayOpen(t)
    /\ t.at > 4 => /\ t.saw[SourceRow(t.op.source)] = {}
                   /\ CanBeBilled(t)
                   /\ Eligible(t) # {}
                   /\ PaymentFits(t)

\* The next invoice number.
NextNumber == CHOOSE i \in Invoices : /\ db.invoice[i] = NoInvoice
                                 /\ \A j \in Invoices : j < i => db.invoice[j] # NoInvoice
NumberLeft == \E i \in Invoices : db.invoice[i] = NoInvoice

Settled(total, paid) == IF paid >= total THEN "paid" ELSE "unpaid"

BillEffect(t) ==
    LET total == Amount(Eligible(t))
        due   == total - t.op.pay
        steps == IF due = 0 THEN 2 ELSE 1       \* billed, then closed
        final == IF due = 0 THEN "closed" ELSE "billed"
        i     == NextNumber
    IN  [db EXCEPT
           !.invoice[i] = [status |-> Settled(total, t.op.pay), total |-> total,
                           paid |-> t.op.pay, due |-> due, key |-> t.op.key,
                           source |-> t.op.source, customer |-> t.op.customer],
           !.received[i] = @ + t.op.pay,
           !.owed[i] = IF t.op.customer THEN @ + due ELSE @,
           !.order = [o \in Orders |->
                        IF o \in Eligible(t)
                        THEN [@[o] EXCEPT !.status = final, !.invoice = i,
                                          !.version = t.saw[OrderRow(o)].version + steps]
                        ELSE @[o]],
           !.session = [s \in Sessions |->
                          IF SessionRow(s) = t.op.source
                          THEN [@[s] EXCEPT !.status = final, !.invoice = i,
                                            !.version = t.saw[t.op.source].version + steps]
                          ELSE @[s]]]

\* What the unique indexes of invoices refuse.
InvoiceIsNew(t, source) ==
    /\ Row(KeyRow(t.op.key)) = {}
    /\ Row(SourceRow(source)) = {}

-----------------------------------------------------------------------------
(* cafe_pos.checkout: a counter order placed, accepted, billed and paid.    *)
CheckoutQueries(t) == <<Find({KeyRow(t.op.key)}), DayQuery({KeyRow(t.op.key)})>>
CheckoutGoesOn(t) == ~Replayed(t) /\ (t.at > 2 => DayOpen(t))
CheckoutEffect(t) ==
    LET total == Price[t.op.order]
        i     == NextNumber
    IN  [db EXCEPT
           !.order[t.op.order] = [status |-> "closed", version |-> 4,
                                  session |-> NoSession, invoice |-> i],
           !.invoice[i] = [status |-> "paid", total |-> total, paid |-> total, due |-> 0,
                           key |-> t.op.key,
                           source |-> OrderRow(t.op.order), customer |-> FALSE],
           !.received[i] = @ + total]

-----------------------------------------------------------------------------
(* collect_invoice_payment.                                                 *)
\* The session or order of the invoice, once it is known.
SourceOf(t) == IF t.at > 2 THEN t.saw[InvoiceRow(t.op.invoice)].source ELSE Branch

\* Mutant: the invoice is read without a lock.
CollectQueriesUnlocked(t) ==
    <<Find({InvoiceRow(t.op.invoice)}), DayQuery({}),
      Take({SourceOf(t)}), Take(OrderRows(SourceOf(t)))>>

CollectQueries(t) ==
    <<Take({InvoiceRow(t.op.invoice)}), DayQuery({}),
      Take({SourceOf(t)}), Take(OrderRows(SourceOf(t)))>>

CollectGoesOn(t) ==
    LET invoice == t.saw[InvoiceRow(t.op.invoice)]
    IN  /\ t.at > 1 => invoice.due > 0
        /\ t.at > 2 => DayOpen(t) /\ t.op.pay <= invoice.due

\* The orders that close because this payment settles their bill.
Settles(t) ==
    LET invoice == t.saw[InvoiceRow(t.op.invoice)]
    IN  {o \in Loaded(t) : /\ t.op.pay = invoice.due
                           /\ t.saw[OrderRow(o)].invoice = t.op.invoice
                           /\ t.saw[OrderRow(o)].status = "billed"}

CollectEffect(t) ==
    LET invoice == t.saw[InvoiceRow(t.op.invoice)]
        paid    == invoice.paid + t.op.pay
    IN  [db EXCEPT
           !.invoice[t.op.invoice] = [@ EXCEPT !.paid = paid, !.due = invoice.total - paid,
                                               !.status = Settled(invoice.total, paid)],
           !.received[t.op.invoice] = @ + t.op.pay,
           !.owed[t.op.invoice] = IF invoice.customer THEN @ - t.op.pay ELSE @,
           !.order = [o \in Orders |->
                        IF o \in Settles(t)
                        THEN [@[o] EXCEPT !.status = "closed",
                                          !.version = t.saw[OrderRow(o)].version + 1]
                        ELSE @[o]],
           !.session = [s \in Sessions |->
                          IF SessionRow(s) = invoice.source /\ t.op.pay = invoice.due
                          THEN [@[s] EXCEPT !.status = "closed",
                                            !.version = t.saw[invoice.source].version + 1]
                          ELSE @[s]]]

-----------------------------------------------------------------------------
(* governance: void_invoice and the business day.                           *)
VoidQueries(t) == <<Find({InvoiceRow(t.op.invoice), VoidRow(t.op.key)})>>
VoidGoesOn(t) ==
    t.at > 1 => /\ t.saw[VoidRow(t.op.key)].invoice = None
                /\ t.saw[InvoiceRow(t.op.invoice)].status # "cancelled"
VoidEffect(t) ==
    [db EXCEPT !.invoice[t.op.invoice].status = "cancelled",
               !.invoice[t.op.invoice].due = 0,
               !.reversal[t.op.key] = [invoice |-> t.op.invoice,
                                       paid |-> t.saw[InvoiceRow(t.op.invoice)].paid]]

\* get_or_create_closing, which a read of an open day shares the refresh with,
\* submit_closing, close_day, reopen_day.
DayQueries(t) ==
    IF t.op.kind = "begin-day" THEN <<DayQuery({Collected})>>
    ELSE <<Find({Closing}), DayQuery({Collected})>>

DayFrom(kind) ==
    CASE kind = "begin-day" -> {"none", "open", "reopened"}
      [] kind = "submit"    -> {"open", "reopened"}
      [] kind = "close-day" -> {"submitted"}
      [] kind = "reopen"    -> {"submitted", "closed"}

DayGoesOn(t) == t.at > Len(DayQueries(t)) => t.saw[Closing].status \in DayFrom(t.op.kind)

DayTo(t) ==
    CASE t.op.kind = "begin-day" -> IF t.saw[Closing].status = "none" THEN "open"
                                    ELSE t.saw[Closing].status
      [] t.op.kind = "submit"    -> "submitted"
      [] t.op.kind = "close-day" -> "closed"
      [] t.op.kind = "reopen"    -> "reopened"

DayEffect(t) ==
    [db EXCEPT !.closing.status = DayTo(t),
               !.closing.cash = IF t.op.kind = "reopen" THEN @ ELSE t.saw[Collected]]

-----------------------------------------------------------------------------
\* The queries of a handler, in their order, and what lets it go on after the
\* ones it has made.
Queries(t) ==
    CASE t.op.kind = "open"      -> OpenQueries(t)
      [] t.op.kind = "close"     -> CloseQueries(t)
      [] t.op.kind = "place"     -> PlaceQueries(t)
      [] t.op.kind = "move"      -> MoveQueries(t)
      [] t.op.kind = "ask"       -> AskQueries(t)
      [] t.op.kind = "guest-ask" -> GuestAskQueries(t)
      [] t.op.kind = "bill"      -> BillQueries(t)
      [] t.op.kind = "checkout"  -> CheckoutQueries(t)
      [] t.op.kind = "collect"   -> CollectQueries(t)
      [] t.op.kind = "void"      -> VoidQueries(t)
      [] OTHER                   -> DayQueries(t)

GoesOn(t) ==
    CASE t.op.kind = "open"      -> OpenGoesOn(t)
      [] t.op.kind = "close"     -> CloseGoesOn(t)
      [] t.op.kind = "place"     -> PlaceGoesOn(t)
      [] t.op.kind = "move"      -> MoveGoesOn(t)
      [] t.op.kind = "ask"       -> AskGoesOn(t)
      [] t.op.kind = "guest-ask" -> GuestAskGoesOn(t)
      [] t.op.kind = "bill"      -> BillGoesOn(t)
      [] t.op.kind = "checkout"  -> CheckoutGoesOn(t)
      [] t.op.kind = "collect"   -> CollectGoesOn(t)
      [] t.op.kind = "void"      -> VoidGoesOn(t)
      [] OTHER                   -> DayGoesOn(t)

\* What the request is about and the client was shown.
Named(op) ==
    CASE op.kind \in {"close", "ask", "guest-ask"} -> {SessionRow(op.session)}
      [] op.kind = "place" -> IF op.session = NoSession THEN {} ELSE {SessionRow(op.session)}
      [] op.kind = "move"  -> {OrderRow(op.order)}
      [] op.kind = "bill"  -> {op.source}
      [] op.kind \in {"collect", "void"} -> {InvoiceRow(op.invoice)}
      [] OTHER -> {}

Shown(op) ==
    IF op.kind \in {"close", "ask", "move", "bill"}
    THEN LET r == CHOOSE x \in Named(op) : TRUE IN Row(r).version
    ELSE 0

Begin(w) == \E op \in Requests :
    /\ w \notin DOMAIN work
    /\ \A r \in Named(op) : Row(r).status # "none"
    /\ OpenTxn(w, op, Shown(op))
    /\ UNCHANGED db

Query(w) ==
    /\ w \in DOMAIN work
    /\ work[w].at <= Len(Queries(work[w]))
    /\ GoesOn(work[w])
    /\ LET q == Queries(work[w])[work[w].at]
       IN  Load(w, q.lock, [r \in q.look |-> Row(r)], q.refresh)
    /\ UNCHANGED db

\* A refusal, an answer to a used key, or any error.
RollBack(w) ==
    /\ w \in DOMAIN work
    /\ EndTxn(w)
    /\ UNCHANGED db

\* A handler of one of these kinds has made its queries and writes.
Writes(w, kinds) ==
    /\ w \in DOMAIN work
    /\ work[w].op.kind \in kinds
    /\ work[w].at > Len(Queries(work[w]))
    /\ GoesOn(work[w])

\* uq_table_sessions_one_active_per_table.
OneActive(next) ==
    Cardinality({s \in Sessions : next.session[s].status \in ActiveTable}) <= 1

OpenTable(w) ==
    /\ Writes(w, {"open"})
    /\ db.session[work[w].op.session].status = "none"
    /\ OneActive(OpenEffect(work[w]))
    /\ CommitTxn(w, {}, OpenEffect(work[w]))

CloseTable(w) ==
    /\ Writes(w, {"close"})
    /\ CommitTxn(w, {SessionRow(work[w].op.session)}, CloseEffect(work[w]))

PlaceOrder(w) ==
    /\ Writes(w, {"place"})
    /\ db.order[work[w].op.order].status = "none"
    /\ CommitTxn(w, {OrderRow(work[w].op.order)}, PlaceEffect(work[w]))

MoveOrder(w) ==
    /\ Writes(w, {"move"})
    /\ CommitTxn(w, {OrderRow(work[w].op.order)}, MoveEffect(work[w]))

RequestBill(w) ==
    /\ Writes(w, {"ask"})
    /\ CommitTxn(w, {SessionRow(work[w].op.session)} \cup {OrderRow(o) : o \in Asked(work[w])},
                 AskEffect(work[w]))

GuestRequestsBill(w) ==
    /\ Writes(w, {"guest-ask"})
    /\ OneActive(GuestAskEffect(work[w]))
    /\ CommitTxn(w, {SessionRow(work[w].op.session)}, GuestAskEffect(work[w]))

Bill(w) ==
    /\ Writes(w, {"bill"})
    /\ NumberLeft
    /\ InvoiceIsNew(work[w], work[w].op.source)
    /\ CommitTxn(w, {work[w].op.source} \cup {OrderRow(o) : o \in Eligible(work[w])},
                 BillEffect(work[w]))

Checkout(w) ==
    /\ Writes(w, {"checkout"})
    /\ NumberLeft
    /\ db.order[work[w].op.order].status = "none"
    /\ InvoiceIsNew(work[w], OrderRow(work[w].op.order))
    /\ CommitTxn(w, {OrderRow(work[w].op.order)}, CheckoutEffect(work[w]))

Collect(w) ==
    /\ Writes(w, {"collect"})
    /\ CommitTxn(w, {InvoiceRow(work[w].op.invoice)}, CollectEffect(work[w]))

Void(w) ==
    /\ Writes(w, {"void"})
    /\ db.reversal[work[w].op.key].invoice = None
    /\ CommitTxn(w, {InvoiceRow(work[w].op.invoice)}, VoidEffect(work[w]))

TurnDay(w) ==
    /\ Writes(w, {"begin-day", "submit", "close-day", "reopen"})
    /\ CommitTxn(w, {Closing}, DayEffect(work[w]))

Next == \E w \in Workers :
    \/ Begin(w) \/ Query(w) \/ RollBack(w)
    \/ OpenTable(w) \/ CloseTable(w)
    \/ PlaceOrder(w) \/ MoveOrder(w)
    \/ RequestBill(w) \/ GuestRequestsBill(w)
    \/ Bill(w) \/ Checkout(w) \/ Collect(w)
    \/ Void(w) \/ TurnDay(w)

Spec == Init /\ [][Next]_vars

-----------------------------------------------------------------------------
\* Two requests never hold the same row: whatever waits and rolls back, a
\* row that with_for_update() names has one owner.
LocksAreExclusive ==
    \A v, w \in DOMAIN work : v # w => work[v].locked \cap work[w].locked = {}

\* A bill's total is the price of the orders that point at it, an order points
\* at a bill exactly when it was billed, and whoever pays the last part of a
\* bill releases its orders: nothing is charged twice, left off or left open,
\* though kitchen, waiters and cashiers move the orders meanwhile.
BillsCoverTheirOrders ==
    /\ \A i \in Invoices :
          db.invoice[i].total = Amount({o \in Orders : db.order[o].invoice = i})
    /\ \A o \in Orders :
          LET i == db.order[o].invoice
          IN  /\ i # None <=> db.order[o].status \in {"billed", "closed"}
              /\ i # None /\ db.invoice[i].status = "paid" => db.order[o].status = "closed"

\* What an invoice says was paid is the sum of its payments, its balance is
\* the rest, and the customer owes exactly that balance, although collections
\* and voids of the same invoice run side by side.
CafeInvoicesReconcile ==
    \A i \in Invoices :
        LET invoice == db.invoice[i]
        IN  /\ invoice.paid = db.received[i]
            /\ Live(i) => /\ invoice.due = invoice.total - invoice.paid
                          /\ invoice.status = Settled(invoice.total, invoice.paid)
                          /\ db.owed[i] = IF invoice.customer THEN invoice.due ELSE 0

\* Between the submission of a day and its reopening no Cafe bill or
\* collection adds a payment (docs/CAFE_V1_RELEASE.md:26), whichever of them
\* had read the day as open.
NothingIsCollectedAfterTheCount ==
    [][ {db.closing.status, db'.closing.status} \subseteq {"submitted", "closed"}
          => db'.received = db.received ]_vars

\* Nobody writes over an order he has not seen: every change of an order
\* raises its version, along the transitions the code allows.
OrdersAreNotOverwritten ==
    [][ \A o \in Orders : db'.order[o] # db.order[o] =>
          \/ db.order[o].status = "none"
          \/ /\ db'.order[o].version > db.order[o].version
             /\ \/ db'.order[o].status \in MovesFrom(db.order[o].status)
                \/ /\ db.order[o].status \in {"accepted", "served", "bill_requested"}
                   /\ db'.order[o].status \in {"billed", "closed"}
                \/ db.order[o].status = "billed" /\ db'.order[o].status = "closed" ]_vars

=============================================================================
