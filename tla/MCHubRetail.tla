---------------------------- MODULE MCHubRetail -----------------------------
(***************************************************************************)
(* Instances of HubRetail: two requests at a time, two invoices that share *)
(* a product there is too little of, a third of another one.               *)
(***************************************************************************)
EXTENDS HubRetail, TLC

CONSTANTS w1, w2, i1, i2, i3, p1, p2, c1, v1

MCWorkers == {w1, w2}
MCInvoices == {i1, i2, i3}
MCProducts == {p1, p2}
MCCustomers == {c1}
MCVoidKeys == {v1}
MCLine ==
    i1 :> [product |-> p1, quantity |-> 2, total |-> 2, customer |-> c1]
    @@ i2 :> [product |-> p1, quantity |-> 2, total |-> 3, customer |-> None]
    @@ i3 :> [product |-> p2, quantity |-> 1, total |-> 2, customer |-> c1]
MCOpening == p1 :> 3 @@ p2 :> 1
MCCreditLimit == c1 :> 3

DraftOf(i)     == [kind |-> "draft", invoice |-> i]
IssueOf(i, n)  == [kind |-> "issue", invoice |-> i, pay |-> n]
CheckoutOf(i, n) == [kind |-> "checkout", invoice |-> i, pay |-> n]
CancelOf(i)    == [kind |-> "cancel", invoice |-> i]
PayOf(i, n, m) == [kind |-> "pay", invoice |-> i, pay |-> n, nr |-> m]
VoidOf(i)      == [kind |-> "void", invoice |-> i, key |-> v1]
SellOf(p, n)   == [kind |-> "sell", product |-> p, quantity |-> n]
AdjustOf(p, n) == [kind |-> "adjust", product |-> p, change |-> n]
SettleOf(n)    == [kind |-> "settle", customer |-> c1, pay |-> n]

\* A morning at the counter: a draft that two clerks issue and a third
\* cancels, checkouts for cash and on credit, a collection of each kind, a
\* void, the last unit sold without an invoice, units found again.
CounterMenu ==
    {DraftOf(i1), IssueOf(i1, 1), IssueOf(i1, 2), CancelOf(i1), PayOf(i1, 1, 1), VoidOf(i1),
     CheckoutOf(i2, 3), CheckoutOf(i3, 0), SettleOf(1),
     SellOf(p1, 1), AdjustOf(p1, 1)}

\* One sale on credit and two collections of it.
PaymentMenu == {CheckoutOf(i1, 0), PayOf(i1, 1, 1), PayOf(i1, 1, 2)}

WorkerSymmetry == Permutations(MCWorkers)
=============================================================================
