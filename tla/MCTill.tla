------------------------------- MODULE MCTill -------------------------------
(***************************************************************************)
(* Instances of BranchTill: two handlers and three menus of requests.      *)
(***************************************************************************)
EXTENDS BranchTill, TLC

CONSTANTS h1, h2, c1, c2

Sale(id, key, customer, total, paid) ==
    [kind |-> "sale", id |-> id, key |-> key, customer |-> customer,
     total |-> total, paid |-> paid, quantity |-> 0, date |-> NoDate,
     draft |-> 0]
Collect(id, key) ==
    [kind |-> "collect", id |-> id, key |-> key, invoice |-> 1, amount |-> 1]
Day(id, kind, d) == [kind |-> kind, id |-> id, date |-> d]

\* A branch across a midnight: the closing of two days against checkouts, one
\* of them dated by the client, and a collection on an invoice.
DayMenu ==
    {Sale(101, 101, c1, 2, 1), [Sale(102, 102, c1, 2, 1) EXCEPT !.date = 1],
     Collect(103, 101), Day(30, "reopen", 2)}
    \cup {Day(10 + d, "open", d) : d \in 1..2}
    \cup {Day(20 + d, "submit", d) : d \in 1..2}

\* Customer credit: checkouts that race for the same limit, one key sent with
\* two bodies, collections, a void and account payments.
CreditMenu ==
    {Sale(1, 1, c1, 2, 0), Sale(2, 1, c2, 1, 1), Sale(3, 3, c1, 3, 1),
     Collect(4, 1), Collect(5, 2),
     [kind |-> "void", id |-> 6, key |-> 1, invoice |-> 1],
     [kind |-> "account", id |-> 7, customer |-> c1, amount |-> 1]}

\* Stock and drafts: checkouts that race for the last units, a draft issued
\* twice or cancelled meanwhile, adjustments, and the closing.
StockSale(id, quantity, draft) ==
    [Sale(id, id, NoCustomer, 1, 1) EXCEPT !.quantity = quantity, !.draft = draft]
StockMenu ==
    {StockSale(201, 1, 0), StockSale(202, 2, 1), StockSale(203, 2, 1),
     [kind |-> "draft", id |-> 204],
     [kind |-> "cancel", id |-> 205, invoice |-> 1],
     [kind |-> "adjust", id |-> 206, change |-> -1],
     Day(11, "open", 1), Day(21, "submit", 1), Day(40, "close", 1)}

MCRequests == DayMenu \cup CreditMenu \cup StockMenu

\* Every behaviour keeps to one menu.  In the first the calendar moves on, and
\* two of its three postings are made, once each.
Committed(R) == {r \in R : applied[r] > 0}
Begun == {run[h].op : h \in DOMAIN run} \cup Committed(Requests)
NoDayIsFinished == \A d \in Days : db.closing[d].status = "none"
Menu ==
    \/ /\ Begun \subseteq DayMenu
       /\ Cardinality(Committed(DayMenu)) <= 2
       /\ \A r \in DayMenu : applied[r] <= 1
    \/ Begun \subseteq CreditMenu /\ today = 1 /\ NoDayIsFinished
    \/ Begun \subseteq StockMenu /\ today = 1

MCHandlers == {h1, h2}
MCCustomers == {c1, c2}
HandlerSymmetry == Permutations(MCHandlers)
=============================================================================
