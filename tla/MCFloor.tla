------------------------------- MODULE MCFloor -------------------------------
(***************************************************************************)
(* Instances of CafeFloor: two handlers, one table and menus of requests.  *)
(***************************************************************************)
EXTENDS CafeFloor, TLC

CONSTANTS h1, h2, t1

Open == [kind |-> "open", table |-> t1]
Order(id, session) ==
    [kind |-> "order", id |-> id, session |-> session, token |-> None]
Move(order, move) == [kind |-> "move", order |-> order, move |-> move]
Ask(token) == [kind |-> "ask", session |-> 1, token |-> token]
Close(cancel) == [kind |-> "close", session |-> 1, cancel |-> cancel]
Bill(id, session, order, paid) ==
    [kind |-> "bill", id |-> id, session |-> session, order |-> order, paid |-> paid]
Collect == [kind |-> "collect", id |-> 6, invoice |-> 1, amount |-> 1]
Void == [kind |-> "void", id |-> 7, invoice |-> 1]

\* Two sessions of the table one after the other: orders of the staff, the
\* kitchen, the request for the bill, the bill, its collection and its void.
SessionMenu ==
    {Open, Order(1, 1), Order(2, 1), Order(3, 2), Move(1, "accept"),
     Move(2, "accept"), Move(1, "cancel"), Move(2, "reject"), Ask(None),
     Close(FALSE), Bill(4, 1, None, 1), Bill(5, 1, None, 0), Collect, Void}

\* A cashier is shown the quote of the session, then bills it.
QuoteMenu ==
    {Open, Order(21, 1), Order(22, 1), Move(1, "accept"), Move(2, "accept"),
     Move(2, "cancel"), Ask(None), [kind |-> "quote", session |-> 1],
     Bill(5, 1, None, 0)}

\* The table's QR token is rotated and revoked while a guest orders, sends the
\* order again and asks for the bill, and while the table is edited or
\* deactivated.
GuestOrder == [kind |-> "order", id |-> 9, session |-> 1, token |-> 1]
GuestMenu ==
    {Open, GuestOrder, Move(1, "accept"), Move(1, "reject"), Ask(1), Close(TRUE)}
    \cup [kind: {"edit"}, table: {t1}, active: BOOLEAN]
    \cup [kind: {"deactivate", "rotate", "revoke"}, table: {t1}]

\* A takeaway order through the kitchen while it is billed, twice, collected,
\* cancelled and voided.
CounterMenu ==
    {Order(11, None), Bill(13, None, 1, 0), Bill(14, None, 1, 1), Collect, Void}
    \cup {Move(1, m) : m \in Moves}

MCRequests == SessionMenu \cup QuoteMenu \cup GuestMenu \cup CounterMenu

\* Every behaviour keeps to one menu.
Ops == {run[h].op : h \in DOMAIN run} \cup {arrived[h] : h \in DOMAIN arrived}
OrderedBy == {db.order[o].request : o \in Orders} \ {0}
AsSetUp == db.lastToken = 0 /\ \A t \in Tables : db.table[t].is_active
NoQuotes == \A s \in Sessions : quoted[s] = {}
Menu ==
    \/ /\ Ops \subseteq SessionMenu
       /\ OrderedBy \subseteq {1, 2, 3}
       /\ AsSetUp /\ db.lastInvoice <= 1 /\ NoQuotes
    \/ /\ Ops \subseteq QuoteMenu
       /\ OrderedBy \subseteq {21, 22}
       /\ AsSetUp /\ db.lastSession <= 1 /\ db.lastInvoice <= 1
    \/ /\ Ops \subseteq GuestMenu
       /\ OrderedBy \subseteq {9}
       /\ db.lastSession <= 1 /\ db.lastInvoice = 0 /\ NoQuotes
    \/ /\ Ops \subseteq CounterMenu
       /\ OrderedBy \subseteq {11}
       /\ AsSetUp /\ db.lastSession = 0

MCHandlers == {h1, h2}
MCTables == {t1}
HandlerSymmetry == Permutations(MCHandlers)
=============================================================================
