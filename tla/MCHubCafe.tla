----------------------------- MODULE MCHubCafe -----------------------------
(***************************************************************************)
(* Instances of HubCafe: two requests at a time, a table with two orders,  *)
(* a counter order, two invoice numbers.                                   *)
(***************************************************************************)
EXTENDS HubCafe, TLC

CONSTANTS w1, w2, s1, o1, o2, o3, k1, k2, v1

Session(kind)  == [kind |-> kind, session |-> s1]
Place(o, s)    == [kind |-> "place", order |-> o, session |-> s]
Move(o, to)    == [kind |-> "move", order |-> o, to |-> to]
BillOf(source, key, pay, customer) ==
    [kind |-> "bill", source |-> source, key |-> key, pay |-> pay, customer |-> customer]
CheckoutOf(o, key) == [kind |-> "checkout", order |-> o, key |-> key]
CollectOn(i, pay)  == [kind |-> "collect", invoice |-> i, pay |-> pay]
Close(cancel)      == [kind |-> "close", session |-> s1, cancel |-> cancel]
VoidOf(i)          == [kind |-> "void", invoice |-> i, key |-> v1]
Day == {[kind |-> k] : k \in {"begin-day", "submit", "close-day", "reopen"}}

\* A table from its opening to its settlement, with everything that may cross
\* it: two bills under two keys, part payments, a kitchen that moves an order,
\* the request for the bill, closing by hand.
TableMenu ==
    {Session("open"), Session("ask"), Session("guest-ask"), Close(FALSE)}
    \cup {Place(o1, s1), Place(o2, s1)}
    \cup {Move(o1, to) : to \in {"accepted", "preparing", "ready", "served", "bill_requested"}}
    \cup {Move(o2, to) : to \in {"accepted", "cancelled"}}
    \cup {BillOf(SessionRow(s1), k1, 2, FALSE), BillOf(SessionRow(s1), k2, 1, TRUE)}
    \cup {CollectOn(1, 1), CollectOn(1, 2)}

\* A day: a counter order, checkouts under one key, a bill on credit and what
\* is collected of it, a void, and the count.
DayMenu ==
    Day \cup {Place(o3, NoSession), Move(o3, "accepted"),
              BillOf(OrderRow(o3), k1, 1, TRUE), CheckoutOf(o1, k2), CheckoutOf(o2, k1),
              CollectOn(1, 1), VoidOf(1)}

MCRequests == TableMenu \cup DayMenu
MCWorkers == {w1, w2}
MCSessions == {s1}
MCOrders == {o1, o2, o3}
MCPrice == o1 :> 2 @@ o2 :> 1 @@ o3 :> 3
MCKeys == {k1, k2}
MCVoidKeys == {v1}

\* Either story, from its beginning: what is underway belongs to it, and so
\* does what was done before.
OneStory ==
    \/ /\ \A w \in DOMAIN work : work[w].op \in TableMenu
       /\ db.closing.status = "none"
       /\ \A o \in MCOrders : db.order[o].status # "none" => db.order[o].session = s1
    \/ /\ \A w \in DOMAIN work : work[w].op \in DayMenu
       /\ db.session[s1].status = "none"

WorkerSymmetry == Permutations(MCWorkers)
=============================================================================
