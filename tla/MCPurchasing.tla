---------------------------- MODULE MCPurchasing ----------------------------
(***************************************************************************)
(* Instances of Purchasing: two handlers and two menus of requests.         *)
(***************************************************************************)
EXTENDS Purchasing, TLC

CONSTANTS h1, h2, x1, x2

Of(a, b) == x1 :> a @@ x2 :> b

Create(id, key, orders) == [kind |-> "create", id |-> id, key |-> key, orders |-> orders]
Move(id, kind, order) == [kind |-> kind, id |-> id, key |-> NoKey, order |-> order]
Receive(id, key, order, items) ==
    [kind |-> "receive", id |-> id, key |-> key, order |-> order, items |-> items]
Adjust(id, change) ==
    [kind |-> "adjust", id |-> id, key |-> NoKey, product |-> x1, change |-> change]

\* One order of two products through its whole life: a key for two bodies, a
\* receipt without a key, an edit, and stock taken by hand.
OrderMenu ==
    {Create(1, 1, <<Of(2, 1)>>), Create(2, 1, <<Of(1, 0)>>),
     [kind |-> "edit", id |-> 3, key |-> NoKey, order |-> 1, items |-> Of(2, 0)],
     Receive(4, 1, 1, Of(1, 0)), Receive(5, 1, 1, Of(1, 1)),
     Receive(6, NoKey, 1, Of(1, 0)), Adjust(7, -1)}
    \cup {Move(10, "submit", 1), Move(11, "approve", 1), Move(12, "mark-ordered", 1),
          Move(13, "cancel", 1)}

\* Two orders of the same product from one set of recommendations, and the
\* stock row they announce it in, which is made by whoever comes first.
PairMenu ==
    {Create(21, NoKey, <<Of(1, 0), Of(1, 0)>>), Receive(22, NoKey, 2, Of(1, 0)),
     Adjust(23, 1)}
    \cup {Move(30 + o, "submit", o) : o \in 1..2}
    \cup {Move(40 + o, "approve", o) : o \in 1..2}
    \cup {Move(50 + o, "mark-ordered", o) : o \in 1..2}
    \cup {Move(61, "cancel", 1)}

MCRequests == OrderMenu \cup PairMenu

\* Every behaviour keeps to one menu.
Begun == {run[h].op : h \in DOMAIN run} \cup {r \in Requests : applied[r] > 0}
Menu == Begun \subseteq OrderMenu \/ Begun \subseteq PairMenu

MCHandlers == {h1, h2}
MCProducts == {x1, x2}
NoRows == {}
HandlerSymmetry == Permutations(MCHandlers)
=============================================================================
