----------------------------- MODULE Purchasing -----------------------------
(***************************************************************************)
(* The purchase orders of one branch and the stock they announce and       *)
(* bring: apps/web/src/server/purchasing.ts, the orders handler.ts makes   *)
(* from recommendations and the manual adjustments of inventory.ts, as     *)
(* handlers run them in MongoDB snapshot transactions.  A request may      *)
(* reach the server any number of times.                                   *)
(*                                                                         *)
(* A line of an order is a product: quantities are functions on Products,  *)
(* 0 where a product is not on the order.  The rows of the logs            *)
(* (audit_events, stock_movements) take their ids from counters every      *)
(* handler writes; these are left out, so that more handlers run side by   *)
(* side here than in the database.                                         *)
(***************************************************************************)
EXTENDS SnapshotTxn, Integers, Sequences, FiniteSetsExt

CONSTANTS
    Requests,       \* the requests the clients may send
    Products,       \* active products of one supplier
    OpeningStock,   \* inventory.quantity_scaled of the products that have a row
    Stocked,        \* ... and these products
    MaxOrder,       \* bound on the purchase order counter
    MaxPosts        \* bound on how often one keyless request is applied

Orders == 1..MaxOrder
Quantities == [Products -> Nat]
NoKey == 0

CreateRequests  == [kind: {"create"}, id: Nat, key: Nat, orders: Seq(Quantities)]
EditRequests    == [kind: {"edit"}, id: Nat, key: Nat, order: Orders, items: Quantities]
MoveRequests    == [kind: {"submit", "approve", "mark-ordered", "cancel"},
                    id: Nat, key: Nat, order: Orders]
ReceiveRequests == [kind: {"receive"}, id: Nat, key: Nat, order: Orders, items: Quantities]
AdjustRequests  == [kind: {"adjust"}, id: Nat, key: {NoKey}, product: Products, change: Int]

ASSUME PurchasingAssumption ==
    /\ OpeningStock \in Nat /\ Stocked \subseteq Products
    /\ MaxOrder \in Nat /\ MaxPosts \in Nat
    /\ Requests \subseteq CreateRequests \cup EditRequests \cup MoveRequests
                            \cup ReceiveRequests \cup AdjustRequests
    /\ \A q, r \in Requests : q.id = r.id => q = r
    /\ IsFiniteSet(Requests)    \* GoodsReconcile adds up over the adjustments

VARIABLE applied    \* history: how often a request was committed

vars == <<db, run, applied>>

Zero == [x \in Products |-> 0]
NoOrder == [status |-> "none", ordered |-> Zero, received |-> Zero, remaining |-> Zero]

\* moved[o] is the sum of the stock_movements that refer to order o.
Init ==
    /\ db = [order     |-> [o \in Orders |-> NoOrder],
             lastOrder |-> 0,
             stock     |-> [x \in Products |->
                              [row     |-> x \in Stocked,
                               onHand  |-> IF x \in Stocked THEN OpeningStock ELSE 0,
                               onOrder |-> 0]],
             moved     |-> [o \in Orders |-> Zero],
             opkeys    |-> {}]
    /\ run = [h \in {} |-> 0]
    /\ applied = [r \in Requests |-> 0]

\* Names of the documents a transaction may conflict on.
OrderDoc(o)    == <<"purchase_order", o>>
StockDoc(x)    == <<"inventory", x>>
OrderCounter   == <<"counter", "purchase_orders">>
StockCounter   == <<"counter", "inventory">>
KeyDoc(k)      == <<"operation_key", k>>

\* The operation_keys _id: the route, with the order's id, is part of it.
OpKey(r) == <<r.kind, IF r.kind = "create" THEN 0 ELSE r.order, r.key>>
Keyed(r) == r.key # NoKey

\* A key that was used: the first result again or, for another body, a 409.
Replayed(t) == Keyed(t.op) /\ OpKey(t.op) \in t.snap.opkeys

KeyDocs(r) == IF Keyed(r) THEN {KeyDoc(OpKey(r))} ELSE {}
KeyUsed(r) == IF Keyed(r) THEN {OpKey(r)} ELSE {}

-----------------------------------------------------------------------------
(* POST purchase-orders, POST purchase-orders/from-recommendations (one     *)
(* order for every branch and supplier, all in one transaction), PUT        *)
(* purchase-orders/:id.                                                     *)
Draft(items) == [status |-> "draft", ordered |-> items, received |-> Zero, remaining |-> items]

CreateAllowed(t) ==
    /\ ~Replayed(t)
    /\ t.snap.lastOrder + Len(t.op.orders) <= MaxOrder
    /\ \A i \in DOMAIN t.op.orders : t.op.orders[i] # Zero

CreateWrites(t) ==
    {OrderCounter} \cup {OrderDoc(t.snap.lastOrder + i) : i \in DOMAIN t.op.orders}
        \cup KeyDocs(t.op)

CreateEffect(t) ==
    LET last == t.snap.lastOrder
    IN  [db EXCEPT
          !.order = [o \in Orders |-> IF o - last \in DOMAIN t.op.orders
                                      THEN Draft(t.op.orders[o - last]) ELSE @[o]],
          !.lastOrder = last + Len(t.op.orders),
          !.opkeys = @ \cup KeyUsed(t.op)]

\* Mutant: an order that was submitted can still be edited.
EditAllowedLate(t) ==
    /\ ~Replayed(t)
    /\ t.snap.order[t.op.order].status \in {"draft", "pending_approval"}
    /\ t.op.items # Zero

EditAllowed(t) ==
    /\ ~Replayed(t)
    /\ t.snap.order[t.op.order].status = "draft"
    /\ t.op.items # Zero

EditWrites(t) == {OrderDoc(t.op.order)} \cup KeyDocs(t.op)

EditEffect(t) ==
    [db EXCEPT !.order[t.op.order] = [Draft(t.op.items) EXCEPT
                                       !.status = t.snap.order[t.op.order].status],
               !.opkeys = @ \cup KeyUsed(t.op)]

-----------------------------------------------------------------------------
(* POST purchase-orders/:id/(submit|approve|mark-ordered|cancel|receive).   *)
Underway == {"ordered", "partially_received"}
Open == {"draft", "pending_approval", "approved"} \cup Underway

From(action) ==
    CASE action = "submit"       -> {"draft"}
      [] action = "approve"      -> {"pending_approval"}
      [] action = "mark-ordered" -> {"approved"}
      [] action = "cancel"       -> Open
      [] action = "receive"      -> Underway

\* Mutant: a cancellation takes back what a fresh order announced only.
OnOrderChangeFresh(t) ==
    LET order == t.snap.order[t.op.order]
    IN  CASE t.op.kind = "mark-ordered" -> order.remaining
          [] t.op.kind = "cancel" /\ order.status = "ordered" ->
               [x \in Products |-> -order.remaining[x]]
          [] t.op.kind = "receive" -> [x \in Products |-> -t.op.items[x]]
          [] OTHER -> Zero

\* What the action adds to on_order, by product.
OnOrderChange(t) ==
    LET order == t.snap.order[t.op.order]
    IN  CASE t.op.kind = "mark-ordered" -> order.remaining
          [] t.op.kind = "cancel" /\ order.status \in Underway ->
               [x \in Products |-> -order.remaining[x]]
          [] t.op.kind = "receive" -> [x \in Products |-> -t.op.items[x]]
          [] OTHER -> Zero

Touched(t) == {x \in Products : OnOrderChange(t)[x] # 0}

\* "On-order stock is inconsistent."
OnOrderStays(t) ==
    \A x \in Touched(t) : t.snap.stock[x].onOrder + OnOrderChange(t)[x] >= 0

MoveAllowed(t) ==
    /\ ~Replayed(t)
    /\ t.snap.order[t.op.order].status \in From(t.op.kind)
    /\ OnOrderStays(t)

ReceiveAllowed(t) ==
    /\ MoveAllowed(t)
    /\ t.op.items # Zero
    /\ \A x \in Products : t.op.items[x] <= t.snap.order[t.op.order].remaining[x]

\* Mutant: the order is not written, only the stock.
MoveWritesStockOnly(t) == {StockDoc(x) : x \in Touched(t)} \cup KeyDocs(t.op)

MoveWrites(t) ==
    {OrderDoc(t.op.order)} \cup {StockDoc(x) : x \in Touched(t)}
        \cup (IF \E x \in Touched(t) : ~t.snap.stock[x].row THEN {StockCounter} ELSE {})
        \cup KeyDocs(t.op)

\* The stock with its on_order changed, a row inserted where there was none.
Announced(t) ==
    [x \in Products |->
        IF x \in Touched(t)
        THEN [db.stock[x] EXCEPT !.row = TRUE, !.onOrder = @ + OnOrderChange(t)[x]]
        ELSE db.stock[x]]

MovedTo(action) ==
    CASE action = "submit"       -> "pending_approval"
      [] action = "approve"      -> "approved"
      [] action = "mark-ordered" -> "ordered"
      [] action = "cancel"       -> "cancelled"

MoveEffect(t) ==
    [db EXCEPT !.order[t.op.order] = [t.snap.order[t.op.order] EXCEPT
                                       !.status = MovedTo(t.op.kind)],
               !.stock = Announced(t),
               !.opkeys = @ \cup KeyUsed(t.op)]

\* The order with the goods of t added to what was received.
Arrived(t) ==
    LET order == t.snap.order[t.op.order]
        left  == [x \in Products |-> order.remaining[x] - t.op.items[x]]
    IN  [order EXCEPT
          !.received  = [x \in Products |-> @[x] + t.op.items[x]],
          !.remaining = left,
          !.status    = IF left = Zero THEN "received" ELSE "partially_received"]

ReceiveEffect(t) ==
    [db EXCEPT !.order[t.op.order] = Arrived(t),
               !.stock = [x \in Products |->
                            [Announced(t)[x] EXCEPT !.onHand = @ + t.op.items[x]]],
               !.moved[t.op.order] = [x \in Products |-> @[x] + t.op.items[x]],
               !.opkeys = @ \cup KeyUsed(t.op)]

-----------------------------------------------------------------------------
(* POST inventory/adjust: a row is inserted where there is none.            *)

AdjustAllowed(t) ==
    /\ t.op.change # 0
    /\ t.snap.stock[t.op.product].onHand + t.op.change >= 0

AdjustWrites(t) ==
    {StockDoc(t.op.product)}
        \cup (IF t.snap.stock[t.op.product].row THEN {} ELSE {StockCounter})

AdjustEffect(t) ==
    [db EXCEPT !.stock[t.op.product].row = TRUE,
               !.stock[t.op.product].onHand = @ + t.op.change]

-----------------------------------------------------------------------------
(* The transactions.                                                        *)
Begin(h) ==
    /\ h \notin DOMAIN run
    /\ \E r \in Requests : OpenTxn(h, r, 0)
    /\ UNCHANGED <<db, applied>>

Execute(h, kinds, Allowed(_), Writes(_), Effect(_)) ==
    /\ h \in DOMAIN run
    /\ LET t == run[h]
       IN  /\ t.op.kind \in kinds
           /\ Allowed(t)
           /\ ~Keyed(t.op) => applied[t.op] < MaxPosts
           /\ CommitTxn(h, Writes(t), Effect(t))
           /\ applied' = [applied EXCEPT ![t.op] = @ + 1]

Moves == {"submit", "approve", "mark-ordered", "cancel"}

CreateOrders(h) == Execute(h, {"create"}, CreateAllowed, CreateWrites, CreateEffect)
EditDraft(h)    == Execute(h, {"edit"}, EditAllowed, EditWrites, EditEffect)
MoveOrder(h)    == Execute(h, Moves, MoveAllowed, MoveWrites, MoveEffect)
ReceiveGoods(h) == Execute(h, {"receive"}, ReceiveAllowed, MoveWrites, ReceiveEffect)
AdjustStock(h)  == Execute(h, {"adjust"}, AdjustAllowed, AdjustWrites, AdjustEffect)

\* A refused request, a replay, a write conflict (the driver begins again), a
\* crash of the invocation.
Abandon(h) ==
    /\ h \in DOMAIN run
    /\ AbortTxn(h)
    /\ UNCHANGED <<db, applied>>

Step(h) ==
    \/ Begin(h) \/ CreateOrders(h) \/ EditDraft(h) \/ MoveOrder(h)
    \/ ReceiveGoods(h) \/ AdjustStock(h) \/ Abandon(h)

Next == \E h \in Handlers : Step(h)

Spec == Init /\ [][Next]_vars

-----------------------------------------------------------------------------
(* Properties.                                                              *)
OrdersIn(statuses) == {o \in Orders : db.order[o].status \in statuses}

\* What a product's row announces as on order is what the orders underway still
\* have to bring: every order that was marked ordered counts until its last
\* receipt or its cancellation, with what is left of it then.
OnOrderReconciles ==
    \A x \in Products :
        db.stock[x].onOrder =
            MapThenSumSet(LAMBDA o : db.order[o].remaining[x], OrdersIn(Underway))

\* An order's receipts, its stock movements and the stock agree: nothing is
\* received twice or lost between two receipts, beyond the order, or before it
\* was ordered, and an order is received when nothing is left of it.
GoodsReconcile ==
    /\ \A o \in Orders :
          LET order == db.order[o]
          IN  /\ order.received = db.moved[o]
              /\ \A x \in Products :
                    order.received[x] + order.remaining[x] = order.ordered[x]
              /\ order.status = "received" => order.remaining = Zero
              /\ order.received # Zero =>
                    order.status \in {"received", "partially_received", "cancelled"}
    /\ \A x \in Products :
          db.stock[x].onHand =
              (IF x \in Stocked THEN OpeningStock ELSE 0)
                + MapThenSumSet(LAMBDA o : db.moved[o][x], Orders)
                + MapThenSumSet(LAMBDA r : applied[r] * r.change,
                                {r \in Requests : r.kind = "adjust" /\ r.product = x})

\* What is approved and ordered is what was submitted: once an order is no
\* draft its quantities stay, whoever had it open for editing.
OrderedAsSubmitted ==
    [][\A o \in Orders :
         db.order[o].status \notin {"none", "draft"} =>
             /\ db'.order[o].ordered = db.order[o].ordered
             /\ db'.order[o].status \notin {"none", "draft"}]_vars
=============================================================================
