-------------------------- MODULE PurchasingProofs --------------------------
(***************************************************************************)
(* The purchase orders of a branch and the stock they announce and bring,  *)
(* for every set of requests, products and handlers.                       *)
(*                                                                         *)
(* A handler writes every order it changes, so that the order it read is   *)
(* the order that is there when it commits (Seen, SnapIsCurrent).  The     *)
(* rest is about one order at a time: what it announces and has brought,   *)
(* and the sums of these over all orders.                                  *)
(***************************************************************************)
EXTENDS Purchasing, Sums, TLAPS

Statuses == {"none", "received", "cancelled"} \cup Open
OrderType == [status: Statuses, ordered: Quantities, received: Quantities,
              remaining: Quantities]
StockType == [row: BOOLEAN, onHand: Int, onOrder: Int]

HasFields(s) ==
    /\ s = [order |-> s.order, lastOrder |-> s.lastOrder, stock |-> s.stock,
            moved |-> s.moved, opkeys |-> s.opkeys]
    /\ s.order \in [Orders -> OrderType]
    /\ s.lastOrder \in Nat
    /\ s.stock \in [Products -> StockType]
    /\ s.moved \in [Orders -> Quantities]

IsTxn(t) ==
    /\ t = [op |-> t.op, snap |-> t.snap, day |-> t.day, missed |-> t.missed]
    /\ t.op \in Requests
    /\ HasFields(t.snap)

\* What an open transaction has not missed is as in its snapshot.
Seen(t) ==
    /\ \A o \in Orders : OrderDoc(o) \notin t.missed => t.snap.order[o] = db.order[o]
    /\ OrderCounter \notin t.missed => t.snap.lastOrder = db.lastOrder

ShapeInv ==
    /\ HasFields(db)
    /\ \A o \in Orders : o > db.lastOrder => db.order[o] = NoOrder
    /\ applied \in [Requests -> Nat]
    /\ \A h \in DOMAIN run : IsTxn(run[h]) /\ Seen(run[h])

\* An order and the sum of its stock movements.
OrderRight(order, moved) ==
    /\ order.received = moved
    /\ \A x \in Products : order.received[x] + order.remaining[x] = order.ordered[x]
    /\ order.status = "received" => order.remaining = Zero
    /\ order.received # Zero =>
          order.status \in {"received", "partially_received", "cancelled"}

OrdersInv == \A o \in Orders : OrderRight(db.order[o], db.moved[o])

\* What an order still brings of product x, and what all orders bring.
Brings(order, x) == IF order.status \in Underway THEN order.remaining[x] ELSE 0
Coming(orders, x) == SumOver(Orders, [o \in Orders |-> Brings(orders[o], x)])
Came(moved, x) == SumOver(Orders, [o \in Orders |-> moved[o][x]])

\* What request r has adjusted of product x, applied so many times.
Adjusts(r, x) == r.kind = "adjust" /\ r.product = x
Adjustment(r, times, x) == IF Adjusts(r, x) THEN times * r.change ELSE 0
Adjusted(times, x) ==
    SumOver(Requests, [r \in Requests |-> Adjustment(r, times[r], x)])

Opened(x) == IF x \in Stocked THEN OpeningStock ELSE 0

StockInv ==
    \A x \in Products :
        /\ db.stock[x].onOrder = Coming(db.order, x)
        /\ db.stock[x].onHand = Opened(x) + Came(db.moved, x) + Adjusted(applied, x)

PurchasingInv == ShapeInv /\ OrdersInv /\ StockInv

\* An order that was submitted keeps its quantities.
Stays(old, new) ==
    old.status \notin {"none", "draft"} =>
        new.ordered = old.ordered /\ new.status \notin {"none", "draft"}

OrdersStay == \A o \in Orders : Stays(db.order[o], db'.order[o])

-----------------------------------------------------------------------------
(* Types.                                                                   *)

LEMMA KindOf ==
    ASSUME NEW r \in Requests
    PROVE  /\ r.kind = "create" => r \in CreateRequests
           /\ r.kind = "edit" => r \in EditRequests
           /\ r.kind \in {"submit", "approve", "mark-ordered", "cancel"} => r \in MoveRequests
           /\ r.kind = "receive" => r \in ReceiveRequests
           /\ r.kind = "adjust" => r \in AdjustRequests
  BY PurchasingAssumption
  DEF CreateRequests, EditRequests, MoveRequests, ReceiveRequests, AdjustRequests

LEMMA ZeroType == Zero \in Quantities /\ \A x \in Products : Zero[x] = 0
  BY DEF Zero, Quantities

LEMMA NoOrderType == NoOrder \in OrderType
  BY ZeroType DEF NoOrder, OrderType, Statuses

LEMMA OrderFields ==
    ASSUME NEW o \in OrderType
    PROVE  /\ o.status \in Statuses /\ o.ordered \in Quantities
           /\ o.received \in Quantities /\ o.remaining \in Quantities
           /\ \A x \in Products : /\ o.ordered[x] \in Nat /\ o.received[x] \in Nat
                                  /\ o.remaining[x] \in Nat
  BY DEF OrderType, Quantities

LEMMA AnnouncedRow ==
    ASSUME NEW s \in StockType, NEW c \in Int, NEW row,
           row = [s EXCEPT !.row = TRUE, !.onOrder = @ + c]
    PROVE  row \in StockType /\ row.onOrder = s.onOrder + c /\ row.onHand = s.onHand
  <1>1. PICK inserted : inserted = [s EXCEPT !.row = TRUE]
    OBVIOUS
  <1>2. inserted \in StockType /\ inserted.onOrder = s.onOrder /\ inserted.onHand = s.onHand
    BY <1>1 DEF StockType
  <1>3. s.onOrder + c \in Int
    BY DEF StockType
  <1>4. row = [inserted EXCEPT !.onOrder = s.onOrder + c]
    BY <1>1
  <1> QED BY <1>2, <1>3, <1>4 DEF StockType

LEMMA StockedRow ==
    ASSUME NEW s \in StockType, NEW c \in Int, NEW row,
           row = [s EXCEPT !.row = TRUE, !.onHand = @ + c]
    PROVE  row \in StockType /\ row.onHand = s.onHand + c /\ row.onOrder = s.onOrder
  <1>1. PICK inserted : inserted = [s EXCEPT !.row = TRUE]
    OBVIOUS
  <1>2. inserted \in StockType /\ inserted.onHand = s.onHand /\ inserted.onOrder = s.onOrder
    BY <1>1 DEF StockType
  <1>3. s.onHand + c \in Int
    BY DEF StockType
  <1>4. row = [inserted EXCEPT !.onHand = s.onHand + c]
    BY <1>1
  <1> QED BY <1>2, <1>3, <1>4 DEF StockType

LEMMA OrdersFinite == IsFiniteSet(Orders)
  BY PurchasingAssumption, FS_Interval DEF Orders

-----------------------------------------------------------------------------
(* The sums over the orders and the requests.                               *)

LEMMA BringsInt ==
    ASSUME NEW o \in OrderType, NEW x \in Products
    PROVE  Brings(o, x) \in Int
  BY OrderFields DEF Brings

LEMMA ComingChanges ==
    ASSUME NEW orders \in [Orders -> OrderType], NEW n \in Orders, NEW v \in OrderType,
           NEW x \in Products
    PROVE  /\ Coming([orders EXCEPT ![n] = v], x)
                = Coming(orders, x) + Brings(v, x) - Brings(orders[n], x)
           /\ Coming(orders, x) \in Int
  <1> DEFINE new == [orders EXCEPT ![n] = v]
             f == [o \in Orders |-> Brings(orders[o], x)]
             h == [o \in Orders |-> Brings(new[o], x)]
  <1>1. \A o \in Orders : f[o] \in Int
    BY BringsInt
  <1>2. /\ f[n] = Brings(orders[n], x) /\ h[n] = Brings(v, x)
        /\ \A o \in Orders \ {n} : f[o] = h[o]
    OBVIOUS
  <1>3. Brings(v, x) \in Int
    BY BringsInt
  <1>4. \A o \in Orders : h[o] \in Int
    BY <1>1, <1>2, <1>3
  <1>5. Coming(orders, x) = SumOver(Orders, f) /\ Coming(new, x) = SumOver(Orders, h)
    BY DEF Coming
  <1> HIDE DEF f, h
  <1>6. SumOver(Orders, h) = SumOver(Orders, f) + h[n] - f[n]
    BY <1>1, <1>2, <1>4, OrdersFinite, SumChange
  <1>7. SumOver(Orders, f) \in Int
    BY <1>1, OrdersFinite, SumInt
  <1> QED BY <1>1, <1>2, <1>3, <1>5, <1>6, <1>7

LEMMA ComingSame ==
    ASSUME NEW orders, NEW new, NEW x,
           \A o \in Orders : Brings(orders[o], x) = Brings(new[o], x)
    PROVE  Coming(orders, x) = Coming(new, x)
  <1> DEFINE f == [o \in Orders |-> Brings(orders[o], x)]
             h == [o \in Orders |-> Brings(new[o], x)]
  <1>1. \A o \in Orders : f[o] = h[o]
    OBVIOUS
  <1> HIDE DEF f, h
  <1>2. SumOver(Orders, f) = SumOver(Orders, h)
    BY <1>1, OrdersFinite, SumSame
  <1> QED BY <1>2 DEF Coming, f, h

LEMMA CameChanges ==
    ASSUME NEW moved \in [Orders -> Quantities], NEW n \in Orders, NEW q \in Quantities,
           NEW x \in Products
    PROVE  /\ Came([moved EXCEPT ![n] = q], x) = Came(moved, x) + q[x] - moved[n][x]
           /\ Came(moved, x) \in Int
  <1> DEFINE new == [moved EXCEPT ![n] = q]
             f == [o \in Orders |-> moved[o][x]]
             h == [o \in Orders |-> new[o][x]]
  <1>1. \A o \in Orders : f[o] \in Int
    BY DEF Quantities
  <1>2. /\ f[n] = moved[n][x] /\ h[n] = q[x]
        /\ \A o \in Orders \ {n} : f[o] = h[o]
    OBVIOUS
  <1>3. q[x] \in Int
    BY DEF Quantities
  <1>4. \A o \in Orders : h[o] \in Int
    BY <1>1, <1>2, <1>3
  <1>5. Came(moved, x) = SumOver(Orders, f) /\ Came(new, x) = SumOver(Orders, h)
    BY DEF Came
  <1> HIDE DEF f, h
  <1>6. SumOver(Orders, h) = SumOver(Orders, f) + h[n] - f[n]
    BY <1>1, <1>2, <1>4, OrdersFinite, SumChange
  <1>7. SumOver(Orders, f) \in Int
    BY <1>1, OrdersFinite, SumInt
  <1> QED BY <1>1, <1>2, <1>3, <1>5, <1>6, <1>7

LEMMA CameInt ==
    ASSUME NEW moved \in [Orders -> Quantities], NEW x \in Products
    PROVE  Came(moved, x) \in Int
  <1> DEFINE f == [o \in Orders |-> moved[o][x]]
  <1>1. \A o \in Orders : f[o] \in Int
    BY DEF Quantities
  <1> HIDE DEF f
  <1>2. SumOver(Orders, f) \in Int
    BY <1>1, OrdersFinite, SumInt
  <1> QED BY <1>2 DEF Came, f

LEMMA AdjustmentInt ==
    ASSUME NEW r \in Requests, NEW n \in Nat, NEW x
    PROVE  Adjustment(r, n, x) \in Int
  <1>1. CASE Adjusts(r, x)
    <2>1. r.change \in Int
      BY <1>1, KindOf DEF Adjusts, AdjustRequests
    <2> QED BY <1>1, <2>1 DEF Adjustment
  <1>2. CASE ~Adjusts(r, x)
    BY <1>2 DEF Adjustment
  <1> QED BY <1>1, <1>2

LEMMA AdjustedChanges ==
    ASSUME NEW times \in [Requests -> Nat], NEW r \in Requests, NEW x
    PROVE  /\ Adjusted([times EXCEPT ![r] = @ + 1], x)
                = Adjusted(times, x) + IF Adjusts(r, x) THEN r.change ELSE 0
           /\ Adjusted(times, x) \in Int
  <1> DEFINE new == [times EXCEPT ![r] = @ + 1]
             f == [q \in Requests |-> Adjustment(q, times[q], x)]
             h == [q \in Requests |-> Adjustment(q, new[q], x)]
             d == IF Adjusts(r, x) THEN r.change ELSE 0
  <1>1. \A q \in Requests : f[q] \in Int
    BY AdjustmentInt
  <1>2. \A q \in Requests : h[q] \in Int
    <2>1. \A q \in Requests : new[q] \in Nat
      OBVIOUS
    <2> QED BY <2>1, AdjustmentInt
  <1>3. \A q \in Requests \ {r} : f[q] = h[q]
    OBVIOUS
  <1>4. d \in Int
    BY KindOf DEF Adjusts, AdjustRequests
  <1>5. h[r] = f[r] + d
    <2>1. f[r] = Adjustment(r, times[r], x) /\ h[r] = Adjustment(r, times[r] + 1, x)
      OBVIOUS
    <2>2. CASE Adjusts(r, x)
      <3>1. f[r] = times[r] * r.change /\ h[r] = (times[r] + 1) * r.change /\ d = r.change
        BY <2>1, <2>2 DEF Adjustment
      <3>2. times[r] \in Nat
        OBVIOUS
      <3> HIDE DEF f, h, d
      <3> QED BY <1>4, <3>1, <3>2
    <2>3. CASE ~Adjusts(r, x)
      BY <2>1, <2>3 DEF Adjustment
    <2> QED BY <2>2, <2>3
  <1>6. Adjusted(times, x) = SumOver(Requests, f) /\ Adjusted(new, x) = SumOver(Requests, h)
    BY DEF Adjusted
  <1>0. IsFiniteSet(Requests)
    BY PurchasingAssumption
  <1> HIDE DEF f, h
  <1>7. SumOver(Requests, h) = SumOver(Requests, f) + h[r] - f[r]
    BY <1>0, <1>1, <1>2, <1>3, SumChange
  <1>8. SumOver(Requests, f) \in Int
    BY <1>0, <1>1, SumInt
  <1>9. f[r] \in Int
    BY <1>1
  <1> HIDE DEF d
  <1>10. SumOver(Requests, h) = SumOver(Requests, f) + d
    BY <1>4, <1>5, <1>7, <1>8, <1>9
  <1> QED BY <1>6, <1>8, <1>10 DEF d

-----------------------------------------------------------------------------
(* Transactions.                                                            *)

\* The commit of h, whose handler t wrote the documents W.
Commits(h, t, W, next) ==
    /\ h \in DOMAIN run /\ t = run[h]
    /\ IsTxn(t) /\ Seen(t)
    /\ t.missed \cap W = {}
    /\ db' = next
    /\ DOMAIN run' = DOMAIN run \ {h}
    /\ \A g \in DOMAIN run' : run'[g] = [run[g] EXCEPT !.missed = @ \cup W]
    /\ applied' = [applied EXCEPT ![t.op] = @ + 1]

LEMMA CreateStep ==
    ASSUME ShapeInv, NEW h, CreateOrders(h)
    PROVE  \E t : /\ Commits(h, t, CreateWrites(t), CreateEffect(t))
                  /\ t.op.kind = "create" /\ CreateAllowed(t)
  BY DEF CreateOrders, Execute, CommitTxn, EndTxn, NoConflict, Commits, ShapeInv

LEMMA EditStep ==
    ASSUME ShapeInv, NEW h, EditDraft(h)
    PROVE  \E t : /\ Commits(h, t, EditWrites(t), EditEffect(t))
                  /\ t.op.kind = "edit" /\ EditAllowed(t)
  BY DEF EditDraft, Execute, CommitTxn, EndTxn, NoConflict, Commits, ShapeInv

LEMMA MoveStep ==
    ASSUME ShapeInv, NEW h, MoveOrder(h)
    PROVE  \E t : /\ Commits(h, t, MoveWrites(t), MoveEffect(t))
                  /\ t.op.kind \in {"submit", "approve", "mark-ordered", "cancel"}
                  /\ MoveAllowed(t)
  BY DEF MoveOrder, Moves, Execute, CommitTxn, EndTxn, NoConflict, Commits, ShapeInv

LEMMA ReceiveStep ==
    ASSUME ShapeInv, NEW h, ReceiveGoods(h)
    PROVE  \E t : /\ Commits(h, t, MoveWrites(t), ReceiveEffect(t))
                  /\ t.op.kind = "receive" /\ ReceiveAllowed(t)
  BY DEF ReceiveGoods, Execute, CommitTxn, EndTxn, NoConflict, Commits, ShapeInv

LEMMA AdjustStep ==
    ASSUME ShapeInv, NEW h, AdjustStock(h)
    PROVE  \E t : /\ Commits(h, t, AdjustWrites(t), AdjustEffect(t))
                  /\ t.op.kind = "adjust" /\ AdjustAllowed(t)
  BY DEF AdjustStock, Execute, CommitTxn, EndTxn, NoConflict, Commits, ShapeInv

\* The commit changes the orders and the counter it wrote only.
Covers(W) ==
    /\ \A o \in Orders : OrderDoc(o) \notin W => db'.order[o] = db.order[o]
    /\ OrderCounter \notin W => db'.lastOrder = db.lastOrder

LEMMA CommitKeepsShape ==
    ASSUME ShapeInv, NEW h, NEW t, NEW W, NEW next, Commits(h, t, W, next),
           HasFields(next), Covers(W),
           \A o \in Orders : o > next.lastOrder => next.order[o] = NoOrder
    PROVE  ShapeInv'
  <1>1. db' = next
    BY DEF Commits
  <1>2. applied' \in [Requests -> Nat]
    BY DEF Commits, IsTxn, ShapeInv
  <1>3. ASSUME NEW g \in DOMAIN run'
        PROVE  /\ IsTxn(run'[g])
               /\ \A o \in Orders : OrderDoc(o) \notin run'[g].missed =>
                                       run'[g].snap.order[o] = db'.order[o]
               /\ OrderCounter \notin run'[g].missed =>
                     run'[g].snap.lastOrder = db'.lastOrder
    <2>1. g \in DOMAIN run /\ run'[g] = [run[g] EXCEPT !.missed = @ \cup W]
      BY <1>3 DEF Commits
    <2>2. IsTxn(run[g]) /\ Seen(run[g])
      BY <2>1 DEF ShapeInv
    <2>3. /\ run'[g].op = run[g].op /\ run'[g].snap = run[g].snap
          /\ run'[g].missed = run[g].missed \cup W
          /\ IsTxn(run'[g])
      BY <2>1, <2>2 DEF IsTxn
    <2> QED BY <2>2, <2>3 DEF Seen, Covers
  <1>4. HasFields(db')
    BY <1>1
  <1>5. \A o \in Orders : o > db'.lastOrder => db'.order[o] = NoOrder
    BY <1>1
  <1> QED BY <1>2, <1>3, <1>4, <1>5 DEF ShapeInv, Seen, HasFields, IsTxn

\* The order a handler writes is the one it read.
LEMMA SnapIsCurrent ==
    ASSUME NEW h, NEW t, NEW W, NEW next, Commits(h, t, W, next), NEW o \in Orders,
           OrderDoc(o) \in W
    PROVE  t.snap.order[o] = db.order[o]
  BY DEF Commits, Seen

\* One order is replaced by v.
LEMMA OneOrderKeepsShape ==
    ASSUME ShapeInv, NEW h, NEW t, NEW W, NEW next, Commits(h, t, W, next),
           NEW o \in Orders, NEW v \in OrderType, OrderDoc(o) \in W,
           HasFields(next), next.order = [db.order EXCEPT ![o] = v],
           next.lastOrder = db.lastOrder, db.order[o] # NoOrder
    PROVE  ShapeInv'
  <1>1. HasFields(db) /\ db' = next
    BY DEF ShapeInv, Commits
  <1>2. \A p \in Orders \ {o} : next.order[p] = db.order[p]
    BY <1>1 DEF HasFields
  <1>3. Covers(W)
    BY <1>1, <1>2 DEF Covers
  <1>4. \A p \in Orders : p > next.lastOrder => next.order[p] = NoOrder
    BY <1>2 DEF ShapeInv
  <1> QED BY <1>3, <1>4, CommitKeepsShape

\* The order o of a handler that names one order.
LEMMA MovedOrder ==
    ASSUME NEW t, IsTxn(t),
           t.op.kind \in {"edit", "submit", "approve", "mark-ordered", "cancel", "receive"}
    PROVE  t.op.order \in Orders /\ t.snap.order[t.op.order] \in OrderType
  <1>1. t.op.order \in Orders
    BY KindOf DEF IsTxn, EditRequests, MoveRequests, ReceiveRequests
  <1> QED BY <1>1 DEF IsTxn, HasFields

-----------------------------------------------------------------------------
(* What the effects are.                                                    *)

LEMMA CreateDelta ==
    ASSUME HasFields(db), NEW t, NEW d, d = CreateEffect(t)
    PROVE  /\ d = [order |-> d.order, lastOrder |-> d.lastOrder, stock |-> d.stock,
                   moved |-> d.moved, opkeys |-> d.opkeys]
           /\ d.order = [o \in Orders |-> IF o - t.snap.lastOrder \in DOMAIN t.op.orders
                                          THEN Draft(t.op.orders[o - t.snap.lastOrder])
                                          ELSE db.order[o]]
           /\ d.lastOrder = t.snap.lastOrder + Len(t.op.orders)
           /\ d.stock = db.stock /\ d.moved = db.moved
  BY DEF CreateEffect, HasFields

LEMMA EditDelta ==
    ASSUME HasFields(db), NEW t, t.op.order \in Orders, NEW d, d = EditEffect(t),
           t.snap.order[t.op.order].status = "draft"
    PROVE  /\ d = [order |-> d.order, lastOrder |-> d.lastOrder, stock |-> d.stock,
                   moved |-> d.moved, opkeys |-> d.opkeys]
           /\ d.order = [db.order EXCEPT ![t.op.order] = Draft(t.op.items)]
           /\ d.lastOrder = db.lastOrder
           /\ d.stock = db.stock /\ d.moved = db.moved
  <1>1. [Draft(t.op.items) EXCEPT !.status = t.snap.order[t.op.order].status]
           = Draft(t.op.items)
    BY DEF Draft
  <1> QED BY <1>1 DEF EditEffect, HasFields

MovedOn(t) == [t.snap.order[t.op.order] EXCEPT !.status = MovedTo(t.op.kind)]

LEMMA MoveDelta ==
    ASSUME HasFields(db), NEW t, t.op.order \in Orders, NEW d, d = MoveEffect(t)
    PROVE  /\ d = [order |-> d.order, lastOrder |-> d.lastOrder, stock |-> d.stock,
                   moved |-> d.moved, opkeys |-> d.opkeys]
           /\ d.order = [db.order EXCEPT ![t.op.order] = MovedOn(t)]
           /\ d.lastOrder = db.lastOrder
           /\ d.stock = Announced(t) /\ d.moved = db.moved
  BY DEF MoveEffect, HasFields, MovedOn

Unpacked(t) == [x \in Products |-> [Announced(t)[x] EXCEPT !.onHand = @ + t.op.items[x]]]

LEMMA ReceiveDelta ==
    ASSUME HasFields(db), NEW t, t.op.order \in Orders, NEW d, d = ReceiveEffect(t)
    PROVE  /\ d = [order |-> d.order, lastOrder |-> d.lastOrder, stock |-> d.stock,
                   moved |-> d.moved, opkeys |-> d.opkeys]
           /\ d.order = [db.order EXCEPT ![t.op.order] = Arrived(t)]
           /\ d.lastOrder = db.lastOrder
           /\ d.stock = Unpacked(t)
           /\ d.moved = [db.moved EXCEPT ![t.op.order] =
                           [x \in Products |-> db.moved[t.op.order][x] + t.op.items[x]]]
  BY DEF ReceiveEffect, HasFields, Unpacked

Corrected(t) ==
    [db.stock[t.op.product] EXCEPT !.row = TRUE, !.onHand = @ + t.op.change]

LEMMA AdjustDelta ==
    ASSUME HasFields(db), NEW t, t.op.product \in Products, NEW d, d = AdjustEffect(t)
    PROVE  /\ d = [order |-> d.order, lastOrder |-> d.lastOrder, stock |-> d.stock,
                   moved |-> d.moved, opkeys |-> d.opkeys]
           /\ d.order = db.order /\ d.lastOrder = db.lastOrder
           /\ d.stock = [db.stock EXCEPT ![t.op.product] = Corrected(t)]
           /\ d.moved = db.moved
  BY DEF AdjustEffect, HasFields, Corrected
-----------------------------------------------------------------------------
(* One order at a time: edits, moves and receipts.                          *)

LEMMA OneOrderStep ==
    ASSUME PurchasingInv, NEW h, NEW t, NEW W, NEW next, Commits(h, t, W, next),
           NEW o \in Orders, NEW v \in OrderType, NEW q \in Quantities,
           OrderDoc(o) \in W, db.order[o] # NoOrder, t.op.kind # "adjust",
           HasFields(next),
           next.order = [db.order EXCEPT ![o] = v],
           next.lastOrder = db.lastOrder,
           next.moved = [db.moved EXCEPT ![o] = q],
           \A x \in Products :
              /\ next.stock[x].onOrder
                    = db.stock[x].onOrder + Brings(v, x) - Brings(db.order[o], x)
              /\ next.stock[x].onHand = db.stock[x].onHand + q[x] - db.moved[o][x],
           OrderRight(v, q), Stays(db.order[o], v)
    PROVE  PurchasingInv' /\ OrdersStay
  <1>1. /\ ShapeInv /\ OrdersInv /\ StockInv /\ HasFields(db)
        /\ db' = next /\ applied' = [applied EXCEPT ![t.op] = @ + 1]
        /\ applied \in [Requests -> Nat] /\ t.op \in Requests
    BY DEF PurchasingInv, ShapeInv, Commits, IsTxn
  <1>2. ShapeInv'
    BY <1>1, OneOrderKeepsShape
  <1>3. OrdersInv'
    <2>1. \A p \in Orders : OrderRight(next.order[p], next.moved[p])
      BY <1>1 DEF OrdersInv, HasFields
    <2> QED BY <1>1, <2>1 DEF OrdersInv, OrderRight
  <1>4. ASSUME NEW x \in Products
        PROVE  /\ next.stock[x].onOrder = Coming(next.order, x)
               /\ next.stock[x].onHand
                     = Opened(x) + Came(next.moved, x) + Adjusted(applied', x)
    <2>0. db.order \in [Orders -> OrderType] /\ db.moved \in [Orders -> Quantities]
      BY <1>1 DEF HasFields
    <2>1. /\ Coming(next.order, x)
                = Coming(db.order, x) + Brings(v, x) - Brings(db.order[o], x)
          /\ Coming(db.order, x) \in Int
      BY <2>0, ComingChanges
    <2>2. /\ Came(next.moved, x) = Came(db.moved, x) + q[x] - db.moved[o][x]
          /\ Came(db.moved, x) \in Int
      BY <2>0, CameChanges
    <2>3. /\ Adjusted(applied', x)
                = Adjusted(applied, x) + IF Adjusts(t.op, x) THEN t.op.change ELSE 0
          /\ Adjusted(applied, x) \in Int
      <3>1. PICK times \in [Requests -> Nat], r \in Requests :
               times = applied /\ r = t.op
        BY <1>1
      <3>2. /\ Adjusted([times EXCEPT ![r] = @ + 1], x)
                  = Adjusted(times, x) + IF Adjusts(r, x) THEN r.change ELSE 0
            /\ Adjusted(times, x) \in Int
        BY AdjustedChanges
      <3> QED BY <1>1, <3>1, <3>2
    <2>4. Adjusted(applied', x) = Adjusted(applied, x)
      BY <2>3 DEF Adjusts
    <2>5. /\ db.stock[x].onOrder = Coming(db.order, x)
          /\ db.stock[x].onHand = Opened(x) + Came(db.moved, x) + Adjusted(applied, x)
      BY <1>1 DEF StockInv
    <2>6. Opened(x) \in Int /\ q[x] \in Int /\ db.moved[o][x] \in Int
      BY <2>0, PurchasingAssumption DEF Opened, Quantities
    <2> QED BY <2>1, <2>2, <2>3, <2>4, <2>5, <2>6
  <1>5. StockInv'
    BY <1>1, <1>4 DEF StockInv, Opened
  <1>6. OrdersStay
    BY <1>1 DEF OrdersStay, Stays, HasFields
  <1> QED BY <1>2, <1>3, <1>5, <1>6 DEF PurchasingInv

LEMMA EditKeeps ==
    ASSUME PurchasingInv, NEW h, EditDraft(h)
    PROVE  PurchasingInv' /\ OrdersStay
  <1>1. ShapeInv /\ OrdersInv /\ HasFields(db)
    BY DEF PurchasingInv, ShapeInv
  <1>2. PICK t : /\ Commits(h, t, EditWrites(t), EditEffect(t))
                 /\ t.op.kind = "edit" /\ EditAllowed(t)
    BY <1>1, EditStep
  <1>3. IsTxn(t)
    BY <1>2 DEF Commits
  <1>4. PICK o \in Orders : o = t.op.order
    BY <1>2, <1>3, MovedOrder
  <1>5. t.op.items \in Quantities
    BY <1>2, <1>3, KindOf DEF IsTxn, EditRequests
  <1>6. OrderDoc(o) \in EditWrites(t)
    BY <1>4 DEF EditWrites
  <1>7. t.snap.order[o] = db.order[o] /\ db.order[o].status = "draft"
    BY <1>2, <1>4, <1>6, SnapIsCurrent DEF EditAllowed
  <1>8. PICK d : d = EditEffect(t)
    OBVIOUS
  <1>9. /\ d = [order |-> d.order, lastOrder |-> d.lastOrder, stock |-> d.stock,
                moved |-> d.moved, opkeys |-> d.opkeys]
        /\ d.order = [db.order EXCEPT ![o] = Draft(t.op.items)]
        /\ d.lastOrder = db.lastOrder /\ d.stock = db.stock /\ d.moved = db.moved
    BY <1>1, <1>4, <1>7, <1>8, EditDelta
  <1>10. Draft(t.op.items) \in OrderType
    BY <1>5, ZeroType DEF Draft, OrderType, Statuses, Open
  <1>11. db.order[o] \in OrderType /\ db.moved[o] \in Quantities
    BY <1>1 DEF HasFields
  <1>12. db.moved[o] = Zero
    <2>1. OrderRight(db.order[o], db.moved[o])
      BY <1>1 DEF OrdersInv
    <2> QED BY <2>1, <1>7 DEF OrderRight
  <1>13. HasFields(d)
    BY <1>1, <1>9, <1>10 DEF HasFields
  <1>14. OrderRight(Draft(t.op.items), db.moved[o])
    BY <1>5, <1>12, ZeroType DEF OrderRight, Draft, Quantities
  <1>15. d.moved = [db.moved EXCEPT ![o] = db.moved[o]]
    BY <1>1, <1>9 DEF HasFields
  <1>16. ASSUME NEW x \in Products
         PROVE  /\ d.stock[x].onOrder = db.stock[x].onOrder
                      + Brings(Draft(t.op.items), x) - Brings(db.order[o], x)
                /\ d.stock[x].onHand = db.stock[x].onHand + db.moved[o][x] - db.moved[o][x]
    <2>1. Brings(Draft(t.op.items), x) = 0 /\ Brings(db.order[o], x) = 0
      BY <1>7 DEF Brings, Draft, Underway
    <2>2. d.stock[x].onOrder \in Int /\ d.stock[x].onHand \in Int
      BY <1>13 DEF HasFields, StockType
    <2>3. db.moved[o][x] \in Int
      BY <1>11 DEF Quantities
    <2> QED BY <1>9, <2>1, <2>2, <2>3
  <1>17. db.order[o] # NoOrder
    BY <1>7 DEF NoOrder
  <1>18. Commits(h, t, EditWrites(t), d)
    BY <1>2, <1>8
  <1>19. Stays(db.order[o], Draft(t.op.items))
    BY <1>7 DEF Stays
  <1> QED BY <1>2, <1>6, <1>9, <1>10, <1>11, <1>13, <1>14, <1>15, <1>16, <1>17, <1>18,
             <1>19, OneOrderStep

\* What an action on an order adds to on_order.
LEMMA ChangeIs ==
    ASSUME NEW t, IsTxn(t), NEW order \in OrderType, order = t.snap.order[t.op.order],
           t.op.kind \in {"submit", "approve", "mark-ordered", "cancel", "receive"},
           NEW x \in Products
    PROVE  /\ OnOrderChange(t)[x] \in Int
           /\ t.op.kind = "mark-ordered" => OnOrderChange(t)[x] = order.remaining[x]
           /\ t.op.kind = "cancel" /\ order.status \in Underway =>
                 OnOrderChange(t)[x] = -order.remaining[x]
           /\ t.op.kind = "cancel" /\ order.status \notin Underway =>
                 OnOrderChange(t)[x] = 0
           /\ t.op.kind = "receive" =>
                 t.op.items[x] \in Nat /\ OnOrderChange(t)[x] = -t.op.items[x]
           /\ t.op.kind \in {"submit", "approve"} => OnOrderChange(t)[x] = 0
  <1>1. order.remaining[x] \in Nat
    BY OrderFields
  <1>2. t.op.kind = "receive" => t.op.items[x] \in Nat
    BY KindOf DEF IsTxn, ReceiveRequests, Quantities
  <1>3. CASE t.op.kind = "mark-ordered"
    BY <1>1, <1>3 DEF OnOrderChange
  <1>4. CASE t.op.kind = "cancel" /\ order.status \in Underway
    BY <1>1, <1>4 DEF OnOrderChange
  <1>5. CASE t.op.kind = "cancel" /\ order.status \notin Underway
    <2>1. OnOrderChange(t) = Zero
      BY <1>5 DEF OnOrderChange
    <2> QED BY <1>5, <2>1, ZeroType
  <1>6. CASE t.op.kind = "receive"
    BY <1>2, <1>6 DEF OnOrderChange
  <1>7. CASE t.op.kind \in {"submit", "approve"}
    <2>1. OnOrderChange(t) = Zero
      BY <1>7 DEF OnOrderChange
    <2> QED BY <1>7, <2>1, ZeroType
  <1> QED BY <1>3, <1>4, <1>5, <1>6, <1>7

LEMMA AnnouncedIs ==
    ASSUME HasFields(db), NEW t, \A x \in Products : OnOrderChange(t)[x] \in Int
    PROVE  /\ Announced(t) \in [Products -> StockType]
           /\ \A x \in Products :
                 /\ Announced(t)[x].onOrder = db.stock[x].onOrder + OnOrderChange(t)[x]
                 /\ Announced(t)[x].onHand = db.stock[x].onHand
  <1>1. ASSUME NEW x \in Products
        PROVE  /\ Announced(t)[x] \in StockType
               /\ Announced(t)[x].onOrder = db.stock[x].onOrder + OnOrderChange(t)[x]
               /\ Announced(t)[x].onHand = db.stock[x].onHand
    <2>1. db.stock[x] \in StockType
      BY DEF HasFields
    <2>2. CASE x \in Touched(t)
      <3>1. Announced(t)[x] = [db.stock[x] EXCEPT !.row = TRUE,
                                  !.onOrder = @ + OnOrderChange(t)[x]]
        BY <2>2 DEF Announced
      <3>2. OnOrderChange(t)[x] \in Int
        OBVIOUS
      <3>3. PICK s \in StockType, c \in Int : s = db.stock[x] /\ c = OnOrderChange(t)[x]
        BY <2>1, <3>2
      <3>4. PICK row : row = [s EXCEPT !.row = TRUE, !.onOrder = @ + c]
        OBVIOUS
      <3>5. row \in StockType /\ row.onOrder = s.onOrder + c /\ row.onHand = s.onHand
        BY <3>4, AnnouncedRow
      <3> QED BY <3>1, <3>3, <3>4, <3>5
    <2>3. CASE x \notin Touched(t)
      <3>1. Announced(t)[x] = db.stock[x] /\ OnOrderChange(t)[x] = 0
        BY <2>3 DEF Announced, Touched
      <3> QED BY <2>1, <3>1 DEF StockType
    <2> QED BY <2>2, <2>3
  <1>2. Announced(t) = [x \in Products |-> Announced(t)[x]]
    BY DEF Announced
  <1> QED BY <1>1, <1>2

\* A move takes an order from one status to the next and announces what changes.
LEMMA MovedOnIs ==
    ASSUME NEW t, IsTxn(t), NEW order \in OrderType, order = t.snap.order[t.op.order],
           t.op.kind \in {"submit", "approve", "mark-ordered", "cancel"},
           order.status \in From(t.op.kind), NEW q, OrderRight(order, q)
    PROVE  /\ MovedOn(t) \in OrderType
           /\ OrderRight(MovedOn(t), q) /\ Stays(order, MovedOn(t))
           /\ \A x \in Products :
                 OnOrderChange(t)[x] = Brings(MovedOn(t), x) - Brings(order, x)
  <1>1. /\ MovedOn(t) = [order EXCEPT !.status = MovedTo(t.op.kind)]
        /\ MovedTo(t.op.kind) \in {"pending_approval", "approved", "ordered", "cancelled"}
        /\ t.op.kind = "submit" => MovedTo(t.op.kind) = "pending_approval"
        /\ t.op.kind = "approve" => MovedTo(t.op.kind) = "approved"
        /\ t.op.kind = "mark-ordered" => MovedTo(t.op.kind) = "ordered"
        /\ t.op.kind = "cancel" => MovedTo(t.op.kind) = "cancelled"
    BY DEF MovedOn, MovedTo
  <1>2. /\ t.op.kind = "submit" => order.status = "draft"
        /\ t.op.kind = "approve" => order.status = "pending_approval"
        /\ t.op.kind = "mark-ordered" => order.status = "approved"
        /\ t.op.kind = "cancel" => order.status \in Open
    BY DEF From
  <1>3. PICK v : v = MovedOn(t)
    OBVIOUS
  <1>4. /\ v \in OrderType /\ v.status = MovedTo(t.op.kind)
        /\ v.ordered = order.ordered /\ v.received = order.received
        /\ v.remaining = order.remaining
    BY <1>1, <1>3 DEF OrderType, Statuses, Open, Underway
  <1>5. OrderRight(v, q)
    BY <1>1, <1>2, <1>4 DEF OrderRight, Open, Underway
  <1>6. ASSUME NEW x \in Products
        PROVE  OnOrderChange(t)[x] = Brings(v, x) - Brings(order, x)
    <2>1. order.remaining[x] \in Nat
      BY OrderFields
    <2>2. CASE t.op.kind \in {"submit", "approve"}
      <3>1. Brings(v, x) = 0 /\ Brings(order, x) = 0
        BY <1>1, <1>2, <1>4, <2>2 DEF Brings, Underway
      <3>2. OnOrderChange(t)[x] = 0
        BY <2>2, ChangeIs
      <3> QED BY <3>1, <3>2
    <2>3. CASE t.op.kind = "mark-ordered"
      <3>1. Brings(v, x) = order.remaining[x] /\ Brings(order, x) = 0
        BY <1>1, <1>2, <1>4, <2>3 DEF Brings, Underway
      <3> QED BY <2>1, <2>3, <3>1, ChangeIs
    <2>4. CASE t.op.kind = "cancel"
      <3>1. /\ Brings(v, x) = 0
            /\ order.status \in Underway => Brings(order, x) = order.remaining[x]
            /\ order.status \notin Underway => Brings(order, x) = 0
        BY <1>1, <1>4, <2>4 DEF Brings, Underway
      <3>2. /\ order.status \in Underway => OnOrderChange(t)[x] = -order.remaining[x]
            /\ order.status \notin Underway => OnOrderChange(t)[x] = 0
        BY <2>4, ChangeIs
      <3> QED BY <2>1, <3>1, <3>2
    <2> QED BY <2>2, <2>3, <2>4
  <1>7. Stays(order, v)
    BY <1>1, <1>4 DEF Stays
  <1> QED BY <1>3, <1>4, <1>5, <1>6, <1>7

LEMMA MoveKeeps ==
    ASSUME PurchasingInv, NEW h, MoveOrder(h)
    PROVE  PurchasingInv' /\ OrdersStay
  <1>1. ShapeInv /\ OrdersInv /\ HasFields(db)
    BY DEF PurchasingInv, ShapeInv
  <1>2. PICK t : /\ Commits(h, t, MoveWrites(t), MoveEffect(t))
                 /\ t.op.kind \in {"submit", "approve", "mark-ordered", "cancel"}
                 /\ MoveAllowed(t)
    BY <1>1, MoveStep
  <1>3. IsTxn(t)
    BY <1>2 DEF Commits
  <1>4. PICK o \in Orders : o = t.op.order
    BY <1>2, <1>3, MovedOrder
  <1>5. OrderDoc(o) \in MoveWrites(t)
    BY <1>4 DEF MoveWrites
  <1>6. /\ t.snap.order[t.op.order] = db.order[o]
        /\ db.order[o].status \in From(t.op.kind)
    BY <1>2, <1>4, <1>5, SnapIsCurrent DEF MoveAllowed
  <1>7. /\ db.order[o] \in OrderType /\ db.moved[o] \in Quantities
        /\ OrderRight(db.order[o], db.moved[o])
    BY <1>1 DEF HasFields, OrdersInv
  <1>8. PICK v : v = MovedOn(t)
    OBVIOUS
  <1>9. /\ v \in OrderType /\ OrderRight(v, db.moved[o]) /\ Stays(db.order[o], v)
        /\ \A x \in Products :
              OnOrderChange(t)[x] = Brings(v, x) - Brings(db.order[o], x)
    BY <1>2, <1>3, <1>6, <1>7, <1>8, MovedOnIs
  <1>10. \A x \in Products : OnOrderChange(t)[x] \in Int
    BY <1>2, <1>3, <1>6, <1>7, ChangeIs
  <1>11. /\ Announced(t) \in [Products -> StockType]
         /\ \A x \in Products :
               /\ Announced(t)[x].onOrder = db.stock[x].onOrder + OnOrderChange(t)[x]
               /\ Announced(t)[x].onHand = db.stock[x].onHand
    BY <1>1, <1>10, AnnouncedIs
  <1>12. PICK d : d = MoveEffect(t)
    OBVIOUS
  <1>13. /\ d = [order |-> d.order, lastOrder |-> d.lastOrder, stock |-> d.stock,
                 moved |-> d.moved, opkeys |-> d.opkeys]
         /\ d.order = [db.order EXCEPT ![o] = v]
         /\ d.lastOrder = db.lastOrder /\ d.stock = Announced(t) /\ d.moved = db.moved
    BY <1>1, <1>4, <1>8, <1>12, MoveDelta
  <1>14. HasFields(d)
    BY <1>1, <1>9, <1>11, <1>13 DEF HasFields
  <1>15. d.moved = [db.moved EXCEPT ![o] = db.moved[o]]
    BY <1>1, <1>13 DEF HasFields
  <1>16. ASSUME NEW x \in Products
         PROVE  /\ d.stock[x].onOrder
                      = db.stock[x].onOrder + Brings(v, x) - Brings(db.order[o], x)
                /\ d.stock[x].onHand = db.stock[x].onHand + db.moved[o][x] - db.moved[o][x]
    <2>1. db.stock[x].onOrder \in Int /\ db.stock[x].onHand \in Int
      BY <1>1 DEF HasFields, StockType
    <2>2. db.moved[o][x] \in Int
      BY <1>7 DEF Quantities
    <2>3. Brings(v, x) \in Int /\ Brings(db.order[o], x) \in Int
      BY <1>7, <1>9, BringsInt
    <2>4. /\ d.stock[x].onOrder = db.stock[x].onOrder + OnOrderChange(t)[x]
          /\ d.stock[x].onHand = db.stock[x].onHand
          /\ OnOrderChange(t)[x] = Brings(v, x) - Brings(db.order[o], x)
      BY <1>9, <1>11, <1>13
    <2> QED BY <2>1, <2>2, <2>3, <2>4
  <1>17. db.order[o] # NoOrder /\ t.op.kind # "adjust"
    <2>1. db.order[o].status # "none"
      BY <1>2, <1>6 DEF From, Open, Underway
    <2> QED BY <1>2, <2>1 DEF NoOrder
  <1>18. Commits(h, t, MoveWrites(t), d)
    BY <1>2, <1>12
  <1> QED BY <1>5, <1>7, <1>9, <1>13, <1>14, <1>15, <1>16, <1>17, <1>18, OneOrderStep

LEMMA LessBy ==
    ASSUME NEW i \in Nat, NEW m \in Nat, i <= m, NEW a \in Nat, NEW b \in Nat, a + m = b
    PROVE  /\ m - i \in Nat /\ a + i \in Nat
           /\ (a + i) + (m - i) = b
           /\ (m - i) - m = -i
  OBVIOUS

\* A receipt takes what arrived off what is left of the order.
LEMMA ArrivedIs ==
    ASSUME NEW t, IsTxn(t), NEW order \in OrderType, order = t.snap.order[t.op.order],
           t.op.kind = "receive", order.status \in Underway,
           \A x \in Products : t.op.items[x] <= order.remaining[x],
           NEW q \in Quantities, OrderRight(order, q),
           NEW p, p = [x \in Products |-> q[x] + t.op.items[x]]
    PROVE  /\ Arrived(t) \in OrderType
           /\ p \in Quantities
           /\ OrderRight(Arrived(t), p) /\ Stays(order, Arrived(t))
           /\ \A x \in Products : Brings(Arrived(t), x) - Brings(order, x) = -t.op.items[x]
  <1>1. t.op.items \in Quantities
    BY KindOf DEF IsTxn, ReceiveRequests
  <1>2. /\ order.remaining \in Quantities /\ order.received \in Quantities
        /\ order.ordered \in Quantities /\ order.received = q
        /\ \A x \in Products : q[x] + order.remaining[x] = order.ordered[x]
    BY OrderFields DEF OrderRight
  <1>3. PICK left : left = [x \in Products |-> order.remaining[x] - t.op.items[x]]
    OBVIOUS
  <1>4. ASSUME NEW x \in Products
        PROVE  /\ t.op.items[x] \in Nat /\ q[x] \in Nat /\ order.remaining[x] \in Nat
               /\ order.ordered[x] \in Nat
               /\ left[x] = order.remaining[x] - t.op.items[x] /\ left[x] \in Nat
               /\ p[x] = q[x] + t.op.items[x] /\ p[x] \in Nat
               /\ p[x] + left[x] = order.ordered[x]
               /\ left[x] - order.remaining[x] = -t.op.items[x]
    <2>1. /\ t.op.items[x] \in Nat /\ q[x] \in Nat /\ order.remaining[x] \in Nat
          /\ order.ordered[x] \in Nat /\ t.op.items[x] <= order.remaining[x]
          /\ q[x] + order.remaining[x] = order.ordered[x]
      BY <1>1, <1>2 DEF Quantities
    <2>2. left[x] = order.remaining[x] - t.op.items[x] /\ p[x] = q[x] + t.op.items[x]
      BY <1>3
    <2>3. /\ order.remaining[x] - t.op.items[x] \in Nat /\ q[x] + t.op.items[x] \in Nat
          /\ (q[x] + t.op.items[x]) + (order.remaining[x] - t.op.items[x]) = order.ordered[x]
          /\ (order.remaining[x] - t.op.items[x]) - order.remaining[x] = -t.op.items[x]
      BY <2>1, LessBy
    <2> QED BY Zenon, <2>1, <2>2, <2>3
  <1>5. left \in Quantities /\ p \in Quantities
    BY <1>3, <1>4 DEF Quantities
  <1>6. PICK v : v = Arrived(t)
    OBVIOUS
  <1>7. /\ v = [order EXCEPT !.received = [x \in Products |-> order.received[x] + t.op.items[x]],
                             !.remaining = left,
                             !.status = IF left = Zero THEN "received"
                                        ELSE "partially_received"]
    BY <1>3, <1>6 DEF Arrived, OrderType
  <1>8. /\ v \in OrderType /\ v.ordered = order.ordered /\ v.received = p
        /\ v.remaining = left
        /\ v.status = IF left = Zero THEN "received" ELSE "partially_received"
    BY <1>2, <1>5, <1>7 DEF OrderType, Statuses, Open, Underway
  <1>9. OrderRight(v, p)
    BY <1>4, <1>8 DEF OrderRight
  <1>10. ASSUME NEW x \in Products
         PROVE  Brings(v, x) - Brings(order, x) = -t.op.items[x]
    <2>1. Brings(order, x) = order.remaining[x]
      BY DEF Brings
    <2>2. Brings(v, x) = left[x]
      <3>1. CASE left = Zero
        BY <1>8, <3>1 DEF Brings, Underway, Zero
      <3>2. CASE left # Zero
        BY <1>8, <3>2 DEF Brings, Underway
      <3> QED BY <3>1, <3>2
    <2>3. left[x] - order.remaining[x] = -t.op.items[x]
      BY <1>4
    <2> QED BY Zenon, <2>1, <2>2, <2>3
  <1>11. Stays(order, v)
    BY <1>8 DEF Stays
  <1> QED BY <1>5, <1>6, <1>8, <1>9, <1>10, <1>11

LEMMA ReceiveKeeps ==
    ASSUME PurchasingInv, NEW h, ReceiveGoods(h)
    PROVE  PurchasingInv' /\ OrdersStay
  <1>1. ShapeInv /\ OrdersInv /\ HasFields(db)
    BY DEF PurchasingInv, ShapeInv
  <1>2. PICK t : /\ Commits(h, t, MoveWrites(t), ReceiveEffect(t))
                 /\ t.op.kind = "receive" /\ ReceiveAllowed(t)
    BY <1>1, ReceiveStep
  <1>3. IsTxn(t)
    BY <1>2 DEF Commits
  <1>4. PICK o \in Orders : o = t.op.order
    BY <1>2, <1>3, MovedOrder
  <1>5. OrderDoc(o) \in MoveWrites(t)
    BY <1>4 DEF MoveWrites
  <1>6. t.snap.order[t.op.order] = db.order[o]
    BY <1>2, <1>4, <1>5, SnapIsCurrent
  <1>7. /\ db.order[o].status \in Underway
        /\ \A x \in Products : t.op.items[x] <= db.order[o].remaining[x]
    BY <1>2, <1>6 DEF ReceiveAllowed, MoveAllowed, From
  <1>8. /\ db.order[o] \in OrderType /\ db.moved[o] \in Quantities
        /\ OrderRight(db.order[o], db.moved[o])
    BY <1>1 DEF HasFields, OrdersInv
  <1>9. PICK v, q : /\ v = Arrived(t)
                    /\ q = [x \in Products |-> db.moved[o][x] + t.op.items[x]]
    OBVIOUS
  <1>10. /\ v \in OrderType /\ q \in Quantities /\ OrderRight(v, q)
         /\ Stays(db.order[o], v)
         /\ \A x \in Products : Brings(v, x) - Brings(db.order[o], x) = -t.op.items[x]
    BY <1>2, <1>3, <1>6, <1>7, <1>8, <1>9, ArrivedIs
  <1>11. \A x \in Products : /\ OnOrderChange(t)[x] \in Int /\ t.op.items[x] \in Nat
                             /\ OnOrderChange(t)[x] = -t.op.items[x]
    BY <1>2, <1>3, <1>6, <1>8, ChangeIs
  <1>12. /\ Announced(t) \in [Products -> StockType]
         /\ \A x \in Products :
               /\ Announced(t)[x].onOrder = db.stock[x].onOrder + OnOrderChange(t)[x]
               /\ Announced(t)[x].onHand = db.stock[x].onHand
    BY <1>1, <1>11, AnnouncedIs
  <1>13. ASSUME NEW x \in Products
         PROVE  /\ Unpacked(t)[x] \in StockType
                /\ Unpacked(t)[x].onOrder = db.stock[x].onOrder + OnOrderChange(t)[x]
                /\ Unpacked(t)[x].onHand = db.stock[x].onHand + t.op.items[x]
    <2>1. /\ Announced(t)[x] \in StockType
          /\ Unpacked(t)[x] = [Announced(t)[x] EXCEPT !.onHand = @ + t.op.items[x]]
      BY <1>12 DEF Unpacked
    <2>2. t.op.items[x] \in Nat
      BY <1>11
    <2> QED BY <1>12, <2>1, <2>2 DEF StockType
  <1>14. Unpacked(t) \in [Products -> StockType]
    BY <1>13 DEF Unpacked
  <1>15. PICK d : d = ReceiveEffect(t)
    OBVIOUS
  <1>16. /\ d = [order |-> d.order, lastOrder |-> d.lastOrder, stock |-> d.stock,
                 moved |-> d.moved, opkeys |-> d.opkeys]
         /\ d.order = [db.order EXCEPT ![o] = v]
         /\ d.lastOrder = db.lastOrder /\ d.stock = Unpacked(t)
         /\ d.moved = [db.moved EXCEPT ![o] = q]
    BY <1>1, <1>4, <1>9, <1>15, ReceiveDelta
  <1>17. HasFields(d)
    BY <1>1, <1>10, <1>14, <1>16 DEF HasFields
  <1>18. ASSUME NEW x \in Products
         PROVE  /\ d.stock[x].onOrder
                      = db.stock[x].onOrder + Brings(v, x) - Brings(db.order[o], x)
                /\ d.stock[x].onHand = db.stock[x].onHand + q[x] - db.moved[o][x]
    <2>1. db.stock[x].onOrder \in Int /\ db.stock[x].onHand \in Int
      BY <1>1 DEF HasFields, StockType
    <2>2. q[x] = db.moved[o][x] + t.op.items[x] /\ db.moved[o][x] \in Int
      BY <1>8, <1>9 DEF Quantities
    <2>3. Brings(v, x) \in Int /\ Brings(db.order[o], x) \in Int
      BY <1>8, <1>10, BringsInt
    <2>4. /\ d.stock[x].onOrder = db.stock[x].onOrder + OnOrderChange(t)[x]
          /\ d.stock[x].onHand = db.stock[x].onHand + t.op.items[x]
      BY <1>13, <1>16
    <2>5. /\ OnOrderChange(t)[x] = -t.op.items[x] /\ t.op.items[x] \in Nat
          /\ Brings(v, x) - Brings(db.order[o], x) = -t.op.items[x]
      BY <1>10, <1>11
    <2> QED BY <2>1, <2>2, <2>3, <2>4, <2>5
  <1>19. db.order[o] # NoOrder /\ t.op.kind # "adjust"
    <2>1. db.order[o].status # "none"
      BY <1>7 DEF Underway
    <2> QED BY <1>2, <2>1 DEF NoOrder
  <1>20. Commits(h, t, MoveWrites(t), d)
    BY <1>2, <1>15
  <1> QED BY <1>5, <1>10, <1>16, <1>17, <1>18, <1>19, <1>20, OneOrderStep

-----------------------------------------------------------------------------
(* New orders and adjustments.                                              *)

\* The orders a handler makes: after the last order it saw, and nobody made one
\* since, or the counter would be in its way.
LEMMA CreatedIs ==
    ASSUME ShapeInv, NEW h, NEW t, NEW d, Commits(h, t, CreateWrites(t), d),
           d = CreateEffect(t), t.op.kind = "create", CreateAllowed(t)
    PROVE  /\ HasFields(d) /\ Covers(CreateWrites(t))
           /\ \A o \in Orders : o > d.lastOrder => d.order[o] = NoOrder
           /\ d.stock = db.stock /\ d.moved = db.moved
           /\ \A o \in Orders :
                 \/ d.order[o] = db.order[o]
                 \/ /\ db.order[o] = NoOrder
                    /\ \E items \in Quantities : d.order[o] = Draft(items)
  <1>1. HasFields(db) /\ IsTxn(t) /\ db' = d
    BY DEF ShapeInv, Commits
  <1>2. t.snap.lastOrder = db.lastOrder
    <2>1. OrderCounter \in CreateWrites(t)
      BY DEF CreateWrites
    <2> QED BY <2>1 DEF Commits, Seen
  <1>3. PICK n \in Nat : n = db.lastOrder
    BY <1>1 DEF HasFields
  <1>4. PICK new \in Seq(Quantities) : new = t.op.orders
    BY <1>1, KindOf DEF IsTxn, CreateRequests
  <1>5. /\ d = [order |-> d.order, lastOrder |-> d.lastOrder, stock |-> d.stock,
                moved |-> d.moved, opkeys |-> d.opkeys]
        /\ d.order = [o \in Orders |-> IF o - n \in DOMAIN new THEN Draft(new[o - n])
                                       ELSE db.order[o]]
        /\ d.lastOrder = n + Len(new) /\ d.stock = db.stock /\ d.moved = db.moved
    BY <1>1, <1>2, <1>3, <1>4, CreateDelta
  <1>6. Len(new) \in Nat /\ DOMAIN new = 1..Len(new) /\ \A i \in 1..Len(new) : new[i] \in Quantities
    BY <1>4
  <1>7. ASSUME NEW o \in Orders, o - n \in DOMAIN new
        PROVE  /\ d.order[o] = Draft(new[o - n]) /\ new[o - n] \in Quantities
               /\ db.order[o] = NoOrder /\ o <= d.lastOrder
    <2>1. o \in Nat
      BY PurchasingAssumption DEF Orders
    <2>2. o > n /\ o <= n + Len(new)
      BY <1>6, <1>7, <2>1
    <2>3. db.order[o] = NoOrder
      BY <1>3, <2>2 DEF ShapeInv
    <2> QED BY <1>5, <1>6, <1>7, <2>2, <2>3
  <1>8. ASSUME NEW o \in Orders, o - n \notin DOMAIN new
        PROVE  d.order[o] = db.order[o]
    BY <1>5, <1>8
  <1>9. \A items \in Quantities : Draft(items) \in OrderType
    BY ZeroType DEF Draft, OrderType, Statuses, Open
  <1>10. HasFields(d)
    <2>1. \A o \in Orders : d.order[o] \in OrderType
      BY <1>1, <1>7, <1>8, <1>9 DEF HasFields
    <2>2. d.order \in [Orders -> OrderType]
      BY <1>5, <2>1
    <2>3. d.lastOrder \in Nat
      BY <1>5, <1>6
    <2> QED BY <1>1, <1>5, <2>2, <2>3 DEF HasFields
  <1>11. \A o \in Orders : o > d.lastOrder => d.order[o] = NoOrder
    <2> SUFFICES ASSUME NEW o \in Orders, o > d.lastOrder PROVE d.order[o] = NoOrder
      OBVIOUS
    <2>1. o \in Nat
      BY PurchasingAssumption DEF Orders
    <2>2. o - n \notin DOMAIN new /\ o > n
      BY <1>5, <1>6, <2>1
    <2> QED BY <1>3, <1>8, <2>2 DEF ShapeInv
  <1>12. Covers(CreateWrites(t))
    <2>1. ASSUME NEW o \in Orders, OrderDoc(o) \notin CreateWrites(t)
          PROVE  d.order[o] = db.order[o]
      <3>1. CASE o - n \in DOMAIN new
        <4>1. PICK i \in DOMAIN new : i = o - n
          BY <3>1
        <4>2. o = n + i
          BY <1>6, <4>1, PurchasingAssumption DEF Orders
        <4>3. OrderDoc(o) \in {OrderDoc(n + j) : j \in DOMAIN new}
          BY <4>2
        <4> QED BY <1>2, <1>3, <1>4, <2>1, <4>3 DEF CreateWrites
      <3>2. CASE o - n \notin DOMAIN new
        BY <1>8, <3>2
      <3> QED BY <3>1, <3>2
    <2>2. OrderCounter \in CreateWrites(t)
      BY DEF CreateWrites
    <2> QED BY <1>1, <2>1, <2>2 DEF Covers
  <1> QED BY <1>5, <1>7, <1>8, <1>10, <1>11, <1>12

LEMMA CreateKeeps ==
    ASSUME PurchasingInv, NEW h, CreateOrders(h)
    PROVE  PurchasingInv' /\ OrdersStay
  <1>1. /\ ShapeInv /\ OrdersInv /\ StockInv /\ HasFields(db)
        /\ applied \in [Requests -> Nat]
    BY DEF PurchasingInv, ShapeInv
  <1>2. PICK t : /\ Commits(h, t, CreateWrites(t), CreateEffect(t))
                 /\ t.op.kind = "create" /\ CreateAllowed(t)
    BY <1>1, CreateStep
  <1>3. PICK d : d = CreateEffect(t)
    OBVIOUS
  <1>4. Commits(h, t, CreateWrites(t), d)
    BY <1>2, <1>3
  <1>5. /\ HasFields(d) /\ Covers(CreateWrites(t))
        /\ \A o \in Orders : o > d.lastOrder => d.order[o] = NoOrder
        /\ d.stock = db.stock /\ d.moved = db.moved
        /\ \A o \in Orders :
              \/ d.order[o] = db.order[o]
              \/ /\ db.order[o] = NoOrder
                 /\ \E items \in Quantities : d.order[o] = Draft(items)
    BY <1>1, <1>2, <1>3, <1>4, CreatedIs
  <1>6. ShapeInv'
    BY <1>1, <1>4, <1>5, CommitKeepsShape
  <1>7. /\ db' = d /\ applied' = [applied EXCEPT ![t.op] = @ + 1] /\ t.op \in Requests
    BY <1>4 DEF Commits, IsTxn
  <1>8. ASSUME NEW o \in Orders PROVE OrderRight(d.order[o], d.moved[o])
    <2>1. OrderRight(db.order[o], db.moved[o])
      BY <1>1 DEF OrdersInv
    <2>2. CASE d.order[o] = db.order[o]
      BY <1>5, <2>1, <2>2
    <2>3. CASE d.order[o] # db.order[o]
      <3>1. PICK items \in Quantities : d.order[o] = Draft(items)
        BY <1>5, <2>3
      <3>2. db.moved[o] = Zero
        BY <1>5, <2>1, <2>3 DEF OrderRight, NoOrder
      <3> QED BY <1>5, <3>1, <3>2, ZeroType DEF OrderRight, Draft, Quantities
    <2> QED BY <2>2, <2>3
  <1>9. OrdersInv'
    BY <1>7, <1>8 DEF OrdersInv, OrderRight
  <1>10. ASSUME NEW x \in Products
         PROVE  /\ d.stock[x].onOrder = Coming(d.order, x)
                /\ d.stock[x].onHand = Opened(x) + Came(d.moved, x) + Adjusted(applied', x)
    <2>1. \A o \in Orders : Brings(db.order[o], x) = Brings(d.order[o], x)
      <3> SUFFICES ASSUME NEW o \in Orders, d.order[o] # db.order[o]
                   PROVE  Brings(db.order[o], x) = Brings(d.order[o], x)
        OBVIOUS
      <3>1. db.order[o] = NoOrder /\ \E items \in Quantities : d.order[o] = Draft(items)
        BY <1>5
      <3>2. db.order[o].status = "none" /\ d.order[o].status = "draft"
        BY <3>1 DEF NoOrder, Draft
      <3> QED BY <3>2 DEF Brings, Underway
    <2>2. Coming(db.order, x) = Coming(d.order, x)
      BY <2>1, ComingSame
    <2>3. /\ Adjusted(applied', x)
                = Adjusted(applied, x) + IF Adjusts(t.op, x) THEN t.op.change ELSE 0
          /\ Adjusted(applied, x) \in Int
      BY <1>1, <1>7, AdjustedChanges
    <2>4. Adjusted(applied', x) = Adjusted(applied, x)
      BY <1>2, <2>3 DEF Adjusts
    <2> QED BY <1>1, <1>5, <2>2, <2>4 DEF StockInv
  <1>11. StockInv'
    BY <1>7, <1>10 DEF StockInv, Opened
  <1>12. OrdersStay
    BY <1>5, <1>7 DEF OrdersStay, Stays, NoOrder
  <1> QED BY <1>6, <1>9, <1>11, <1>12 DEF PurchasingInv

LEMMA AdjustKeeps ==
    ASSUME PurchasingInv, NEW h, AdjustStock(h)
    PROVE  PurchasingInv' /\ OrdersStay
  <1>1. /\ ShapeInv /\ OrdersInv /\ StockInv /\ HasFields(db)
        /\ applied \in [Requests -> Nat]
    BY DEF PurchasingInv, ShapeInv
  <1>2. PICK t : /\ Commits(h, t, AdjustWrites(t), AdjustEffect(t))
                 /\ t.op.kind = "adjust" /\ AdjustAllowed(t)
    BY <1>1, AdjustStep
  <1>3. IsTxn(t)
    BY <1>2 DEF Commits
  <1>4. t.op \in AdjustRequests
    BY <1>2, <1>3, KindOf DEF IsTxn
  <1>5. PICK p \in Products, c \in Int : p = t.op.product /\ c = t.op.change
    BY <1>4 DEF AdjustRequests
  <1>6. PICK d : d = AdjustEffect(t)
    OBVIOUS
  <1>7. Commits(h, t, AdjustWrites(t), d)
    BY <1>2, <1>6
  <1>8. /\ d = [order |-> d.order, lastOrder |-> d.lastOrder, stock |-> d.stock,
                moved |-> d.moved, opkeys |-> d.opkeys]
        /\ d.order = db.order /\ d.lastOrder = db.lastOrder
        /\ d.stock = [db.stock EXCEPT ![p] = Corrected(t)]
        /\ d.moved = db.moved
    BY <1>1, <1>5, <1>6, AdjustDelta
  <1>9. /\ Corrected(t) \in StockType
        /\ Corrected(t).onOrder = db.stock[p].onOrder
        /\ Corrected(t).onHand = db.stock[p].onHand + c
    <2>1. db.stock[p] \in StockType
      BY <1>1 DEF HasFields
    <2>2. Corrected(t) = [db.stock[p] EXCEPT !.row = TRUE, !.onHand = @ + c]
      BY <1>5 DEF Corrected
    <2>3. PICK s \in StockType : s = db.stock[p]
      BY <2>1
    <2>4. PICK row : row = [s EXCEPT !.row = TRUE, !.onHand = @ + c]
      OBVIOUS
    <2>5. row \in StockType /\ row.onHand = s.onHand + c /\ row.onOrder = s.onOrder
      BY <2>4, StockedRow
    <2> QED BY <2>2, <2>3, <2>4, <2>5
  <1>10. HasFields(d)
    BY <1>1, <1>8, <1>9 DEF HasFields
  <1>11. /\ db' = d /\ applied' = [applied EXCEPT ![t.op] = @ + 1] /\ t.op \in Requests
    BY <1>7 DEF Commits, IsTxn
  <1>12. Covers(AdjustWrites(t))
    BY <1>8, <1>11 DEF Covers
  <1>13. \A o \in Orders : o > d.lastOrder => d.order[o] = NoOrder
    BY <1>1, <1>8 DEF ShapeInv
  <1>14. ShapeInv'
    BY <1>1, <1>7, <1>10, <1>12, <1>13, CommitKeepsShape
  <1>15. OrdersInv'
    BY <1>1, <1>8, <1>11 DEF OrdersInv, OrderRight
  <1>16. ASSUME NEW x \in Products
         PROVE  /\ d.stock[x].onOrder = Coming(d.order, x)
                /\ d.stock[x].onHand = Opened(x) + Came(d.moved, x) + Adjusted(applied', x)
    <2>1. /\ Adjusted(applied', x)
                = Adjusted(applied, x) + IF Adjusts(t.op, x) THEN t.op.change ELSE 0
          /\ Adjusted(applied, x) \in Int
      BY <1>1, <1>11, AdjustedChanges
    <2>2. Adjusts(t.op, x) <=> x = p
      BY <1>2, <1>5 DEF Adjusts
    <2>3. /\ db.stock[x].onOrder = Coming(db.order, x)
          /\ db.stock[x].onHand = Opened(x) + Came(db.moved, x) + Adjusted(applied, x)
      BY <1>1 DEF StockInv
    <2>4. Opened(x) \in Int /\ Came(db.moved, x) \in Int
      <3>1. db.moved \in [Orders -> Quantities]
        BY <1>1 DEF HasFields
      <3> QED BY <3>1, CameInt, PurchasingAssumption DEF Opened
    <2>5. CASE x = p
      <3>1. /\ d.stock[x].onHand = db.stock[x].onHand + c
            /\ d.stock[x].onOrder = db.stock[x].onOrder
        BY <1>1, <1>8, <1>9, <2>5 DEF HasFields
      <3>2. Adjusted(applied', x) = Adjusted(applied, x) + c
        BY <1>5, <2>1, <2>2, <2>5
      <3> QED BY <1>8, <2>1, <2>3, <2>4, <3>1, <3>2
    <2>6. CASE x # p
      <3>1. d.stock[x] = db.stock[x]
        BY <1>1, <1>8, <2>6 DEF HasFields
      <3>2. Adjusted(applied', x) = Adjusted(applied, x)
        BY <2>1, <2>2, <2>6
      <3> QED BY <1>8, <2>3, <3>1, <3>2
    <2> QED BY <2>5, <2>6
  <1>17. StockInv'
    BY <1>11, <1>16 DEF StockInv, Opened
  <1>18. OrdersStay
    BY <1>8, <1>11 DEF OrdersStay, Stays
  <1> QED BY <1>14, <1>15, <1>17, <1>18 DEF PurchasingInv

-----------------------------------------------------------------------------
(* The invariant.                                                           *)

LEMMA StartsRight == Init => PurchasingInv
  <1> SUFFICES ASSUME Init PROVE PurchasingInv
    OBVIOUS
  <1>1. /\ db.order = [o \in Orders |-> NoOrder] /\ db.lastOrder = 0
        /\ db.stock = [x \in Products |->
                         [row |-> x \in Stocked,
                          onHand |-> IF x \in Stocked THEN OpeningStock ELSE 0,
                          onOrder |-> 0]]
        /\ db.moved = [o \in Orders |-> Zero]
        /\ db = [order |-> db.order, lastOrder |-> db.lastOrder, stock |-> db.stock,
                 moved |-> db.moved, opkeys |-> db.opkeys]
        /\ DOMAIN run = {} /\ applied = [r \in Requests |-> 0]
    BY DEF Init
  <1>2. ShapeInv
    <2>1. db.order \in [Orders -> OrderType]
      BY <1>1, NoOrderType
    <2>2. db.stock \in [Products -> StockType]
      BY <1>1, PurchasingAssumption DEF StockType
    <2>3. db.moved \in [Orders -> Quantities]
      BY <1>1, ZeroType
    <2>4. HasFields(db)
      BY <1>1, <2>1, <2>2, <2>3 DEF HasFields
    <2> QED BY <1>1, <2>4 DEF ShapeInv
  <1>3. OrdersInv
    BY <1>1, ZeroType DEF OrdersInv, OrderRight, NoOrder
  <1>4. ASSUME NEW x \in Products
        PROVE  Coming(db.order, x) = 0 /\ Came(db.moved, x) = 0 /\ Adjusted(applied, x) = 0
    <2> DEFINE f == [o \in Orders |-> Brings(db.order[o], x)]
               g == [o \in Orders |-> db.moved[o][x]]
               h == [r \in Requests |-> Adjustment(r, applied[r], x)]
    <2>1. \A o \in Orders : f[o] = 0
      BY <1>1 DEF Brings, NoOrder, Underway
    <2>2. \A o \in Orders : g[o] = 0
      BY <1>1, ZeroType
    <2>3. \A r \in Requests : h[r] = 0
      <3> SUFFICES ASSUME NEW r \in Requests PROVE Adjustment(r, 0, x) = 0
        BY <1>1
      <3>1. CASE Adjusts(r, x)
        <4>1. r.change \in Int
          BY <3>1, KindOf DEF Adjusts, AdjustRequests
        <4> QED BY <3>1, <4>1 DEF Adjustment
      <3>2. CASE ~Adjusts(r, x)
        BY <3>2 DEF Adjustment
      <3> QED BY <3>1, <3>2
    <2>4. IsFiniteSet(Requests)
      BY PurchasingAssumption
    <2> HIDE DEF f, g, h
    <2>5. SumOver(Orders, f) = 0 /\ SumOver(Orders, g) = 0
      BY <2>1, <2>2, OrdersFinite, SumZero
    <2>6. SumOver(Requests, h) = 0
      BY <2>3, <2>4, SumZero
    <2> QED BY <2>5, <2>6 DEF Coming, Came, Adjusted, f, g, h
  <1>5. StockInv
    BY <1>1, <1>4, PurchasingAssumption DEF StockInv, Opened
  <1> QED BY <1>2, <1>3, <1>5 DEF PurchasingInv

LEMMA OnlyRunsChange ==
    ASSUME PurchasingInv, db' = db, applied' = applied,
           \A h \in DOMAIN run' :
              \/ h \in DOMAIN run /\ run'[h] = run[h]
              \/ IsTxn(run'[h]) /\ run'[h].snap = db
    PROVE  PurchasingInv' /\ OrdersStay
  <1>1. ShapeInv /\ OrdersInv /\ StockInv
    BY DEF PurchasingInv
  <1>2. ASSUME NEW h \in DOMAIN run'
        PROVE  /\ IsTxn(run'[h])
               /\ \A o \in Orders : OrderDoc(o) \notin run'[h].missed =>
                                       run'[h].snap.order[o] = db'.order[o]
               /\ OrderCounter \notin run'[h].missed =>
                     run'[h].snap.lastOrder = db'.lastOrder
    BY <1>1 DEF ShapeInv, Seen
  <1>3. ShapeInv'
    BY <1>1, <1>2 DEF ShapeInv, Seen, HasFields, IsTxn
  <1>4. OrdersInv' /\ StockInv'
    BY <1>1 DEF OrdersInv, OrderRight, StockInv, Opened
  <1> QED BY <1>3, <1>4 DEF PurchasingInv, OrdersStay, Stays

LEMMA BeginKeeps ==
    ASSUME PurchasingInv, NEW h, Begin(h)
    PROVE  PurchasingInv' /\ OrdersStay
  <1>1. PICK r \in Requests : OpenTxn(h, r, 0)
    BY DEF Begin
  <1>2. db' = db /\ applied' = applied /\ HasFields(db)
    BY DEF Begin, PurchasingInv, ShapeInv
  <1>3. ASSUME NEW g \in DOMAIN run'
        PROVE  \/ g \in DOMAIN run /\ run'[g] = run[g]
               \/ IsTxn(run'[g]) /\ run'[g].snap = db
    BY <1>1, <1>2 DEF OpenTxn, IsTxn
  <1> QED BY <1>2, <1>3, OnlyRunsChange

LEMMA AbandonKeeps ==
    ASSUME PurchasingInv, NEW h, Abandon(h)
    PROVE  PurchasingInv' /\ OrdersStay
  <1>1. db' = db /\ applied' = applied
    BY DEF Abandon
  <1>2. \A g \in DOMAIN run' : g \in DOMAIN run /\ run'[g] = run[g]
    BY DEF Abandon, AbortTxn
  <1> QED BY <1>1, <1>2, OnlyRunsChange

LEMMA StepKeeps ==
    ASSUME PurchasingInv, [Next]_vars
    PROVE  PurchasingInv' /\ OrdersStay
  <1>1. CASE Next
    <2>1. PICK h \in Handlers : Step(h)
      BY <1>1 DEF Next
    <2> QED BY <2>1, BeginKeeps, CreateKeeps, EditKeeps, MoveKeeps, ReceiveKeeps,
               AdjustKeeps, AbandonKeeps DEF Step
  <1>2. CASE UNCHANGED vars
    <2>1. db' = db /\ applied' = applied /\ run' = run
      BY <1>2 DEF vars
    <2> QED BY <2>1, OnlyRunsChange
  <1> QED BY <1>1, <1>2

\* The orders and the stock stay of their types, every order that is open in a
\* transaction is the one it read, and order by order the goods and the
\* announcements add up.
THEOREM PurchasingInvariant == Spec => []PurchasingInv
  <1>1. Init => PurchasingInv
    BY StartsRight
  <1>2. PurchasingInv /\ [Next]_vars => PurchasingInv'
    BY StepKeeps
  <1> QED BY <1>1, <1>2, PTL DEF Spec

-----------------------------------------------------------------------------
(* The sums of the properties.                                              *)

LEMMA UnderwaySum ==
    ASSUME ShapeInv, NEW x \in Products
    PROVE  MapThenSumSet(LAMBDA o : db.order[o].remaining[x], OrdersIn(Underway))
              = Coming(db.order, x)
  <1> DEFINE S == OrdersIn(Underway)
             f == [o \in S |-> db.order[o].remaining[x]]
             g == CHOOSE g : g = [s \in SUBSET S |->
                    IF s = {} THEN 0
                    ELSE db.order[One(s)].remaining[x] + g[s \ {One(s)}]]
  <1>1. MapThenSumSet(LAMBDA o : db.order[o].remaining[x], OrdersIn(Underway)) = g[S]
    BY Zenon DEF MapThenSumSet, MapThenFoldSet, One
  <1>2. IsFiniteSet(S) /\ S \in SUBSET Orders
    BY OrdersFinite, NoneLeft DEF OrdersIn
  <1>3. PICK k : Adds(S, f, k)
    BY <1>2, AddsExist
  <1>4. \A s \in SUBSET S : s # {} => f[One(s)] = db.order[One(s)].remaining[x]
    BY OneIn
  <1> DEFINE b == [o \in Orders |-> Brings(db.order[o], x)]
  <1>5. \A o \in Orders : b[o] \in Int
    BY BringsInt DEF ShapeInv, HasFields
  <1>6. \A o \in S : f[o] = b[o]
    BY DEF Brings, OrdersIn
  <1>7. \A o \in Orders \ S : b[o] = 0
    BY DEF Brings, OrdersIn
  <1> HIDE DEF f, S, b
  <1>8. k = [s \in SUBSET S |->
               IF s = {} THEN 0 ELSE db.order[One(s)].remaining[x] + k[s \ {One(s)}]]
    BY <1>3, <1>4 DEF Adds
  <1>9. g = [s \in SUBSET S |->
               IF s = {} THEN 0 ELSE db.order[One(s)].remaining[x] + g[s \ {One(s)}]]
    BY <1>8
  <1> HIDE DEF g
  <1>10. Adds(S, f, g)
    BY <1>4, <1>9 DEF Adds
  <1>11. SumOver(S, f) = g[S]
    BY <1>2, <1>10, SumIs
  <1>12. SumOver(S, f) = SumOver(S, b)
    BY <1>2, <1>6, SumSame
  <1>13. SumOver(Orders, b) = SumOver(S, b)
    BY <1>2, <1>5, <1>7, OrdersFinite, SumPart
  <1> QED BY <1>1, <1>11, <1>12, <1>13 DEF Coming, b

LEMMA MovedSum ==
    ASSUME ShapeInv, NEW x \in Products
    PROVE  MapThenSumSet(LAMBDA o : db.moved[o][x], Orders) = Came(db.moved, x)
  <1> DEFINE f == [o \in Orders |-> db.moved[o][x]]
             g == CHOOSE g : g = [s \in SUBSET Orders |->
                    IF s = {} THEN 0 ELSE db.moved[One(s)][x] + g[s \ {One(s)}]]
  <1>1. MapThenSumSet(LAMBDA o : db.moved[o][x], Orders) = g[Orders]
    BY Zenon DEF MapThenSumSet, MapThenFoldSet, One
  <1>2. PICK k : Adds(Orders, f, k)
    BY OrdersFinite, AddsExist
  <1>3. \A s \in SUBSET Orders : s # {} => f[One(s)] = db.moved[One(s)][x]
    BY OneIn
  <1> HIDE DEF f
  <1>4. k = [s \in SUBSET Orders |->
               IF s = {} THEN 0 ELSE db.moved[One(s)][x] + k[s \ {One(s)}]]
    BY <1>2, <1>3 DEF Adds
  <1>5. g = [s \in SUBSET Orders |->
               IF s = {} THEN 0 ELSE db.moved[One(s)][x] + g[s \ {One(s)}]]
    BY <1>4
  <1> HIDE DEF g
  <1>6. Adds(Orders, f, g)
    BY <1>3, <1>5 DEF Adds
  <1>7. SumOver(Orders, f) = g[Orders]
    BY <1>6, OrdersFinite, SumIs
  <1> QED BY <1>1, <1>7 DEF Came, f

LEMMA AdjustedSum ==
    ASSUME ShapeInv, NEW x \in Products
    PROVE  MapThenSumSet(LAMBDA r : applied[r] * r.change,
                         {r \in Requests : r.kind = "adjust" /\ r.product = x})
              = Adjusted(applied, x)
  <1> DEFINE S == {r \in Requests : r.kind = "adjust" /\ r.product = x}
             f == [r \in S |-> applied[r] * r.change]
             g == CHOOSE g : g = [s \in SUBSET S |->
                    IF s = {} THEN 0 ELSE applied[One(s)] * One(s).change + g[s \ {One(s)}]]
  <1>1. MapThenSumSet(LAMBDA r : applied[r] * r.change,
                      {r \in Requests : r.kind = "adjust" /\ r.product = x}) = g[S]
    BY Zenon DEF MapThenSumSet, MapThenFoldSet, One
  <1>0. IsFiniteSet(Requests)
    BY PurchasingAssumption
  <1>2. IsFiniteSet(S) /\ S \in SUBSET Requests
    BY <1>0, NoneLeft
  <1>3. PICK k : Adds(S, f, k)
    BY <1>2, AddsExist
  <1>4. \A s \in SUBSET S : s # {} => f[One(s)] = applied[One(s)] * One(s).change
    BY OneIn
  <1> DEFINE b == [r \in Requests |-> Adjustment(r, applied[r], x)]
  <1>5. \A r \in Requests : b[r] \in Int
    BY AdjustmentInt DEF ShapeInv
  <1>6. \A r \in S : f[r] = b[r]
    BY DEF Adjustment, Adjusts
  <1>7. \A r \in Requests \ S : b[r] = 0
    BY DEF Adjustment, Adjusts
  <1> HIDE DEF f, S, b
  <1>8. k = [s \in SUBSET S |->
               IF s = {} THEN 0 ELSE applied[One(s)] * One(s).change + k[s \ {One(s)}]]
    BY <1>3, <1>4 DEF Adds
  <1>9. g = [s \in SUBSET S |->
               IF s = {} THEN 0 ELSE applied[One(s)] * One(s).change + g[s \ {One(s)}]]
    BY <1>8
  <1> HIDE DEF g
  <1>10. Adds(S, f, g)
    BY <1>4, <1>9 DEF Adds
  <1>11. SumOver(S, f) = g[S]
    BY <1>2, <1>10, SumIs
  <1>12. SumOver(S, f) = SumOver(S, b)
    BY <1>2, <1>6, SumSame
  <1>13. SumOver(Requests, b) = SumOver(S, b)
    BY <1>0, <1>2, <1>5, <1>7, SumPart
  <1> QED BY <1>1, <1>11, <1>12, <1>13 DEF Adjusted, b

-----------------------------------------------------------------------------
(* The properties.                                                          *)

\* What every product's row announces as on order is what the orders underway
\* still have to bring.
THEOREM AnnouncementsReconcile == Spec => []OnOrderReconciles
  <1>1. PurchasingInv => OnOrderReconciles
    BY UnderwaySum DEF PurchasingInv, StockInv, OnOrderReconciles
  <1> QED BY <1>1, PurchasingInvariant, PTL

\* The receipts of every order, its stock movements and the stock on hand agree.
THEOREM GoodsAlwaysReconcile == Spec => []GoodsReconcile
  <1>1. ASSUME PurchasingInv PROVE GoodsReconcile
    <2>1. ShapeInv /\ OrdersInv /\ StockInv
      BY <1>1 DEF PurchasingInv
    <2>2. ASSUME NEW x \in Products
          PROVE  db.stock[x].onHand =
                    (IF x \in Stocked THEN OpeningStock ELSE 0)
                      + MapThenSumSet(LAMBDA o : db.moved[o][x], Orders)
                      + MapThenSumSet(LAMBDA r : applied[r] * r.change,
                                      {r \in Requests : r.kind = "adjust" /\ r.product = x})
      <3>1. db.stock[x].onHand = Opened(x) + Came(db.moved, x) + Adjusted(applied, x)
        BY <2>1 DEF StockInv
      <3>2. MapThenSumSet(LAMBDA o : db.moved[o][x], Orders) = Came(db.moved, x)
        BY <2>1, MovedSum
      <3>3. MapThenSumSet(LAMBDA r : applied[r] * r.change,
                          {r \in Requests : r.kind = "adjust" /\ r.product = x})
               = Adjusted(applied, x)
        BY <2>1, AdjustedSum
      <3> QED BY <3>1, <3>2, <3>3 DEF Opened
    <2> QED BY <2>1, <2>2 DEF OrdersInv, OrderRight, GoodsReconcile
  <1> QED BY <1>1, PurchasingInvariant, PTL

\* Once an order is submitted no edit reaches its quantities, whoever had it
\* open, and it is a draft no more.
THEOREM SubmittedOrdersStay == Spec => OrderedAsSubmitted
  <1>1. PurchasingInv /\ [Next]_vars =>
           [\A o \in Orders :
              db.order[o].status \notin {"none", "draft"} =>
                  /\ db'.order[o].ordered = db.order[o].ordered
                  /\ db'.order[o].status \notin {"none", "draft"}]_vars
    BY StepKeeps DEF OrdersStay, Stays
  <1> QED BY <1>1, PurchasingInvariant, PTL DEF Spec, OrderedAsSubmitted
=============================================================================
