--------------------------- MODULE HubCafeProofs ---------------------------
(***************************************************************************)
(* Proofs about HubCafe, for any requests, tables, orders and number of    *)
(* workers: row locks are exclusive, orders are not overwritten, nothing   *)
(* is collected after the count, and bills, orders and payments agree.     *)
(*                                                                         *)
(* The invariants say what a lock is worth: the copy of an order, of the   *)
(* day's closing or of the invoice to be collected that a transaction      *)
(* holds under its lock is what is committed.                              *)
(***************************************************************************)
EXTENDS HubCafe, Sums, TLAPS

OrderFields == {"status", "version", "session", "invoice"}
InvoiceFields == {"status", "total", "paid", "due", "key", "source", "customer"}

\* The part of a database that the steps may rely on.
ShapeOf(d) ==
    /\ DOMAIN d = {"session", "order", "invoice", "received", "owed", "reversal", "closing"}
    /\ DOMAIN d.order = Orders /\ DOMAIN d.session = Sessions
    /\ DOMAIN d.invoice = Invoices /\ DOMAIN d.closing = {"status", "cash"}
    /\ \A o \in Orders : DOMAIN d.order[o] = OrderFields /\ d.order[o].version \in Nat
    /\ \A i \in Invoices : /\ DOMAIN d.invoice[i] = InvoiceFields
                           /\ d.invoice[i].source \in Sources \cup {<<>>}

\* The open transactions are transactions.
WorkInv ==
    /\ DOMAIN work \subseteq Workers
    /\ \A w \in DOMAIN work :
          /\ DOMAIN work[w] = {"op", "version", "at", "saw", "locked"}
          /\ work[w].op \in Requests
          /\ work[w].at \in Nat \ {0}

\* A locked closing is up to date.
ClosingInv ==
    \A w \in DOMAIN work : Branch \in work[w].locked =>
        /\ Closing \in DOMAIN work[w].saw
        /\ work[w].saw[Closing] = db.closing

\* From this query on a request has locked the day.
DayLockedAfter(kind) ==
    CASE kind = "bill" -> 3
      [] kind \in {"checkout", "collect"} -> 2
      [] kind = "begin-day" -> 1
      [] OTHER -> 2

DayKinds == {"begin-day", "submit", "close-day", "reopen"}

BranchInv ==
    \A w \in DOMAIN work :
        work[w].op.kind \in {"bill", "checkout", "collect"} \cup DayKinds
        /\ work[w].at > DayLockedAfter(work[w].op.kind)
            => Branch \in work[w].locked

\* Orders are read under a lock, and what was read is up to date.
OrderInv ==
    \A w \in DOMAIN work : \A o \in Orders :
        /\ OrderRow(o) \in work[w].locked <=> OrderRow(o) \in DOMAIN work[w].saw
        /\ OrderRow(o) \in work[w].locked => work[w].saw[OrderRow(o)] = db.order[o]

\* A request has read the order it moves.
MoveInv ==
    \A w \in DOMAIN work :
        work[w].op.kind = "move" /\ work[w].at > 1
            => OrderRow(work[w].op.order) \in work[w].locked

\* A collection finds the source of its invoice.
SourceInv ==
    \A w \in DOMAIN work : \A i \in Invoices :
        InvoiceRow(i) \in DOMAIN work[w].saw
            => work[w].saw[InvoiceRow(i)].source \in Sources \cup {<<>>}

\* The invoice is the first thing a collection reads.
CollectInv ==
    \A w \in DOMAIN work :
        work[w].op.kind = "collect" /\ work[w].at > 1
            => InvoiceRow(work[w].op.invoice) \in DOMAIN work[w].saw

Inv == /\ ShapeOf(db) /\ WorkInv /\ LocksAreExclusive
       /\ ClosingInv /\ BranchInv /\ OrderInv /\ MoveInv /\ SourceInv /\ CollectInv

-----------------------------------------------------------------------------
(* The queries.                                                             *)

\* Rows of different tables, or of different keys, are different.
LEMMA RowsDiffer ==
    ASSUME NEW x, NEW y
    PROVE  /\ OrderRow(x) # Branch /\ OrderRow(x) # Closing /\ OrderRow(x) # Table
           /\ OrderRow(x) # Collected
           /\ OrderRow(x) # SessionRow(y) /\ OrderRow(x) # InvoiceRow(y)
           /\ OrderRow(x) # KeyRow(y) /\ OrderRow(x) # SourceRow(y) /\ OrderRow(x) # VoidRow(y)
           /\ SessionRow(x) # Branch /\ InvoiceRow(x) # Branch
           /\ Closing # Branch /\ <<>> # Branch
           /\ InvoiceRow(x) # Closing /\ InvoiceRow(x) # SessionRow(y)
           /\ InvoiceRow(x) # KeyRow(y) /\ InvoiceRow(x) # SourceRow(y)
           /\ InvoiceRow(x) # VoidRow(y) /\ InvoiceRow(x) # Table /\ InvoiceRow(x) # Collected
           /\ OrderRow(x) = OrderRow(y) => x = y
           /\ InvoiceRow(x) = InvoiceRow(y) => x = y
  BY DEF OrderRow, Branch, Closing, Table, Collected, SessionRow, InvoiceRow, KeyRow,
         SourceRow, VoidRow

\* Every query locks the day alone and reads it again, or locks other rows;
\* it locks the orders it reads.
Proper(q) ==
    /\ \/ Branch \notin q.lock /\ q.refresh = FALSE
       \/ q.lock = {Branch} /\ Closing \in q.look /\ q.refresh = TRUE
    /\ \A o \in Orders : OrderRow(o) \in q.lock <=> OrderRow(o) \in q.look

LEMMA ProperForms ==
    /\ \A rows : (\A o \in Orders : OrderRow(o) \notin rows) => Proper(Find(rows))
    /\ \A rows : Branch \notin rows => Proper(Take(rows))
    /\ \A rows : (\A o \in Orders : OrderRow(o) \notin rows) => Proper(DayQuery(rows))
  BY RowsDiffer DEF Proper, Find, Take, DayQuery

LEMMA SourcesAreRows ==
    /\ Branch \notin Sources
    /\ \A source : Branch \notin OrderRows(source)
    /\ \A source : \A o \in Orders : SourceRow(source) # OrderRow(o)
  BY RowsDiffer DEF Sources, OrderRows

\* What a request of each kind carries.
LEMMA RequestsAreKnown ==
    ASSUME NEW op \in Requests
    PROVE  /\ op.kind \in {"open", "close", "place", "move", "ask", "guest-ask", "bill",
                           "checkout", "collect", "void"} \cup DayKinds
           /\ op.kind = "bill" => op.source \in Sources
           /\ op.kind \in {"place", "move", "checkout"} => op.order \in Orders
           /\ op.kind = "move" => op.to \in Targets
           /\ op.kind \in {"collect", "void"} => op.invoice \in Invoices
           /\ op.kind \in {"open", "close", "ask", "guest-ask"} => op.session \in Sessions
  BY HubCafeAssumption
  DEF SessionRequests, PlaceRequests, MoveRequests, BillRequests, CheckoutRequests,
      CollectRequests, CloseRequests, VoidRequests, DayRequests, DayKinds

LEMMA QueriesAreProper ==
    ASSUME Inv, NEW w \in DOMAIN work, work[w].at <= Len(Queries(work[w]))
    PROVE  Proper(Queries(work[w])[work[w].at])
  <1> DEFINE t == work[w]
  <1> t.at \in Nat \ {0} /\ t.op \in Requests
    BY DEF Inv, WorkInv
  <1>1. CASE t.op.kind \in {"open", "close"}
    BY <1>1, ProperForms, RowsDiffer DEF Queries, OpenQueries, CloseQueries
  <1>2. CASE t.op.kind = "place"
    BY <1>2, ProperForms, RowsDiffer DEF Queries, PlaceQueries
  <1>3. CASE t.op.kind = "move"
    BY <1>3, ProperForms, RowsDiffer DEF Queries, MoveQueries
  <1>4. CASE t.op.kind = "ask"
    BY <1>4, ProperForms, RowsDiffer, SourcesAreRows DEF Queries, AskQueries
  <1>5. CASE t.op.kind = "guest-ask"
    BY <1>5, ProperForms, RowsDiffer DEF Queries, GuestAskQueries
  <1>6. CASE t.op.kind = "bill"
    <2>1. t.op.source \in Sources
      BY <1>6, RequestsAreKnown
    <2>2. Proper(BillQueries(t)[4])
      BY SourcesAreRows DEF Proper, BillQueries
    <2>3. Proper(BillQueries(t)[1]) /\ Proper(BillQueries(t)[3])
      BY ProperForms, RowsDiffer DEF BillQueries
    <2>4. Branch \notin {t.op.source}
      BY <2>1, SourcesAreRows
    <2>5. Proper(BillQueries(t)[2])
      BY <2>4, ProperForms DEF BillQueries
    <2>6. Queries(t) = BillQueries(t) /\ Len(BillQueries(t)) = 4
      BY <1>6 DEF Queries, BillQueries
    <2>7. t.at \in 1..4
      BY <2>6
    <2> QED BY <2>2, <2>3, <2>5, <2>6, <2>7
  <1>7. CASE t.op.kind = "checkout"
    BY <1>7, ProperForms, RowsDiffer DEF Queries, CheckoutQueries
  <1>8. CASE t.op.kind = "collect"
    <2>1. ASSUME t.at > 2 PROVE Branch # SourceOf(t)
      <3>1. t.op.invoice \in Invoices /\ InvoiceRow(t.op.invoice) \in DOMAIN t.saw
        BY <1>8, <2>1, RequestsAreKnown DEF Inv, CollectInv
      <3>2. t.saw[InvoiceRow(t.op.invoice)].source \in Sources \cup {<<>>}
        BY <3>1 DEF Inv, SourceInv
      <3> QED BY <2>1, <3>2, RowsDiffer, SourcesAreRows DEF SourceOf
    <2>2. /\ Proper(CollectQueries(t)[1]) /\ Proper(CollectQueries(t)[2])
          /\ Proper(CollectQueries(t)[4])
      BY ProperForms, RowsDiffer, SourcesAreRows DEF CollectQueries
    <2>3. ASSUME t.at > 2 PROVE Proper(CollectQueries(t)[3])
      <3>1. Branch \notin {SourceOf(t)}
        BY <2>1, <2>3
      <3> QED BY <3>1, ProperForms DEF CollectQueries
    <2>4. Queries(t) = CollectQueries(t) /\ Len(CollectQueries(t)) = 4
      BY <1>8 DEF Queries, CollectQueries
    <2>5. t.at \in 1..4 /\ (t.at = 3 => t.at > 2)
      BY <2>4
    <2> QED BY <2>2, <2>3, <2>4, <2>5
  <1>9. CASE t.op.kind = "void"
    <2>1. \A o \in Orders : OrderRow(o) \notin {InvoiceRow(t.op.invoice), VoidRow(t.op.key)}
      BY RowsDiffer
    <2> QED BY <1>9, <2>1, ProperForms DEF Queries, VoidQueries
  <1>10. CASE t.op.kind \in DayKinds
    BY <1>10, ProperForms, RowsDiffer DEF Queries, DayQueries, DayKinds
  <1> QED BY <1>1, <1>2, <1>3, <1>4, <1>5, <1>6, <1>7, <1>8, <1>9, <1>10, RequestsAreKnown

-----------------------------------------------------------------------------
(* The steps that read.                                                     *)

LEMMA BeginKeeps ==
    ASSUME Inv, NEW w \in Workers, Begin(w)
    PROVE  Inv'
  <1>1. PICK op \in Requests : /\ w \notin DOMAIN work /\ db' = db
                               /\ OpenTxn(w, op, Shown(op))
    BY DEF Begin
  <1> DEFINE t == [op |-> op, version |-> Shown(op), at |-> 1, saw |-> <<>>, locked |-> {}]
  <1>2. /\ DOMAIN work' = DOMAIN work \cup {w}
        /\ work'[w] = t
        /\ \A v \in DOMAIN work : work'[v] = work[v]
    BY <1>1 DEF OpenTxn
  <1>3. DOMAIN t.saw = {} /\ t.locked = {} /\ t.at = 1 /\ t.op = op
        /\ DOMAIN t = {"op", "version", "at", "saw", "locked"}
    OBVIOUS
  <1>4. ShapeOf(db)' /\ WorkInv'
    BY <1>1, <1>2, <1>3 DEF Inv, WorkInv, ShapeOf
  <1>5. LocksAreExclusive'
    BY <1>1, <1>2, <1>3 DEF Inv, LocksAreExclusive
  <1>6. ClosingInv' /\ OrderInv' /\ SourceInv' /\ MoveInv' /\ CollectInv'
    BY <1>1, <1>2, <1>3 DEF Inv, ClosingInv, OrderInv, SourceInv, MoveInv, CollectInv
  <1>7. BranchInv'
    BY <1>1, <1>2, <1>3 DEF Inv, BranchInv, DayLockedAfter
  <1> QED BY <1>4, <1>5, <1>6, <1>7 DEF Inv

LEMMA RollBackKeeps ==
    ASSUME Inv, NEW w \in Workers, RollBack(w)
    PROVE  Inv'
  <1>1. /\ DOMAIN work' = DOMAIN work \ {w} /\ db' = db
        /\ \A v \in DOMAIN work' : work'[v] = work[v]
    BY DEF RollBack, EndTxn
  <1>2. ShapeOf(db)' /\ WorkInv' /\ LocksAreExclusive'
    BY <1>1 DEF Inv, WorkInv, ShapeOf, LocksAreExclusive
  <1>3. ClosingInv' /\ OrderInv' /\ SourceInv' /\ MoveInv' /\ CollectInv' /\ BranchInv'
    BY <1>1 DEF Inv, ClosingInv, OrderInv, SourceInv, MoveInv, CollectInv, BranchInv
  <1> QED BY <1>2, <1>3 DEF Inv

LEMMA Rows ==
    /\ Row(Closing) = db.closing
    /\ \A o \in Orders : Row(OrderRow(o)) = db.order[o]
    /\ \A i \in Invoices : Row(InvoiceRow(i)) = db.invoice[i]
  BY DEF Row, Closing, OrderRow, InvoiceRow

\* The query that locks the day, and the first one of a move and of a
\* collection.
LEMMA NamedQueries ==
    ASSUME Inv, NEW w \in DOMAIN work, work[w].at <= Len(Queries(work[w]))
    PROVE  LET t == work[w]
               q == Queries(t)[t.at]
           IN  /\ /\ t.op.kind \in {"bill", "checkout", "collect"} \cup DayKinds
                  /\ t.at = DayLockedAfter(t.op.kind)
                  => Branch \in q.lock
               /\ t.op.kind = "move" /\ t.at = 1 => OrderRow(t.op.order) \in q.lock
               /\ t.op.kind = "collect" /\ t.at = 1 => InvoiceRow(t.op.invoice) \in q.look
  <1> DEFINE t == work[w]
  <1>1. CASE t.op.kind = "bill"
    BY <1>1 DEF Queries, BillQueries, DayQuery, DayLockedAfter
  <1>2. CASE t.op.kind = "checkout"
    BY <1>2 DEF Queries, CheckoutQueries, DayQuery, DayLockedAfter
  <1>3. CASE t.op.kind = "collect"
    BY <1>3 DEF Queries, CollectQueries, DayQuery, Take, DayLockedAfter
  <1>4. CASE t.op.kind = "move"
    BY <1>4 DEF Queries, MoveQueries, Take, DayKinds
  <1>5. CASE t.op.kind \in DayKinds
    BY <1>5 DEF Queries, DayQueries, DayQuery, DayKinds, DayLockedAfter
  <1>6. CASE t.op.kind \notin {"bill", "checkout", "collect", "move"} \cup DayKinds
    BY <1>6
  <1> QED BY <1>1, <1>2, <1>3, <1>4, <1>5, <1>6

LEMMA QueryKeeps ==
    ASSUME Inv, NEW w \in Workers, Query(w)
    PROVE  Inv'
  <1> DEFINE t == work[w]
             q == Queries(t)[t.at]
             found == [r \in q.look |-> Row(r)]
             saw == IF q.refresh THEN Over(found, t.saw) ELSE Over(t.saw, found)
  <1>1. /\ w \in DOMAIN work /\ t.at <= Len(Queries(t)) /\ db' = db
        /\ Load(w, q.lock, found, q.refresh)
    BY DEF Query
  <1>2. Proper(q)
    BY <1>1, QueriesAreProper
  <1>3. /\ DOMAIN t = {"op", "version", "at", "saw", "locked"}
        /\ t.op \in Requests /\ t.at \in Nat \ {0}
    BY <1>1 DEF Inv, WorkInv
  <1>4. /\ DOMAIN work' = DOMAIN work
        /\ \A v \in DOMAIN work : v # w => work'[v] = work[v]
        /\ DOMAIN work'[w] = DOMAIN t
        /\ work'[w].op = t.op /\ work'[w].at = t.at + 1
        /\ work'[w].locked = t.locked \cup q.lock
        /\ work'[w].saw = saw
    BY <1>1, <1>3 DEF Load
  <1>5. /\ DOMAIN saw = DOMAIN t.saw \cup q.look
        /\ \A r \in DOMAIN t.saw : ~q.refresh \/ r \notin q.look => saw[r] = t.saw[r]
        /\ \A r \in q.look : q.refresh \/ r \notin DOMAIN t.saw => saw[r] = Row(r)
        /\ \A r \in DOMAIN saw : saw[r] = Row(r) \/ (r \in DOMAIN t.saw /\ saw[r] = t.saw[r])
    BY DEF Over
  <1> HIDE DEF saw, found, q
  <1>6. ShapeOf(db)' /\ WorkInv'
    BY <1>1, <1>3, <1>4 DEF Inv, ShapeOf, WorkInv
  <1>7. LocksAreExclusive'
    <2>1. \A v \in DOMAIN work : v # w => q.lock \cap work[v].locked = {}
      BY <1>1 DEF Load, Free
    <2> QED BY <1>1, <1>4, <2>1 DEF Inv, LocksAreExclusive
  <1>8. ClosingInv'
    <2>1. ASSUME Branch \in t.locked \cup q.lock
          PROVE  Closing \in DOMAIN saw /\ saw[Closing] = db.closing
      <3>1. CASE q.refresh
        BY <1>2, <1>5, <3>1, Rows DEF Proper
      <3>2. CASE ~q.refresh
        BY <1>1, <1>2, <1>5, <2>1, <3>2 DEF Proper, Inv, ClosingInv
      <3> QED BY <3>1, <3>2
    <2> QED BY <1>1, <1>4, <2>1 DEF Inv, ClosingInv
  <1>9. OrderInv'
    <2>1. ASSUME NEW o \in Orders
          PROVE  /\ OrderRow(o) \in t.locked \cup q.lock <=> OrderRow(o) \in DOMAIN saw
                 /\ OrderRow(o) \in t.locked \cup q.lock => saw[OrderRow(o)] = db.order[o]
      <3>1. /\ OrderRow(o) \in t.locked <=> OrderRow(o) \in DOMAIN t.saw
            /\ OrderRow(o) \in t.locked => t.saw[OrderRow(o)] = db.order[o]
        BY <1>1 DEF Inv, OrderInv
      <3> QED BY <1>2, <1>5, <3>1, Rows DEF Proper
    <2> QED BY <1>1, <1>4, <2>1 DEF Inv, OrderInv
  <1>10. SourceInv'
    <2>1. ASSUME NEW i \in Invoices, InvoiceRow(i) \in DOMAIN saw
          PROVE  saw[InvoiceRow(i)].source \in Sources \cup {<<>>}
      BY <1>1, <1>5, <2>1, Rows DEF Inv, SourceInv, ShapeOf
    <2> QED BY <1>1, <1>4, <2>1 DEF Inv, SourceInv
  <1>11. MoveInv' /\ CollectInv'
    <2>1. t.op.kind = "move" => OrderRow(t.op.order) \in t.locked \cup q.lock
      BY <1>1, <1>3, NamedQueries DEF Inv, MoveInv, q
    <2>2. t.op.kind = "collect" => InvoiceRow(t.op.invoice) \in DOMAIN saw
      BY <1>1, <1>3, <1>5, NamedQueries DEF Inv, CollectInv, q
    <2> QED BY <1>1, <1>4, <2>1, <2>2 DEF Inv, MoveInv, CollectInv
  <1>12. BranchInv'
    <2>1. ASSUME t.op.kind \in {"bill", "checkout", "collect"} \cup DayKinds,
                 t.at + 1 > DayLockedAfter(t.op.kind)
          PROVE  Branch \in t.locked \cup q.lock
      <3>1. DayLockedAfter(t.op.kind) \in Nat
        BY DEF DayLockedAfter
      <3>2. CASE t.at > DayLockedAfter(t.op.kind)
        BY <1>1, <2>1, <3>2 DEF Inv, BranchInv
      <3>3. CASE t.at = DayLockedAfter(t.op.kind)
        BY <1>1, <2>1, <3>3, NamedQueries DEF q
      <3> QED BY <1>3, <2>1, <3>1, <3>2, <3>3
    <2> QED BY <1>1, <1>4, <2>1 DEF Inv, BranchInv
  <1> QED BY <1>6, <1>7, <1>8, <1>9, <1>10, <1>11, <1>12 DEF Inv

-----------------------------------------------------------------------------
(* The steps that write.                                                    *)

\* How an order may change.
Change(old, new) ==
    \/ old.status = "none"
    \/ /\ new.version > old.version
       /\ \/ new.status \in MovesFrom(old.status)
          \/ /\ old.status \in {"accepted", "served", "bill_requested"}
             /\ new.status \in {"billed", "closed"}
          \/ old.status = "billed" /\ new.status = "closed"

\* What every effect leaves behind.
Sound(t, next, written) ==
    /\ ShapeOf(next)
    /\ next.closing = db.closing \/ (Branch \in t.locked /\ next.received = db.received)
    /\ next.received = db.received \/ (DayOpen(t) /\ Branch \in t.locked)
    /\ \A o \in Orders : next.order[o] # db.order[o] =>
          /\ OrderRow(o) \in written \cup t.locked
          /\ Change(db.order[o], next.order[o])

Commits(w, next) == \E written : /\ CommitTxn(w, written, next)
                                /\ Sound(work[w], next, written)

LEMMA CommitKeeps ==
    ASSUME Inv, NEW w \in DOMAIN work, NEW next, Commits(w, next)
    PROVE  Inv'
  <1>1. PICK written : CommitTxn(w, written, next) /\ Sound(work[w], next, written)
    BY DEF Commits
  <1>2. /\ DOMAIN work' = DOMAIN work \ {w} /\ db' = next
        /\ \A v \in DOMAIN work' : work'[v] = work[v]
    BY <1>1 DEF CommitTxn, EndTxn
  <1>3. ShapeOf(db)' /\ WorkInv' /\ LocksAreExclusive'
    BY <1>1, <1>2 DEF Inv, WorkInv, Sound, ShapeOf, LocksAreExclusive
  <1>4. SourceInv' /\ MoveInv' /\ CollectInv' /\ BranchInv'
    BY <1>2 DEF Inv, SourceInv, MoveInv, CollectInv, BranchInv
  <1>5. ClosingInv'
    <2>1. ASSUME NEW v \in DOMAIN work', Branch \in work[v].locked
          PROVE  next.closing = db.closing
      BY <1>1, <1>2, <2>1 DEF Inv, LocksAreExclusive, Sound
    <2> QED BY <1>2, <2>1 DEF Inv, ClosingInv
  <1>6. OrderInv'
    <2>1. ASSUME NEW v \in DOMAIN work', NEW o \in Orders, OrderRow(o) \in work[v].locked
          PROVE  next.order[o] = db.order[o]
      <3>1. v \in DOMAIN work /\ v # w
        BY <1>2
      <3>2. OrderRow(o) \notin written
        BY <1>1, <2>1, <3>1 DEF CommitTxn, Free
      <3>3. OrderRow(o) \notin work[w].locked
        BY <2>1, <3>1 DEF Inv, LocksAreExclusive
      <3> QED BY <1>1, <3>2, <3>3 DEF Sound
    <2> QED BY <1>2, <2>1 DEF Inv, OrderInv
  <1> QED BY <1>3, <1>4, <1>5, <1>6 DEF Inv

\* A copy of an order is the order.
LEMMA CopiesAreCurrent ==
    ASSUME Inv, NEW w \in DOMAIN work, NEW o \in Loaded(work[w])
    PROVE  /\ work[w].saw[OrderRow(o)] = db.order[o]
           /\ OrderRow(o) \in work[w].locked
  BY DEF Loaded, Inv, OrderInv

LEMMA WritesFacts ==
    ASSUME Inv, NEW w \in Workers, NEW kinds, Writes(w, kinds)
    PROVE  /\ w \in DOMAIN work /\ work[w].op \in Requests /\ work[w].op.kind \in kinds
           /\ work[w].at \in Nat /\ work[w].at > Len(Queries(work[w])) /\ GoesOn(work[w])
  BY DEF Writes, Inv, WorkInv

\* An effect that leaves orders, invoices, payments and the day alone.
LEMMA SessionsOnly ==
    ASSUME ShapeOf(db), NEW t, NEW next, NEW written,
           DOMAIN next = DOMAIN db, DOMAIN next.session = DOMAIN db.session,
           next.order = db.order, next.invoice = db.invoice,
           next.received = db.received, next.closing = db.closing
    PROVE  Sound(t, next, written)
  <1>1. ShapeOf(next)
    BY DEF ShapeOf
  <1>2. \A o \in Orders : next.order[o] = db.order[o]
    OBVIOUS
  <1> QED BY <1>1, <1>2 DEF Sound

LEMMA OpenTableSound ==
    ASSUME Inv, NEW w \in Workers, OpenTable(w)
    PROVE  w \in DOMAIN work /\ \E next : Commits(w, next)
  <1> DEFINE t == work[w]
             next == OpenEffect(t)
  <1>1. w \in DOMAIN work /\ CommitTxn(w, {}, next)
    BY DEF OpenTable, Writes
  <1>2. ShapeOf(db)
    BY DEF Inv
  <1>3. Sound(t, next, {})
    <2>1. /\ DOMAIN next = DOMAIN db /\ DOMAIN next.session = DOMAIN db.session
          /\ next.order = db.order /\ next.invoice = db.invoice
          /\ next.received = db.received /\ next.closing = db.closing
      BY <1>2 DEF ShapeOf, OpenEffect
    <2> QED BY <1>2, <2>1, SessionsOnly
  <1> QED BY <1>1, <1>3 DEF Commits

LEMMA CloseTableSound ==
    ASSUME Inv, NEW w \in Workers, CloseTable(w)
    PROVE  w \in DOMAIN work /\ \E next : Commits(w, next)
  <1> DEFINE t == work[w]
             next == CloseEffect(t)
             written == {SessionRow(t.op.session)}
  <1>1. w \in DOMAIN work /\ CommitTxn(w, written, next)
    BY DEF CloseTable, Writes
  <1>2. ShapeOf(db)
    BY DEF Inv
  <1>3. Sound(t, next, written)
    <2>1. /\ DOMAIN next = DOMAIN db /\ DOMAIN next.session = DOMAIN db.session
          /\ next.order = db.order /\ next.invoice = db.invoice
          /\ next.received = db.received /\ next.closing = db.closing
      BY <1>2 DEF ShapeOf, CloseEffect
    <2> QED BY <1>2, <2>1, SessionsOnly
  <1> QED BY <1>1, <1>3 DEF Commits

LEMMA GuestRequestsBillSound ==
    ASSUME Inv, NEW w \in Workers, GuestRequestsBill(w)
    PROVE  w \in DOMAIN work /\ \E next : Commits(w, next)
  <1> DEFINE t == work[w]
             next == GuestAskEffect(t)
             written == {SessionRow(t.op.session)}
  <1>1. w \in DOMAIN work /\ CommitTxn(w, written, next)
    BY DEF GuestRequestsBill, Writes
  <1>2. ShapeOf(db)
    BY DEF Inv
  <1>3. Sound(t, next, written)
    <2>1. /\ DOMAIN next = DOMAIN db /\ DOMAIN next.session = DOMAIN db.session
          /\ next.order = db.order /\ next.invoice = db.invoice
          /\ next.received = db.received /\ next.closing = db.closing
      BY <1>2 DEF ShapeOf, GuestAskEffect
    <2> QED BY <1>2, <2>1, SessionsOnly
  <1> QED BY <1>1, <1>3 DEF Commits

LEMMA PlaceOrderSound ==
    ASSUME Inv, NEW w \in Workers, PlaceOrder(w)
    PROVE  w \in DOMAIN work /\ \E next : Commits(w, next)
  <1> DEFINE t == work[w]
             next == PlaceEffect(t)
             written == {OrderRow(t.op.order)}
  <1>1. w \in DOMAIN work /\ CommitTxn(w, written, next) /\ db.order[t.op.order].status = "none"
    BY DEF PlaceOrder, Writes
  <1>2. ShapeOf(db)
    BY DEF Inv
  <1>3. Sound(t, next, written)
    <2>1. /\ DOMAIN next = DOMAIN db /\ next.session = db.session
          /\ DOMAIN next.order = Orders /\ next.invoice = db.invoice
          /\ next.received = db.received /\ next.closing = db.closing
      BY <1>2 DEF ShapeOf, PlaceEffect
    <2>2. \A o \in Orders : o # t.op.order => next.order[o] = db.order[o]
      BY <1>2 DEF ShapeOf, PlaceEffect
    <2>3. t.op.order \in Orders => DOMAIN next.order[t.op.order] = OrderFields
                                  /\ next.order[t.op.order].version = 1
      BY <1>2 DEF ShapeOf, PlaceEffect, OrderFields
    <2>4. ShapeOf(next)
      BY <1>2, <2>1, <2>2, <2>3 DEF ShapeOf
    <2> QED BY <1>1, <2>1, <2>2, <2>4 DEF Sound, Change
  <1> QED BY <1>1, <1>3 DEF Commits

LEMMA MoveOrderSound ==
    ASSUME Inv, NEW w \in Workers, MoveOrder(w)
    PROVE  w \in DOMAIN work /\ \E next : Commits(w, next)
  <1> DEFINE t == work[w]
             next == MoveEffect(t)
             moved == t.op.order
             written == {OrderRow(moved)}
  <1>1. /\ w \in DOMAIN work /\ t.op \in Requests /\ t.op.kind = "move"
        /\ t.at \in Nat /\ t.at > Len(Queries(t)) /\ GoesOn(t)
        /\ CommitTxn(w, written, next)
    BY WritesFacts DEF MoveOrder
  <1>2. ShapeOf(db)
    BY DEF Inv
  <1>3. t.at > 1 /\ moved \in Orders
    BY <1>1, RequestsAreKnown DEF Queries, MoveQueries
  <1>4. t.saw[OrderRow(moved)] = db.order[moved]
    BY <1>1, <1>3 DEF Inv, MoveInv, OrderInv
  <1>5. t.op.to \in MovesFrom(db.order[moved].status)
    BY <1>1, <1>3, <1>4 DEF GoesOn, MoveGoesOn
  <1>6. /\ DOMAIN next = DOMAIN db /\ DOMAIN next.session = Sessions
        /\ next.invoice = db.invoice
        /\ next.received = db.received /\ next.closing = db.closing
        /\ DOMAIN next.order = Orders
        /\ \A o \in Orders : o # moved => next.order[o] = db.order[o]
    BY <1>2 DEF ShapeOf, MoveEffect
  <1>7. /\ DOMAIN next.order[moved] = OrderFields
        /\ next.order[moved].status = t.op.to
        /\ next.order[moved].version = db.order[moved].version + 1
    BY <1>2, <1>3, <1>4 DEF ShapeOf, MoveEffect, OrderFields
  <1>8. ShapeOf(next)
    BY <1>2, <1>3, <1>6, <1>7 DEF ShapeOf
  <1>9. Change(db.order[moved], next.order[moved])
    BY <1>2, <1>3, <1>5, <1>7 DEF Change, ShapeOf
  <1>10. Sound(t, next, written)
    BY <1>6, <1>8, <1>9 DEF Sound
  <1> QED BY <1>1, <1>10 DEF Commits

LEMMA RequestBillSound ==
    ASSUME Inv, NEW w \in Workers, RequestBill(w)
    PROVE  w \in DOMAIN work /\ \E next : Commits(w, next)
  <1> DEFINE t == work[w]
             next == AskEffect(t)
             written == {SessionRow(t.op.session)} \cup {OrderRow(o) : o \in Asked(t)}
  <1>1. /\ w \in DOMAIN work /\ t.op.kind = "ask"
        /\ t.at \in Nat /\ t.at > Len(Queries(t)) /\ GoesOn(t)
        /\ CommitTxn(w, written, next)
    BY WritesFacts DEF RequestBill
  <1>2. ShapeOf(db)
    BY DEF Inv
  <1>3. t.at > 2
    BY <1>1 DEF Queries, AskQueries
  <1>4. \A o \in Asked(t) : /\ t.saw[OrderRow(o)] = db.order[o]
                            /\ db.order[o].status = "served"
    BY <1>1, <1>3, CopiesAreCurrent DEF GoesOn, AskGoesOn, Asked
  <1>5. /\ DOMAIN next = DOMAIN db /\ DOMAIN next.session = Sessions
        /\ next.invoice = db.invoice
        /\ next.received = db.received /\ next.closing = db.closing
        /\ DOMAIN next.order = Orders
        /\ \A o \in Orders \ Asked(t) : next.order[o] = db.order[o]
    BY <1>2 DEF ShapeOf, AskEffect
  <1>6. \A o \in Orders \cap Asked(t) :
            /\ DOMAIN next.order[o] = OrderFields
            /\ next.order[o].status = "bill_requested"
            /\ next.order[o].version = db.order[o].version + 1
    <2>1. next.order = [o \in Orders |->
                          IF o \in Asked(t)
                          THEN [db.order[o] EXCEPT !.status = "bill_requested",
                                                   !.version = t.saw[OrderRow(o)].version + 1]
                          ELSE db.order[o]]
      BY <1>2 DEF ShapeOf, AskEffect
    <2> SUFFICES ASSUME NEW o \in Orders, o \in Asked(t)
                 PROVE  /\ DOMAIN next.order[o] = OrderFields
                        /\ next.order[o].status = "bill_requested"
                        /\ next.order[o].version = db.order[o].version + 1
      OBVIOUS
    <2>2. DOMAIN db.order[o] = OrderFields
      BY <1>2 DEF ShapeOf
    <2>3. next.order[o] = [db.order[o] EXCEPT !.status = "bill_requested",
                                              !.version = t.saw[OrderRow(o)].version + 1]
      BY <2>1
    <2> HIDE DEF next
    <2> QED BY <1>4, <2>2, <2>3 DEF OrderFields
  <1>7. ShapeOf(next)
    BY <1>2, <1>5, <1>6 DEF ShapeOf
  <1>8. \A o \in Orders \cap Asked(t) : Change(db.order[o], next.order[o])
    BY <1>2, <1>4, <1>6 DEF Change, ShapeOf, MovesFrom
  <1>9. Sound(t, next, written)
    BY <1>5, <1>7, <1>8 DEF Sound
  <1> QED BY <1>1, <1>9 DEF Commits

\* A bill, a checkout or a collection that writes has the day open and locked.
LEMMA DayIsHeld ==
    ASSUME Inv, NEW w \in Workers, NEW kinds, Writes(w, kinds),
           kinds \subseteq {"bill", "checkout", "collect"}
    PROVE  DayOpen(work[w]) /\ Branch \in work[w].locked
  <1> DEFINE t == work[w]
  <1>1. /\ w \in DOMAIN work /\ t.op.kind \in {"bill", "checkout", "collect"}
        /\ t.at \in Nat /\ t.at > Len(Queries(t)) /\ GoesOn(t)
    BY WritesFacts
  <1>2. CASE t.op.kind = "bill"
    <2>1. t.at > 4
      BY <1>1, <1>2 DEF Queries, BillQueries
    <2> QED BY <1>1, <1>2, <2>1 DEF GoesOn, BillGoesOn, Inv, BranchInv, DayLockedAfter
  <1>3. CASE t.op.kind = "checkout"
    <2>1. t.at > 2
      BY <1>1, <1>3 DEF Queries, CheckoutQueries
    <2> QED BY <1>1, <1>3, <2>1 DEF GoesOn, CheckoutGoesOn, Inv, BranchInv, DayLockedAfter
  <1>4. CASE t.op.kind = "collect"
    <2>1. t.at > 4
      BY <1>1, <1>4 DEF Queries, CollectQueries
    <2> QED BY <1>1, <1>4, <2>1 DEF GoesOn, CollectGoesOn, Inv, BranchInv, DayLockedAfter
  <1> QED BY <1>1, <1>2, <1>3, <1>4

LEMMA BillSound ==
    ASSUME Inv, NEW w \in Workers, Bill(w)
    PROVE  w \in DOMAIN work /\ \E next : Commits(w, next)
  <1> DEFINE t == work[w]
             next == BillEffect(t)
             written == {t.op.source} \cup {OrderRow(o) : o \in Eligible(t)}
  <1>1. /\ w \in DOMAIN work /\ t.op \in Requests /\ t.op.kind = "bill"
        /\ CommitTxn(w, written, next)
    BY WritesFacts DEF Bill
  <1>2. ShapeOf(db)
    BY DEF Inv
  <1>3. t.op.source \in Sources
    BY <1>1, RequestsAreKnown
  <1>4. DayOpen(t) /\ Branch \in t.locked
    BY DayIsHeld DEF Bill
  <1>5. \A o \in Eligible(t) :
            /\ t.saw[OrderRow(o)] = db.order[o]
            /\ db.order[o].status \in {"accepted", "served", "bill_requested"}
    BY <1>1, CopiesAreCurrent DEF Eligible
  <1>6. /\ DOMAIN next = DOMAIN db /\ DOMAIN next.session = Sessions
        /\ next.closing = db.closing
        /\ DOMAIN next.order = Orders
        /\ \A o \in Orders \ Eligible(t) : next.order[o] = db.order[o]
    BY <1>2 DEF ShapeOf, BillEffect
  <1>7. \A o \in Orders \cap Eligible(t) :
            /\ DOMAIN next.order[o] = OrderFields
            /\ next.order[o].status \in {"billed", "closed"}
            /\ next.order[o].version \in {db.order[o].version + 1, db.order[o].version + 2}
    <2> DEFINE due   == Amount(Eligible(t)) - t.op.pay
               final == IF due = 0 THEN "closed" ELSE "billed"
               steps == IF due = 0 THEN 2 ELSE 1
    <2>1. next.order = [o \in Orders |->
                          IF o \in Eligible(t)
                          THEN [db.order[o] EXCEPT !.status = final, !.invoice = NextNumber,
                                  !.version = t.saw[OrderRow(o)].version + steps]
                          ELSE db.order[o]]
      BY <1>2 DEF ShapeOf, BillEffect
    <2> SUFFICES ASSUME NEW o \in Orders, o \in Eligible(t)
                 PROVE  /\ DOMAIN next.order[o] = OrderFields
                        /\ next.order[o].status \in {"billed", "closed"}
                        /\ next.order[o].version
                               \in {db.order[o].version + 1, db.order[o].version + 2}
      OBVIOUS
    <2>2. DOMAIN db.order[o] = OrderFields
      BY <1>2 DEF ShapeOf
    <2>3. next.order[o] = [db.order[o] EXCEPT !.status = final, !.invoice = NextNumber,
                             !.version = t.saw[OrderRow(o)].version + steps]
      BY <2>1
    <2> HIDE DEF next, due
    <2> QED BY <1>5, <2>2, <2>3 DEF OrderFields
  <1>8. /\ DOMAIN next.invoice = Invoices
        /\ \A i \in Invoices : /\ DOMAIN next.invoice[i] = InvoiceFields
                               /\ next.invoice[i].source \in Sources \cup {<<>>}
    BY <1>2, <1>3 DEF ShapeOf, BillEffect, InvoiceFields
  <1>9. ShapeOf(next)
    BY <1>2, <1>6, <1>7, <1>8 DEF ShapeOf
  <1>10. \A o \in Orders \cap Eligible(t) : Change(db.order[o], next.order[o])
    BY <1>2, <1>5, <1>7 DEF Change, ShapeOf
  <1>11. Sound(t, next, written)
    BY <1>4, <1>6, <1>9, <1>10 DEF Sound
  <1> QED BY <1>1, <1>11 DEF Commits

LEMMA CheckoutSound ==
    ASSUME Inv, NEW w \in Workers, Checkout(w)
    PROVE  w \in DOMAIN work /\ \E next : Commits(w, next)
  <1> DEFINE t == work[w]
             next == CheckoutEffect(t)
             sold == t.op.order
             written == {OrderRow(sold)}
  <1>1. /\ w \in DOMAIN work /\ t.op \in Requests /\ t.op.kind = "checkout"
        /\ CommitTxn(w, written, next) /\ db.order[sold].status = "none"
    BY WritesFacts DEF Checkout
  <1>2. ShapeOf(db)
    BY DEF Inv
  <1>3. sold \in Orders
    BY <1>1, RequestsAreKnown
  <1>4. DayOpen(t) /\ Branch \in t.locked
    BY DayIsHeld DEF Checkout
  <1>5. /\ DOMAIN next = DOMAIN db /\ next.session = db.session
        /\ next.closing = db.closing
        /\ DOMAIN next.order = Orders
        /\ \A o \in Orders : o # sold => next.order[o] = db.order[o]
    BY <1>2 DEF ShapeOf, CheckoutEffect
  <1>6. DOMAIN next.order[sold] = OrderFields /\ next.order[sold].version = 4
    BY <1>2, <1>3 DEF ShapeOf, CheckoutEffect, OrderFields
  <1>7. OrderRow(sold) \in Sources
    BY <1>3 DEF Sources
  <1>8. /\ DOMAIN next.invoice = Invoices
        /\ \A i \in Invoices : /\ DOMAIN next.invoice[i] = InvoiceFields
                               /\ next.invoice[i].source \in Sources \cup {<<>>}
    BY <1>2, <1>7 DEF ShapeOf, CheckoutEffect, InvoiceFields
  <1>9. ShapeOf(next)
    BY <1>2, <1>3, <1>5, <1>6, <1>8 DEF ShapeOf
  <1>10. Sound(t, next, written)
    BY <1>1, <1>4, <1>5, <1>9 DEF Sound, Change
  <1> QED BY <1>1, <1>10 DEF Commits

LEMMA CollectSound ==
    ASSUME Inv, NEW w \in Workers, Collect(w)
    PROVE  w \in DOMAIN work /\ \E next : Commits(w, next)
  <1> DEFINE t == work[w]
             next == CollectEffect(t)
             written == {InvoiceRow(t.op.invoice)}
  <1>1. w \in DOMAIN work /\ CommitTxn(w, written, next)
    BY WritesFacts DEF Collect
  <1>2. ShapeOf(db)
    BY DEF Inv
  <1>3. DayOpen(t) /\ Branch \in t.locked
    BY DayIsHeld DEF Collect
  <1>4. \A o \in Settles(t) : /\ t.saw[OrderRow(o)] = db.order[o]
                              /\ OrderRow(o) \in t.locked
                              /\ db.order[o].status = "billed"
    BY <1>1, CopiesAreCurrent DEF Settles
  <1>5. /\ DOMAIN next = DOMAIN db /\ DOMAIN next.session = Sessions
        /\ next.closing = db.closing
        /\ DOMAIN next.order = Orders
        /\ \A o \in Orders \ Settles(t) : next.order[o] = db.order[o]
    BY <1>2 DEF ShapeOf, CollectEffect
  <1>6. \A o \in Orders \cap Settles(t) :
            /\ DOMAIN next.order[o] = OrderFields
            /\ next.order[o].status = "closed"
            /\ next.order[o].version = db.order[o].version + 1
    <2>1. next.order = [o \in Orders |->
                          IF o \in Settles(t)
                          THEN [db.order[o] EXCEPT !.status = "closed",
                                                   !.version = t.saw[OrderRow(o)].version + 1]
                          ELSE db.order[o]]
      BY <1>2 DEF ShapeOf, CollectEffect
    <2> SUFFICES ASSUME NEW o \in Orders, o \in Settles(t)
                 PROVE  /\ DOMAIN next.order[o] = OrderFields
                        /\ next.order[o].status = "closed"
                        /\ next.order[o].version = db.order[o].version + 1
      OBVIOUS
    <2>2. DOMAIN db.order[o] = OrderFields
      BY <1>2 DEF ShapeOf
    <2>3. next.order[o] = [db.order[o] EXCEPT !.status = "closed",
                                              !.version = t.saw[OrderRow(o)].version + 1]
      BY <2>1
    <2> HIDE DEF next
    <2> QED BY <1>4, <2>2, <2>3 DEF OrderFields
  <1>7. /\ DOMAIN next.invoice = Invoices
        /\ \A i \in Invoices : /\ DOMAIN next.invoice[i] = InvoiceFields
                               /\ next.invoice[i].source = db.invoice[i].source
    BY <1>2 DEF ShapeOf, CollectEffect, InvoiceFields
  <1>8. ShapeOf(next)
    BY <1>2, <1>5, <1>6, <1>7 DEF ShapeOf
  <1>9. \A o \in Orders \cap Settles(t) : Change(db.order[o], next.order[o])
    BY <1>2, <1>4, <1>6 DEF Change, ShapeOf
  <1>10. Sound(t, next, written)
    BY <1>3, <1>4, <1>5, <1>8, <1>9 DEF Sound
  <1> QED BY <1>1, <1>10 DEF Commits

LEMMA VoidSound ==
    ASSUME Inv, NEW w \in Workers, Void(w)
    PROVE  w \in DOMAIN work /\ \E next : Commits(w, next)
  <1> DEFINE t == work[w]
             next == VoidEffect(t)
             written == {InvoiceRow(t.op.invoice)}
  <1>1. w \in DOMAIN work /\ CommitTxn(w, written, next)
    BY WritesFacts DEF Void
  <1>2. ShapeOf(db)
    BY DEF Inv
  <1>3. /\ DOMAIN next = DOMAIN db /\ next.session = db.session /\ next.order = db.order
        /\ next.closing = db.closing /\ next.received = db.received
    BY <1>2 DEF ShapeOf, VoidEffect
  <1>4. /\ DOMAIN next.invoice = Invoices
        /\ \A i \in Invoices : /\ DOMAIN next.invoice[i] = InvoiceFields
                               /\ next.invoice[i].source = db.invoice[i].source
    BY <1>2 DEF ShapeOf, VoidEffect, InvoiceFields
  <1>5. ShapeOf(next)
    BY <1>2, <1>3, <1>4 DEF ShapeOf
  <1>6. Sound(t, next, written)
    BY <1>3, <1>5 DEF Sound
  <1> QED BY <1>1, <1>6 DEF Commits

LEMMA TurnDaySound ==
    ASSUME Inv, NEW w \in Workers, TurnDay(w)
    PROVE  w \in DOMAIN work /\ \E next : Commits(w, next)
  <1> DEFINE t == work[w]
             next == DayEffect(t)
             written == {Closing}
  <1>1. /\ w \in DOMAIN work /\ CommitTxn(w, written, next) /\ t.op.kind \in DayKinds
        /\ t.at \in Nat /\ t.at > Len(Queries(t))
    BY WritesFacts DEF TurnDay, DayKinds
  <1>2. ShapeOf(db)
    BY DEF Inv
  <1>3. t.at > DayLockedAfter(t.op.kind)
    BY <1>1 DEF Queries, DayQueries, DayKinds, DayLockedAfter
  <1>4. Branch \in t.locked
    BY <1>1, <1>3 DEF Inv, BranchInv
  <1>5. /\ DOMAIN next = DOMAIN db /\ next.session = db.session /\ next.order = db.order
        /\ next.invoice = db.invoice /\ next.received = db.received
        /\ DOMAIN next.closing = DOMAIN db.closing
    BY <1>2 DEF ShapeOf, DayEffect
  <1>6. ShapeOf(next)
    BY <1>2, <1>5 DEF ShapeOf
  <1>7. Sound(t, next, written)
    BY <1>4, <1>5, <1>6 DEF Sound
  <1> QED BY <1>1, <1>7 DEF Commits

-----------------------------------------------------------------------------
(* The theorems about the locks.                                            *)

LEMMA InitHolds == Init => Inv
  <1> SUFFICES ASSUME Init PROVE Inv
    OBVIOUS
  <1>1. DOMAIN work = {}
    BY DEF Init
  <1>2. ShapeOf(db)
    BY DEF Init, ShapeOf, OrderFields, InvoiceFields, NoInvoice
  <1> QED BY <1>1, <1>2 DEF Inv, WorkInv, LocksAreExclusive, ClosingInv, BranchInv, OrderInv,
                            MoveInv, SourceInv, CollectInv

\* Every step of a request begins it, reads, rolls it back or commits a sound
\* effect.
LEMMA Steps ==
    ASSUME Inv, Next
    PROVE  \/ /\ db' = db
              /\ \E w \in Workers : Begin(w) \/ Query(w) \/ RollBack(w)
           \/ \E w \in DOMAIN work : \E next : Commits(w, next)
  <1>1. PICK w \in Workers :
           \/ Begin(w) \/ Query(w) \/ RollBack(w)
           \/ OpenTable(w) \/ CloseTable(w) \/ PlaceOrder(w) \/ MoveOrder(w)
           \/ RequestBill(w) \/ GuestRequestsBill(w) \/ Bill(w) \/ Checkout(w)
           \/ Collect(w) \/ Void(w) \/ TurnDay(w)
    BY DEF Next
  <1>2. CASE Begin(w) \/ Query(w) \/ RollBack(w)
    BY <1>2 DEF Begin, Query, RollBack
  <1>3. CASE OpenTable(w)          BY <1>3, OpenTableSound
  <1>4. CASE CloseTable(w)         BY <1>4, CloseTableSound
  <1>5. CASE PlaceOrder(w)         BY <1>5, PlaceOrderSound
  <1>6. CASE MoveOrder(w)          BY <1>6, MoveOrderSound
  <1>7. CASE RequestBill(w)        BY <1>7, RequestBillSound
  <1>8. CASE GuestRequestsBill(w)  BY <1>8, GuestRequestsBillSound
  <1>9. CASE Bill(w)               BY <1>9, BillSound
  <1>10. CASE Checkout(w)          BY <1>10, CheckoutSound
  <1>11. CASE Collect(w)           BY <1>11, CollectSound
  <1>12. CASE Void(w)              BY <1>12, VoidSound
  <1>13. CASE TurnDay(w)           BY <1>13, TurnDaySound
  <1> QED BY <1>1, <1>2, <1>3, <1>4, <1>5, <1>6, <1>7, <1>8, <1>9, <1>10, <1>11, <1>12, <1>13

LEMMA NextKeeps == Inv /\ [Next]_vars => Inv'
  <1> SUFFICES ASSUME Inv, [Next]_vars PROVE Inv'
    OBVIOUS
  <1>1. CASE Next
    BY <1>1, Steps, BeginKeeps, QueryKeeps, RollBackKeeps, CommitKeeps
  <1>2. CASE UNCHANGED vars
    BY <1>2 DEF vars, txnVars, Inv, ShapeOf, WorkInv, LocksAreExclusive, ClosingInv, BranchInv,
                OrderInv, MoveInv, SourceInv, CollectInv
  <1> QED BY <1>1, <1>2

\* A lock of the hub is worth what the handlers take it for: its row is held
\* by one transaction, and the copy of an order or of the day's closing that
\* was read under it is the committed row until that transaction ends.
THEOREM LocksHold == Spec => []Inv
  <1>1. Init => Inv
    BY InitHolds
  <1>2. Inv /\ [Next]_vars => Inv'
    BY NextKeeps
  <1> QED BY <1>1, <1>2, PTL DEF Spec

\* Every change of an order is based on what is committed, raises its version
\* and is one of the transitions of the code.
THEOREM OrdersAreSafe == Spec => OrdersAreNotOverwritten
  <1>1. Inv /\ [Next]_vars =>
          [ \A o \in Orders : db'.order[o] # db.order[o] => Change(db.order[o], db'.order[o]) ]_vars
    <2> SUFFICES ASSUME Inv, Next, NEW o \in Orders, db'.order[o] # db.order[o]
                 PROVE  Change(db.order[o], db'.order[o])
      OBVIOUS
    <2>1. PICK w \in DOMAIN work : \E next : Commits(w, next)
      BY Steps
    <2> QED BY <2>1 DEF Commits, CommitTxn, Sound
  <1>2. Inv /\ [Next]_vars =>
          [ \A o \in Orders : db'.order[o] # db.order[o] =>
              \/ db.order[o].status = "none"
              \/ /\ db'.order[o].version > db.order[o].version
                 /\ \/ db'.order[o].status \in MovesFrom(db.order[o].status)
                    \/ /\ db.order[o].status \in {"accepted", "served", "bill_requested"}
                       /\ db'.order[o].status \in {"billed", "closed"}
                    \/ db.order[o].status = "billed" /\ db'.order[o].status = "closed" ]_vars
    BY <1>1 DEF Change
  <1> QED BY <1>2, LocksHold, PTL DEF Spec, OrdersAreNotOverwritten

\* Once a day is submitted no bill, checkout or collection adds a payment
\* before it is reopened, even one that found it open.
THEOREM DayIsSealed == Spec => NothingIsCollectedAfterTheCount
  <1>1. Inv /\ [Next]_vars =>
          [ {db.closing.status, db'.closing.status} \subseteq {"submitted", "closed"}
              => db'.received = db.received ]_vars
    <2> SUFFICES ASSUME Inv, Next, db.closing.status \in {"submitted", "closed"}
                 PROVE  db'.received = db.received
      OBVIOUS
    <2>1. CASE db' = db
      BY <2>1
    <2>2. ASSUME NEW w \in DOMAIN work, NEW next, Commits(w, next)
          PROVE  db'.received = db.received
      <3>1. PICK written : CommitTxn(w, written, next) /\ Sound(work[w], next, written)
        BY <2>2 DEF Commits
      <3>2. CASE DayOpen(work[w]) /\ Branch \in work[w].locked
        BY <3>2 DEF Inv, ClosingInv, DayOpen
      <3> QED BY <3>1, <3>2 DEF CommitTxn, Sound
    <2> QED BY <2>1, <2>2, Steps
  <1> QED BY <1>1, LocksHold, PTL DEF Spec, NothingIsCollectedAfterTheCount
-----------------------------------------------------------------------------
(* The bills.                                                               *)

\* An invoice, the sum of its payments and what its customer owes for it.
InvoiceRight(invoice, received, owed) ==
    /\ invoice.status \in {"none", "unpaid", "paid", "cancelled"}
    /\ invoice.total \in Int /\ invoice.paid \in Int /\ invoice.due \in Int
    /\ invoice.paid = received
    /\ invoice.status = "none" => invoice = NoInvoice /\ owed = 0
    /\ invoice.status = "cancelled" => invoice.due = 0
    /\ invoice.status \in {"unpaid", "paid"} =>
          /\ invoice.due = invoice.total - invoice.paid
          /\ invoice.status = Settled(invoice.total, invoice.paid)
          /\ owed = IF invoice.customer THEN invoice.due ELSE 0

InvoicesRight(d) ==
    /\ DOMAIN d.received = Invoices /\ DOMAIN d.owed = Invoices
    /\ \A i \in Invoices : InvoiceRight(d.invoice[i], d.received[i], d.owed[i])

\* An order points at the bill that charges it, which was made for the order or
\* for its session.
OrderRight(d, o) ==
    LET order == d.order[o]
        i == order.invoice
    IN  /\ i \in Invoices \cup {None}
        /\ i # None <=> order.status \in {"billed", "closed"}
        /\ i # None => /\ d.invoice[i].status # "none"
                       /\ d.invoice[i].source \in {OrderRow(o), SessionRow(order.session)}
                       /\ d.invoice[i].status = "paid" => order.status = "closed"

OnBill(d, i) == {o \in Orders : d.order[o].invoice = i}

BooksRight(d) ==
    /\ InvoicesRight(d)
    /\ \A o \in Orders : OrderRight(d, o)
    /\ \A i \in Invoices : d.invoice[i].total = Amount(OnBill(d, i))

\* A collection or a void is of an invoice that exists.
TargetInv ==
    \A w \in DOMAIN work :
        work[w].op.kind \in {"collect", "void"} =>
            db.invoice[work[w].op.invoice].status # "none"

\* The invoice that a collection has read it has locked, and it is as it was read.
HeldInv ==
    \A w \in DOMAIN work : \A i \in Invoices :
        work[w].op.kind = "collect" /\ InvoiceRow(i) \in DOMAIN work[w].saw =>
            /\ i = work[w].op.invoice /\ InvoiceRow(i) \in work[w].locked
            /\ work[w].saw[InvoiceRow(i)] = db.invoice[i]

\* The orders that a bill has read are those of its source,
BillReadInv ==
    \A w \in DOMAIN work : \A o \in Loaded(work[w]) :
        work[w].op.kind = "bill" =>
            \/ OrderRow(o) = work[w].op.source
            \/ db.order[o].status # "none" /\ SessionRow(db.order[o].session) = work[w].op.source

\* and in the end a collection has read all orders on its bill.
CollectReadInv ==
    \A w \in DOMAIN work : \A o \in Orders :
        work[w].op.kind = "collect" /\ work[w].at > 4
        /\ db.order[o].invoice = work[w].op.invoice
            => OrderRow(o) \in DOMAIN work[w].saw

ReadInv == TargetInv /\ HeldInv /\ BillReadInv /\ CollectReadInv

BillsInv == Inv /\ BooksRight(db) /\ ReadInv

LEMMA AmountIs ==
    ASSUME NEW S \in SUBSET Orders
    PROVE  Amount(S) = SumOver(S, Price) /\ Amount(S) \in Int
  <1> DEFINE g == CHOOSE g : g = [s \in SUBSET S |->
                    IF s = {} THEN 0 ELSE Price[One(s)] + g[s \ {One(s)}]]
  <1>1. Amount(S) = g[S]
    BY Zenon DEF Amount, MapThenSumSet, MapThenFoldSet, One
  <1>2. IsFiniteSet(S)
    BY HubCafeAssumption, NoneLeft
  <1>3. PICK k : Adds(S, Price, k)
    BY <1>2, AddsExist
  <1>4. k = [s \in SUBSET S |-> IF s = {} THEN 0 ELSE Price[One(s)] + k[s \ {One(s)}]]
    BY <1>3 DEF Adds
  <1>5. g = [s \in SUBSET S |-> IF s = {} THEN 0 ELSE Price[One(s)] + g[s \ {One(s)}]]
    BY <1>4
  <1> HIDE DEF g
  <1>6. Adds(S, Price, g)
    BY <1>5 DEF Adds
  <1>7. SumOver(S, Price) = g[S]
    BY <1>2, <1>6, SumIs
  <1>8. \A o \in S : Price[o] \in Int
    BY HubCafeAssumption
  <1>9. SumOver(S, Price) \in Int
    BY <1>2, <1>8, SumInt
  <1> QED BY <1>1, <1>7, <1>9

LEMMA AmountNone == Amount({}) = 0
  BY AmountIs, SumEmpty

LEMMA AmountOne == ASSUME NEW o \in Orders PROVE Amount({o}) = Price[o]
  <1>1. IsFiniteSet({o}) /\ {o} \in SUBSET Orders
    BY HubCafeAssumption, NoneLeft
  <1>2. \A x \in {o} : Price[x] \in Int
    BY HubCafeAssumption
  <1>3. SumOver({o}, Price) = Price[o] + SumOver({o} \ {o}, Price)
    BY <1>1, <1>2, SumTake
  <1>4. {o} \ {o} = {}
    OBVIOUS
  <1>5. SumOver({}, Price) = 0
    BY SumEmpty
  <1>6. SumOver({o}, Price) = Price[o] + 0
    BY <1>3, <1>4, <1>5
  <1>7. Price[o] + 0 = Price[o]
    BY <1>2
  <1> QED BY <1>1, <1>6, <1>7, AmountIs

\* The next number is one that no invoice has.
LEMMA NextIsFree ==
    ASSUME NumberLeft
    PROVE  NextNumber \in Invoices /\ db.invoice[NextNumber] = NoInvoice
  <1> DEFINE T == {i \in Invoices : db.invoice[i] = NoInvoice}
  <1>1. T # {} /\ T \subseteq Nat
    BY DEF NumberLeft, Invoices
  <1>2. PICK i \in T : \A j \in T : <<j, i>> \notin OpToRel(<, Nat)
    BY <1>1, NatLessThanWellFounded, WFMin
  <1>3. \A j \in Invoices : j < i => db.invoice[j] # NoInvoice
    BY <1>1, <1>2 DEF OpToRel
  <1>4. \E j \in Invoices : /\ db.invoice[j] = NoInvoice
                            /\ \A k \in Invoices : k < j => db.invoice[k] # NoInvoice
    BY <1>2, <1>3
  <1> QED BY <1>4 DEF NextNumber

\* What a commit leaves to the requests that are still underway.
Kept(next, written) ==
    /\ \A i \in Invoices :
          /\ db.invoice[i].status # "none" => next.invoice[i].status # "none"
          /\ next.invoice[i] # db.invoice[i] =>
                InvoiceRow(i) \in written \/ db.invoice[i].status = "none"
    /\ \A o \in Orders :
          /\ db.order[o].status # "none" =>
                next.order[o].status # "none" /\ next.order[o].session = db.order[o].session
          /\ next.order[o].invoice # db.order[o].invoice =>
                \A i \in Invoices : next.order[o].invoice = i => db.invoice[i].status = "none"

LEMMA CommitKeepsReads ==
    ASSUME BillsInv, NEW w \in DOMAIN work, NEW next, NEW written,
           CommitTxn(w, written, next), Kept(next, written)
    PROVE  ReadInv'
  <1>1. /\ DOMAIN work' = DOMAIN work \ {w} /\ db' = next
        /\ \A v \in DOMAIN work' : work'[v] = work[v]
    BY DEF CommitTxn, EndTxn
  <1>2. \A v \in DOMAIN work : work[v].op \in Requests
    BY DEF BillsInv, Inv, WorkInv
  <1>3. TargetInv'
    <2>1. ASSUME NEW v \in DOMAIN work, work[v].op.kind \in {"collect", "void"}
          PROVE  next.invoice[work[v].op.invoice].status # "none"
      <3>1. work[v].op.invoice \in Invoices
        BY <1>2, <2>1, RequestsAreKnown
      <3> QED BY <2>1, <3>1 DEF BillsInv, ReadInv, TargetInv, Kept
    <2> QED BY <1>1, <2>1 DEF TargetInv
  <1>4. HeldInv'
    <2>1. ASSUME NEW v \in DOMAIN work', NEW i \in Invoices,
                 work[v].op.kind = "collect", InvoiceRow(i) \in DOMAIN work[v].saw
          PROVE  /\ i = work[v].op.invoice /\ InvoiceRow(i) \in work[v].locked
                 /\ work[v].saw[InvoiceRow(i)] = next.invoice[i]
      <3>1. v \in DOMAIN work /\ v # w
        BY <1>1
      <3>2. /\ i = work[v].op.invoice /\ InvoiceRow(i) \in work[v].locked
            /\ work[v].saw[InvoiceRow(i)] = db.invoice[i]
            /\ db.invoice[i].status # "none"
        BY <2>1, <3>1 DEF BillsInv, ReadInv, HeldInv, TargetInv
      <3>3. InvoiceRow(i) \notin written
        BY <3>1, <3>2 DEF CommitTxn, Free
      <3> QED BY <3>2, <3>3 DEF Kept
    <2> QED BY <1>1, <2>1 DEF HeldInv
  <1>5. BillReadInv'
    <2>1. ASSUME NEW v \in DOMAIN work, NEW o \in Loaded(work[v]), work[v].op.kind = "bill"
          PROVE  \/ OrderRow(o) = work[v].op.source
                 \/ /\ next.order[o].status # "none"
                    /\ SessionRow(next.order[o].session) = work[v].op.source
      <3>1. o \in Orders
        BY DEF Loaded
      <3> QED BY <2>1, <3>1 DEF BillsInv, ReadInv, BillReadInv, Kept
    <2> QED BY <1>1, <2>1 DEF BillReadInv, Loaded
  <1>6. CollectReadInv'
    <2>1. ASSUME NEW v \in DOMAIN work, NEW o \in Orders,
                 work[v].op.kind = "collect", work[v].at > 4,
                 next.order[o].invoice = work[v].op.invoice
          PROVE  OrderRow(o) \in DOMAIN work[v].saw
      <3>1. /\ work[v].op.invoice \in Invoices
            /\ db.invoice[work[v].op.invoice].status # "none"
        BY <1>2, <2>1, RequestsAreKnown DEF BillsInv, ReadInv, TargetInv
      <3>2. db.order[o].invoice = work[v].op.invoice
        BY <2>1, <3>1 DEF Kept
      <3> QED BY <2>1, <3>2 DEF BillsInv, ReadInv, CollectReadInv
    <2> QED BY <1>1, <2>1 DEF CollectReadInv
  <1> QED BY <1>3, <1>4, <1>5, <1>6 DEF ReadInv

LEMMA BooksStay == BooksRight(db) /\ db' = db => BooksRight(db)'
  <1> SUFFICES ASSUME BooksRight(db), db' = db PROVE BooksRight(db')
    OBVIOUS
  <1> QED OBVIOUS

LEMMA BeginKeepsReads ==
    ASSUME BillsInv, NEW w \in Workers, Begin(w)
    PROVE  ReadInv'
  <1>1. PICK op \in Requests : /\ w \notin DOMAIN work /\ db' = db
                               /\ OpenTxn(w, op, Shown(op))
                               /\ \A r \in Named(op) : Row(r).status # "none"
    BY DEF Begin
  <1> DEFINE t == [op |-> op, version |-> Shown(op), at |-> 1, saw |-> <<>>, locked |-> {}]
  <1>2. /\ DOMAIN work' = DOMAIN work \cup {w}
        /\ work'[w] = t
        /\ \A v \in DOMAIN work : work'[v] = work[v]
    BY <1>1 DEF OpenTxn
  <1>3. DOMAIN t.saw = {} /\ t.at = 1 /\ t.op = op
    OBVIOUS
  <1>4. op.kind \in {"collect", "void"} => db.invoice[op.invoice].status # "none"
    <2> SUFFICES ASSUME op.kind \in {"collect", "void"}
                 PROVE  db.invoice[op.invoice].status # "none"
      OBVIOUS
    <2>1. InvoiceRow(op.invoice) \in Named(op) /\ op.invoice \in Invoices
      BY RequestsAreKnown DEF Named
    <2> QED BY <1>1, <2>1, Rows
  <1> HIDE DEF t
  <1>5. TargetInv'
    BY <1>1, <1>2, <1>3, <1>4 DEF BillsInv, ReadInv, TargetInv
  <1>6. HeldInv'
    BY <1>1, <1>2, <1>3 DEF BillsInv, ReadInv, HeldInv
  <1>7. BillReadInv'
    BY <1>1, <1>2, <1>3 DEF BillsInv, ReadInv, BillReadInv, Loaded
  <1>8. CollectReadInv'
    BY <1>1, <1>2, <1>3 DEF BillsInv, ReadInv, CollectReadInv
  <1> QED BY <1>5, <1>6, <1>7, <1>8 DEF ReadInv

LEMMA RollBackKeepsReads ==
    ASSUME BillsInv, NEW w \in Workers, RollBack(w)
    PROVE  ReadInv'
  <1>1. /\ DOMAIN work' = DOMAIN work \ {w} /\ db' = db
        /\ \A v \in DOMAIN work' : work'[v] = work[v]
    BY DEF RollBack, EndTxn
  <1> QED BY <1>1 DEF BillsInv, ReadInv, TargetInv, HeldInv, BillReadInv, CollectReadInv, Loaded

\* What the queries of a bill and of a collection read.
LEMMA BillQueryReads ==
    ASSUME BillsInv, NEW w \in DOMAIN work, work[w].op.kind = "bill",
           work[w].at <= Len(Queries(work[w])),
           NEW o \in Orders, OrderRow(o) \in Queries(work[w])[work[w].at].look
    PROVE  o \in OrdersOf(work[w].op.source) \/ OrderRow(o) = work[w].op.source
  <1> DEFINE t == work[w]
  <1>1. t.at \in Nat \ {0} /\ Queries(t) = BillQueries(t)
    BY DEF BillsInv, Inv, WorkInv, Queries
  <1>2. /\ Len(BillQueries(t)) = 4
        /\ BillQueries(t)[1].look = {KeyRow(t.op.key)}
        /\ BillQueries(t)[2].look = {t.op.source}
        /\ BillQueries(t)[3].look = {Closing}
        /\ BillQueries(t)[4].look = OrderRows(t.op.source) \cup {SourceRow(t.op.source)}
    BY DEF BillQueries, Find, Take, DayQuery
  <1>3. t.at \in 1..4
    BY <1>1, <1>2
  <1>4. CASE OrderRow(o) \in OrderRows(t.op.source)
    <2>1. PICK q \in OrdersOf(t.op.source) : OrderRow(o) = OrderRow(q)
      BY <1>4 DEF OrderRows
    <2> QED BY <2>1, RowsDiffer
  <1>5. OrderRow(o) \notin {KeyRow(t.op.key), Closing, SourceRow(t.op.source)}
    BY RowsDiffer
  <1>6. OrderRow(o) \in BillQueries(t)[t.at].look
    BY <1>1
  <1>7. OrderRow(o) \in {t.op.source} \cup OrderRows(t.op.source)
    <2> HIDE DEF t
    <2> QED BY <1>2, <1>3, <1>5, <1>6
  <1> QED BY <1>4, <1>7

LEMMA CollectQueryReads ==
    ASSUME BillsInv, NEW w \in DOMAIN work, work[w].op.kind = "collect",
           work[w].at <= Len(Queries(work[w]))
    PROVE  LET t == work[w]
               q == Queries(t)[t.at]
           IN  /\ \A i \in Invoices : InvoiceRow(i) \in q.look =>
                     i = t.op.invoice /\ InvoiceRow(i) \in q.lock /\ t.at = 1
               /\ t.at < 5 /\ (t.at = 4 => q.look = OrderRows(SourceOf(t)) /\ q.refresh = FALSE)
  <1> DEFINE t == work[w]
             own == InvoiceRow(t.op.invoice)
  <1>1. t.at \in Nat \ {0} /\ Queries(t) = CollectQueries(t) /\ t.op \in Requests
    BY DEF BillsInv, Inv, WorkInv, Queries
  <1>2. /\ Len(CollectQueries(t)) = 4
        /\ CollectQueries(t)[1].look = {own} /\ CollectQueries(t)[1].lock = {own}
        /\ CollectQueries(t)[2].look = {Closing}
        /\ CollectQueries(t)[3].look = {SourceOf(t)}
        /\ CollectQueries(t)[4].look = OrderRows(SourceOf(t))
        /\ CollectQueries(t)[4].refresh = FALSE
    BY DEF CollectQueries, Take, DayQuery
  <1>3. t.at \in 1..4
    BY <1>1, <1>2
  <1>4. \A i \in Invoices : InvoiceRow(i) \notin {Closing} \cup OrderRows(SourceOf(t))
    BY RowsDiffer DEF OrderRows
  <1>5. ASSUME t.at = 3, NEW i \in Invoices PROVE InvoiceRow(i) # SourceOf(t)
    <2>1. t.op.invoice \in Invoices /\ InvoiceRow(t.op.invoice) \in DOMAIN t.saw
      BY <1>1, <1>5, RequestsAreKnown DEF BillsInv, Inv, CollectInv
    <2>2. SourceOf(t) \in Sources \cup {<<>>}
      BY <1>5, <2>1 DEF BillsInv, Inv, SourceInv, SourceOf
    <2>3. InvoiceRow(i) \notin Sources
      BY RowsDiffer DEF Sources
    <2>4. InvoiceRow(i) # <<>>
      BY DEF InvoiceRow
    <2> QED BY <2>2, <2>3, <2>4
  <1>6. \A i \in Invoices : InvoiceRow(i) = own => i = t.op.invoice
    BY RowsDiffer
  <1> QED BY <1>1, <1>2, <1>3, <1>4, <1>5, <1>6

LEMMA QueryKeepsReads ==
    ASSUME BillsInv, NEW w \in Workers, Query(w)
    PROVE  ReadInv'
  <1> DEFINE t == work[w]
             q == Queries(t)[t.at]
             found == [r \in q.look |-> Row(r)]
             saw == IF q.refresh THEN Over(found, t.saw) ELSE Over(t.saw, found)
  <1>1. /\ w \in DOMAIN work /\ t.at <= Len(Queries(t)) /\ db' = db
        /\ Load(w, q.lock, found, q.refresh)
    BY DEF Query
  <1>2. /\ DOMAIN t = {"op", "version", "at", "saw", "locked"}
        /\ t.op \in Requests /\ t.at \in Nat \ {0}
    BY <1>1 DEF BillsInv, Inv, WorkInv
  <1>3. /\ DOMAIN work' = DOMAIN work
        /\ \A v \in DOMAIN work : v # w => work'[v] = work[v]
        /\ work'[w].op = t.op /\ work'[w].at = t.at + 1
        /\ work'[w].locked = t.locked \cup q.lock
        /\ work'[w].saw = saw
    BY <1>1, <1>2 DEF Load
  <1>4. /\ DOMAIN saw = DOMAIN t.saw \cup q.look
        /\ \A r \in DOMAIN saw : \/ r \in q.look /\ saw[r] = Row(r)
                                 \/ r \in DOMAIN t.saw /\ saw[r] = t.saw[r]
    BY DEF Over
  <1> HIDE DEF saw, found, q
  <1>5. TargetInv'
    BY <1>1, <1>3 DEF BillsInv, ReadInv, TargetInv
  <1>6. HeldInv'
    <2>1. ASSUME NEW i \in Invoices, t.op.kind = "collect", InvoiceRow(i) \in DOMAIN saw
          PROVE  /\ i = t.op.invoice /\ InvoiceRow(i) \in t.locked \cup q.lock
                 /\ saw[InvoiceRow(i)] = db.invoice[i]
      <3>1. CASE InvoiceRow(i) \in q.look /\ saw[InvoiceRow(i)] = Row(InvoiceRow(i))
        BY <1>1, <2>1, <3>1, CollectQueryReads, Rows DEF q
      <3>2. CASE InvoiceRow(i) \in DOMAIN t.saw /\ saw[InvoiceRow(i)] = t.saw[InvoiceRow(i)]
        BY <1>1, <2>1, <3>2 DEF BillsInv, ReadInv, HeldInv
      <3> QED BY <1>4, <2>1, <3>1, <3>2
    <2> QED BY <1>1, <1>3, <2>1 DEF BillsInv, ReadInv, HeldInv
  <1>7. BillReadInv'
    <2>1. ASSUME NEW o \in Orders, OrderRow(o) \in DOMAIN saw, t.op.kind = "bill"
          PROVE  \/ OrderRow(o) = t.op.source
                 \/ db.order[o].status # "none" /\ SessionRow(db.order[o].session) = t.op.source
      <3>1. CASE OrderRow(o) \in DOMAIN t.saw
        BY <1>1, <2>1, <3>1 DEF BillsInv, ReadInv, BillReadInv, Loaded
      <3>2. CASE OrderRow(o) \in q.look
        <4>1. o \in OrdersOf(t.op.source) \/ OrderRow(o) = t.op.source
          BY <1>1, <2>1, <3>2, BillQueryReads DEF q
        <4> QED BY <4>1 DEF OrdersOf
      <3> QED BY <1>4, <2>1, <3>1, <3>2
    <2> QED BY <1>1, <1>3, <2>1 DEF BillsInv, ReadInv, BillReadInv, Loaded
  <1>8. CollectReadInv'
    <2>1. ASSUME NEW o \in Orders, t.op.kind = "collect", t.at + 1 > 4,
                 db.order[o].invoice = t.op.invoice
          PROVE  OrderRow(o) \in DOMAIN saw
      <3>0. t.at < 5 /\ (t.at = 4 => q.look = OrderRows(SourceOf(t)))
        BY <1>1, <2>1, CollectQueryReads DEF q
      <3>1. t.at = 4 /\ q.look = OrderRows(SourceOf(t))
        BY <1>2, <2>1, <3>0
      <3>2. t.op.invoice \in Invoices /\ InvoiceRow(t.op.invoice) \in DOMAIN t.saw
        BY <1>1, <1>2, <2>1, <3>1, RequestsAreKnown DEF BillsInv, Inv, CollectInv
      <3>3. t.saw[InvoiceRow(t.op.invoice)] = db.invoice[t.op.invoice]
        BY <1>1, <2>1, <3>2 DEF BillsInv, ReadInv, HeldInv
      <3>4. SourceOf(t) = db.invoice[t.op.invoice].source
        BY <3>1, <3>3 DEF SourceOf
      <3>5. /\ db.order[o].status \in {"billed", "closed"}
            /\ SourceOf(t) \in {OrderRow(o), SessionRow(db.order[o].session)}
        <4>1. OrderRight(db, o)
          BY DEF BillsInv, BooksRight
        <4>2. db.order[o].invoice # None
          BY <2>1, <3>2 DEF Invoices, None
        <4> QED BY <2>1, <3>4, <4>1, <4>2 DEF OrderRight
      <3>6. o \in OrdersOf(SourceOf(t))
        BY <3>5 DEF OrdersOf, OrderRow, SessionRow
      <3> QED BY <1>4, <3>1, <3>6 DEF OrderRows
    <2> QED BY <1>1, <1>2, <1>3, <2>1 DEF BillsInv, ReadInv, CollectReadInv
  <1> QED BY <1>5, <1>6, <1>7, <1>8 DEF ReadInv

\* Orders that are not on a bill may move; invoices stay.
Unbilled(old, new) ==
    /\ new.invoice = old.invoice
    /\ {old.status, new.status} \cap {"billed", "closed"} = {}
    /\ new.status # "none"
    /\ old.status # "none" => new.session = old.session

LEMMA UnbilledKeep ==
    ASSUME BooksRight(db), NEW next, NEW written,
           next.invoice = db.invoice, next.received = db.received, next.owed = db.owed,
           \A o \in Orders : next.order[o] = db.order[o] \/ Unbilled(db.order[o], next.order[o])
    PROVE  BooksRight(next) /\ Kept(next, written)
  <1>1. InvoicesRight(next)
    BY DEF BooksRight, InvoicesRight
  <1>2. \A o \in Orders : next.order[o].invoice = db.order[o].invoice
    BY DEF Unbilled
  <1>3. ASSUME NEW o \in Orders PROVE OrderRight(next, o)
    <2>1. OrderRight(db, o)
      BY DEF BooksRight
    <2>2. CASE next.order[o] = db.order[o]
      BY <2>1, <2>2 DEF OrderRight
    <2>3. CASE Unbilled(db.order[o], next.order[o])
      BY <2>1, <2>3 DEF OrderRight, Unbilled
    <2> QED BY <2>2, <2>3
  <1>4. ASSUME NEW i \in Invoices PROVE next.invoice[i].total = Amount(OnBill(next, i))
    <2>1. OnBill(next, i) = OnBill(db, i)
      BY <1>2 DEF OnBill
    <2> QED BY <2>1 DEF BooksRight
  <1>5. Kept(next, written)
    BY <1>2 DEF Kept, Unbilled
  <1> QED BY <1>1, <1>3, <1>4, <1>5 DEF BooksRight

\* A new invoice n for the orders of E.
LEMMA NewBillKeeps ==
    ASSUME BooksRight(db), NEW next, NEW written,
           NEW n \in Invoices, db.invoice[n] = NoInvoice, NEW E \in SUBSET Orders,
           DOMAIN next.received = Invoices, DOMAIN next.owed = Invoices,
           \A i \in Invoices \ {n} : /\ next.invoice[i] = db.invoice[i]
                                     /\ next.received[i] = db.received[i]
                                     /\ next.owed[i] = db.owed[i],
           InvoiceRight(next.invoice[n], next.received[n], next.owed[n]),
           next.invoice[n].status # "none",
           next.invoice[n].total = Amount(E),
           \A o \in Orders \ E : next.order[o] = db.order[o],
           \A o \in E :
              /\ db.order[o].invoice = None /\ next.order[o].invoice = n
              /\ next.order[o].status \in {"billed", "closed"}
              /\ next.invoice[n].status = "paid" => next.order[o].status = "closed"
              /\ next.invoice[n].source \in {OrderRow(o), SessionRow(next.order[o].session)}
              /\ db.order[o].status # "none" => next.order[o].session = db.order[o].session
    PROVE  BooksRight(next) /\ Kept(next, written)
  <1>1. InvoicesRight(next)
    BY DEF BooksRight, InvoicesRight
  <1>2. db.invoice[n].status = "none" /\ n # None /\ db.invoice[n].total = 0
    BY DEF NoInvoice, Invoices, None
  <1>3. \A o \in Orders : db.order[o].invoice # n
    <2> SUFFICES ASSUME NEW o \in Orders, db.order[o].invoice = n PROVE FALSE
      OBVIOUS
    <2>1. OrderRight(db, o)
      BY DEF BooksRight
    <2> QED BY <1>2, <2>1 DEF OrderRight
  <1>4. ASSUME NEW o \in Orders PROVE OrderRight(next, o)
    <2>1. CASE o \in E
      BY <1>2, <2>1 DEF OrderRight
    <2>2. CASE o \notin E
      <3>1. next.order[o] = db.order[o] /\ db.order[o].invoice # n
        BY <1>3, <2>2
      <3>2. OrderRight(db, o)
        BY DEF BooksRight
      <3>3. db.order[o].invoice # None =>
               next.invoice[db.order[o].invoice] = db.invoice[db.order[o].invoice]
        BY <3>1, <3>2 DEF OrderRight
      <3> QED BY <3>1, <3>2, <3>3 DEF OrderRight
    <2> QED BY <2>1, <2>2
  <1>5. ASSUME NEW i \in Invoices PROVE next.invoice[i].total = Amount(OnBill(next, i))
    <2>1. CASE i = n
      <3>1. OnBill(next, n) = E
        BY <1>3 DEF OnBill
      <3> QED BY <2>1, <3>1
    <2>2. CASE i # n
      <3>1. OnBill(next, i) = OnBill(db, i)
        <4>1. \A o \in E : db.order[o].invoice # i /\ next.order[o].invoice # i
          BY <2>2 DEF Invoices, None
        <4> QED BY <4>1 DEF OnBill
      <3> QED BY <2>2, <3>1 DEF BooksRight
    <2> QED BY <2>1, <2>2
  <1>6. Kept(next, written)
    BY <1>2 DEF Kept
  <1> QED BY <1>1, <1>4, <1>5, <1>6 DEF BooksRight


\* A commit that leaves the books right.
KeepsBooks(w) ==
    \E next, written : /\ CommitTxn(w, written, next)
                       /\ BooksRight(next) /\ Kept(next, written)

LEMMA BookFields ==
    ASSUME BillsInv
    PROVE  /\ DOMAIN db = {"session", "order", "invoice", "received", "owed", "reversal", "closing"}
           /\ DOMAIN db.order = Orders /\ DOMAIN db.session = Sessions
           /\ DOMAIN db.invoice = Invoices
           /\ DOMAIN db.received = Invoices /\ DOMAIN db.owed = Invoices
           /\ \A o \in Orders : DOMAIN db.order[o] = OrderFields
           /\ \A i \in Invoices : DOMAIN db.invoice[i] = InvoiceFields
           /\ BooksRight(db)
           /\ \A o \in Orders : OrderRight(db, o)
           /\ \A i \in Invoices : InvoiceRight(db.invoice[i], db.received[i], db.owed[i])
  BY DEF BillsInv, Inv, ShapeOf, BooksRight, InvoicesRight

LEMMA SessionsKeepBooks ==
    ASSUME BillsInv, NEW w, NEW next, NEW written, CommitTxn(w, written, next),
           next.order = db.order, next.invoice = db.invoice,
           next.received = db.received, next.owed = db.owed
    PROVE  KeepsBooks(w)
  <1>1. \A o \in Orders : next.order[o] = db.order[o]
    OBVIOUS
  <1>2. BooksRight(next) /\ Kept(next, written)
    BY <1>1, UnbilledKeep, BookFields
  <1> QED BY <1>2 DEF KeepsBooks

LEMMA OpenTableBooks ==
    ASSUME BillsInv, NEW w, OpenTable(w)
    PROVE  KeepsBooks(w)
  <1> DEFINE next == OpenEffect(work[w])
  <1>1. /\ next.order = db.order /\ next.invoice = db.invoice
        /\ next.received = db.received /\ next.owed = db.owed
    BY BookFields DEF OpenEffect
  <1>2. CommitTxn(w, {}, next)
    BY DEF OpenTable
  <1> HIDE DEF next
  <1> QED BY <1>1, <1>2, SessionsKeepBooks

LEMMA CloseTableBooks ==
    ASSUME BillsInv, NEW w, CloseTable(w)
    PROVE  KeepsBooks(w)
  <1> DEFINE next == CloseEffect(work[w])
  <1>1. /\ next.order = db.order /\ next.invoice = db.invoice
        /\ next.received = db.received /\ next.owed = db.owed
    BY BookFields DEF CloseEffect
  <1>2. CommitTxn(w, {SessionRow(work[w].op.session)}, next)
    BY DEF CloseTable
  <1> HIDE DEF next
  <1> QED BY <1>1, <1>2, SessionsKeepBooks

LEMMA GuestRequestsBillBooks ==
    ASSUME BillsInv, NEW w, GuestRequestsBill(w)
    PROVE  KeepsBooks(w)
  <1> DEFINE next == GuestAskEffect(work[w])
  <1>1. /\ next.order = db.order /\ next.invoice = db.invoice
        /\ next.received = db.received /\ next.owed = db.owed
    BY BookFields DEF GuestAskEffect
  <1>2. CommitTxn(w, {SessionRow(work[w].op.session)}, next)
    BY DEF GuestRequestsBill
  <1> HIDE DEF next
  <1> QED BY <1>1, <1>2, SessionsKeepBooks

LEMMA TurnDayBooks ==
    ASSUME BillsInv, NEW w, TurnDay(w)
    PROVE  KeepsBooks(w)
  <1> DEFINE next == DayEffect(work[w])
  <1>1. /\ next.order = db.order /\ next.invoice = db.invoice
        /\ next.received = db.received /\ next.owed = db.owed
    BY BookFields DEF DayEffect
  <1>2. CommitTxn(w, {Closing}, next)
    BY DEF TurnDay
  <1> HIDE DEF next
  <1> QED BY <1>1, <1>2, SessionsKeepBooks

LEMMA PlaceOrderBooks ==
    ASSUME BillsInv, NEW w \in Workers, PlaceOrder(w)
    PROVE  KeepsBooks(w)
  <1> DEFINE t == work[w]
             next == PlaceEffect(t)
             written == {OrderRow(t.op.order)}
             placed == [status |-> "placed", version |-> 1, session |-> t.op.session,
                        invoice |-> None]
  <1>1. /\ CommitTxn(w, written, next) /\ db.order[t.op.order].status = "none"
        /\ t.op \in Requests /\ t.op.kind = "place"
    BY WritesFacts DEF PlaceOrder, BillsInv
  <1>2. t.op.order \in Orders
    BY <1>1, RequestsAreKnown
  <1>3. /\ next.order = [db.order EXCEPT ![t.op.order] = placed]
        /\ next.invoice = db.invoice /\ next.received = db.received /\ next.owed = db.owed
    BY BookFields DEF PlaceEffect
  <1>4. db.order[t.op.order].invoice = None
    BY <1>1, <1>2, BookFields DEF OrderRight
  <1>5. Unbilled(db.order[t.op.order], placed)
    BY <1>1, <1>4 DEF Unbilled
  <1> HIDE DEF next, placed
  <1>6. \A o \in Orders : next.order[o] = db.order[o] \/ Unbilled(db.order[o], next.order[o])
    BY <1>2, <1>3, <1>5, BookFields
  <1>7. BooksRight(next) /\ Kept(next, written)
    BY <1>3, <1>6, UnbilledKeep, BookFields
  <1> QED BY <1>1, <1>7 DEF KeepsBooks

LEMMA MoveOrderBooks ==
    ASSUME BillsInv, NEW w \in Workers, MoveOrder(w)
    PROVE  KeepsBooks(w)
  <1> DEFINE t == work[w]
             next == MoveEffect(t)
             moved == t.op.order
             written == {OrderRow(moved)}
  <1>1. /\ w \in DOMAIN work /\ t.op \in Requests /\ t.op.kind = "move"
        /\ t.at \in Nat /\ t.at > Len(Queries(t)) /\ GoesOn(t)
        /\ CommitTxn(w, written, next)
    BY WritesFacts DEF MoveOrder, BillsInv
  <1>2. t.at > 1 /\ moved \in Orders /\ t.op.to \in Targets
    BY <1>1, RequestsAreKnown DEF Queries, MoveQueries
  <1>3. t.saw[OrderRow(moved)] = db.order[moved]
    BY <1>1, <1>2 DEF BillsInv, Inv, MoveInv, OrderInv
  <1>4. t.op.to \in MovesFrom(db.order[moved].status)
    BY <1>1, <1>2, <1>3 DEF GoesOn, MoveGoesOn
  <1>5. PICK version : version = t.saw[OrderRow(moved)].version + 1
    OBVIOUS
  <1>6. /\ next.order = [db.order EXCEPT ![moved] =
                            [db.order[moved] EXCEPT !.status = t.op.to, !.version = version]]
        /\ next.invoice = db.invoice /\ next.received = db.received /\ next.owed = db.owed
    BY <1>2, <1>5, BookFields DEF MoveEffect
  <1>7. PICK new : new = [db.order[moved] EXCEPT !.status = t.op.to, !.version = version]
    OBVIOUS
  <1>8. /\ new.status = t.op.to /\ new.invoice = db.order[moved].invoice
        /\ new.session = db.order[moved].session
    BY <1>2, <1>7, BookFields DEF OrderFields
  <1>9. Unbilled(db.order[moved], new)
    BY <1>2, <1>4, <1>8 DEF Unbilled, MovesFrom, Targets
  <1> HIDE DEF next
  <1>10. \A o \in Orders : next.order[o] = db.order[o] \/ Unbilled(db.order[o], next.order[o])
    BY <1>2, <1>6, <1>7, <1>9, BookFields
  <1>11. BooksRight(next) /\ Kept(next, written)
    BY <1>6, <1>10, UnbilledKeep, BookFields
  <1> QED BY <1>1, <1>11 DEF KeepsBooks

LEMMA RequestBillBooks ==
    ASSUME BillsInv, NEW w \in Workers, RequestBill(w)
    PROVE  KeepsBooks(w)
  <1> DEFINE t == work[w]
             next == AskEffect(t)
             written == {SessionRow(t.op.session)} \cup {OrderRow(o) : o \in Asked(t)}
  <1>1. /\ w \in DOMAIN work /\ t.op.kind = "ask"
        /\ t.at \in Nat /\ t.at > Len(Queries(t)) /\ GoesOn(t)
        /\ CommitTxn(w, written, next)
    BY WritesFacts DEF RequestBill, BillsInv
  <1>2. t.at > 2
    BY <1>1 DEF Queries, AskQueries
  <1>3. \A o \in Asked(t) : db.order[o].status = "served"
    BY <1>1, <1>2, CopiesAreCurrent DEF GoesOn, AskGoesOn, Asked, BillsInv
  <1>4. /\ next.order = [o \in Orders |->
                          IF o \in Asked(t)
                          THEN [db.order[o] EXCEPT !.status = "bill_requested",
                                                   !.version = t.saw[OrderRow(o)].version + 1]
                          ELSE db.order[o]]
        /\ next.invoice = db.invoice /\ next.received = db.received /\ next.owed = db.owed
    BY BookFields DEF AskEffect
  <1> HIDE DEF next
  <1>5. ASSUME NEW o \in Orders
        PROVE  next.order[o] = db.order[o] \/ Unbilled(db.order[o], next.order[o])
    <2>1. CASE o \in Asked(t)
      <3>1. PICK version : version = t.saw[OrderRow(o)].version + 1
        OBVIOUS
      <3>2. next.order[o] = [db.order[o] EXCEPT !.status = "bill_requested",
                                                !.version = version]
        BY <1>4, <2>1, <3>1
      <3>3. /\ next.order[o].status = "bill_requested"
            /\ next.order[o].invoice = db.order[o].invoice
            /\ next.order[o].session = db.order[o].session
        BY <3>2, BookFields DEF OrderFields
      <3> QED BY <1>3, <2>1, <3>3 DEF Unbilled
    <2>2. CASE o \notin Asked(t)
      BY <1>4, <2>2
    <2> QED BY <2>1, <2>2
  <1>6. BooksRight(next) /\ Kept(next, written)
    BY <1>4, <1>5, UnbilledKeep, BookFields
  <1> QED BY <1>1, <1>6 DEF KeepsBooks

LEMMA VoidBooks ==
    ASSUME BillsInv, NEW w \in Workers, Void(w)
    PROVE  KeepsBooks(w)
  <1> DEFINE t == work[w]
             next == VoidEffect(t)
             n == t.op.invoice
             written == {InvoiceRow(n)}
  <1>1. /\ w \in DOMAIN work /\ t.op \in Requests /\ t.op.kind = "void"
        /\ CommitTxn(w, written, next)
    BY WritesFacts DEF Void, BillsInv
  <1>2. n \in Invoices /\ db.invoice[n].status # "none"
    BY <1>1, RequestsAreKnown DEF BillsInv, ReadInv, TargetInv
  <1>3. /\ next.invoice = [db.invoice EXCEPT ![n] =
                              [[db.invoice[n] EXCEPT !.status = "cancelled"] EXCEPT !.due = 0]]
        /\ next.order = db.order /\ next.received = db.received /\ next.owed = db.owed
    BY <1>2, BookFields DEF VoidEffect
  <1>4. PICK half : half = [db.invoice[n] EXCEPT !.status = "cancelled"]
    OBVIOUS
  <1>5. PICK new : new = [half EXCEPT !.due = 0]
    OBVIOUS
  <1>6. /\ new.status = "cancelled" /\ new.due = 0
        /\ new.total = db.invoice[n].total /\ new.paid = db.invoice[n].paid
        /\ new.source = db.invoice[n].source
    BY <1>2, <1>4, <1>5, BookFields DEF InvoiceFields
  <1> HIDE DEF next
  <1>7. /\ next.invoice[n] = new
        /\ \A i \in Invoices \ {n} : next.invoice[i] = db.invoice[i]
    BY <1>2, <1>3, <1>4, <1>5, BookFields
  <1> HIDE DEF n, t
  <1>8. InvoiceRight(new, next.received[n], next.owed[n])
    BY <1>2, <1>3, <1>6, BookFields DEF InvoiceRight
  <1>9. InvoicesRight(next)
    BY <1>3, <1>7, <1>8, BookFields DEF InvoicesRight
  <1>10. ASSUME NEW o \in Orders PROVE OrderRight(next, o)
    <2>1. OrderRight(db, o) /\ next.order[o] = db.order[o]
      BY <1>3, BookFields
    <2>2. \A i \in Invoices : /\ next.invoice[i].source = db.invoice[i].source
                              /\ db.invoice[i].status # "none" => next.invoice[i].status # "none"
                              /\ next.invoice[i].status = "paid" => db.invoice[i].status = "paid"
      BY <1>6, <1>7
    <2> QED BY <2>1, <2>2 DEF OrderRight
  <1>11. ASSUME NEW i \in Invoices PROVE next.invoice[i].total = Amount(OnBill(next, i))
    <2>1. OnBill(next, i) = OnBill(db, i)
      BY <1>3 DEF OnBill
    <2>2. next.invoice[i].total = db.invoice[i].total
      BY <1>6, <1>7
    <2> QED BY <2>1, <2>2, BookFields DEF BooksRight
  <1>12. Kept(next, written)
    BY <1>2, <1>3, <1>6, <1>7 DEF Kept
  <1> QED BY <1>1, <1>9, <1>10, <1>11, <1>12 DEF KeepsBooks, BooksRight

LEMMA PaymentArithmetic ==
    ASSUME NEW total \in Int, NEW paid \in Int, NEW pay \in Int, pay <= total - paid
    PROVE  /\ total - (paid + pay) = total - paid - pay
           /\ total - (paid + pay) \in Int /\ paid + pay \in Int
           /\ Settled(total, paid + pay) \in {"paid", "unpaid"}
           /\ Settled(total, paid + pay) = "paid" => pay = total - paid
  BY DEF Settled

LEMMA CollectBooks ==
    ASSUME BillsInv, NEW w \in Workers, Collect(w)
    PROVE  KeepsBooks(w)
  <1> DEFINE t == work[w]
             next == CollectEffect(t)
             n == t.op.invoice
             pay == t.op.pay
             old == db.invoice[n]
             written == {InvoiceRow(n)}
  <1>1. /\ w \in DOMAIN work /\ t.op \in Requests /\ t.op.kind = "collect"
        /\ t.at \in Nat /\ t.at > Len(Queries(t)) /\ GoesOn(t)
        /\ CommitTxn(w, written, next)
    BY WritesFacts DEF Collect, BillsInv
  <1>2. t.at > 4
    BY <1>1 DEF Queries, CollectQueries
  <1>3. n \in Invoices /\ old.status # "none" /\ pay \in Int
    <2>1. n \in Invoices /\ old.status # "none"
      BY <1>1, RequestsAreKnown DEF BillsInv, ReadInv, TargetInv
    <2>2. pay \in Nat \ {0}
      BY <1>1, HubCafeAssumption
      DEF SessionRequests, PlaceRequests, MoveRequests, BillRequests, CheckoutRequests,
          CollectRequests, CloseRequests, VoidRequests, DayRequests
    <2> QED BY <2>1, <2>2
  <1>4. t.saw[InvoiceRow(n)] = old
    <2>1. InvoiceRow(n) \in DOMAIN t.saw
      BY <1>1, <1>2 DEF BillsInv, Inv, CollectInv
    <2> QED BY <1>1, <1>3, <2>1 DEF BillsInv, ReadInv, HeldInv
  <1>5. old.due > 0 /\ pay <= old.due
    BY <1>1, <1>2, <1>4 DEF GoesOn, CollectGoesOn
  <1>6. /\ old.status \in {"unpaid", "paid"}
        /\ old.total \in Int /\ old.paid \in Int /\ old.due = old.total - old.paid
        /\ old.paid = db.received[n]
        /\ db.owed[n] = IF old.customer THEN old.due ELSE 0
    BY <1>3, <1>5, BookFields DEF InvoiceRight
  <1> DEFINE paid == old.paid + pay
             rest == old.total - paid
             status == Settled(old.total, paid)
  <1>7. /\ next.invoice = [db.invoice EXCEPT ![n] =
                              [old EXCEPT !.paid = paid, !.due = rest, !.status = status]]
        /\ next.received = [db.received EXCEPT ![n] = @ + pay]
        /\ next.owed = [db.owed EXCEPT ![n] = IF old.customer THEN @ - pay ELSE @]
        /\ next.order = [o \in Orders |->
                          IF o \in Settles(t)
                          THEN [db.order[o] EXCEPT !.status = "closed",
                                                   !.version = t.saw[OrderRow(o)].version + 1]
                          ELSE db.order[o]]
    BY <1>3, <1>4, BookFields DEF CollectEffect
  <1> HIDE DEF next
  <1>8. PICK new : new = [old EXCEPT !.paid = paid, !.due = rest, !.status = status]
    OBVIOUS
  <1>9. /\ new.paid = paid /\ new.due = rest /\ new.status = status
        /\ new.total = old.total /\ new.source = old.source /\ new.customer = old.customer
    <2> HIDE DEF paid, rest, status, old
    <2>1. DOMAIN old = InvoiceFields
      BY <1>3, BookFields DEF old
    <2>2. PICK a : a = [old EXCEPT !.paid = paid]
      OBVIOUS
    <2>3. PICK b : b = [a EXCEPT !.due = rest]
      OBVIOUS
    <2>4. new = [b EXCEPT !.status = status]
      BY <1>8, <2>2, <2>3
    <2> QED BY <2>1, <2>2, <2>3, <2>4 DEF InvoiceFields
  <1>10. /\ next.invoice[n] = new /\ next.received[n] = old.paid + pay
         /\ next.owed[n] = IF old.customer THEN old.due - pay ELSE 0
         /\ \A i \in Invoices \ {n} : /\ next.invoice[i] = db.invoice[i]
                                      /\ next.received[i] = db.received[i]
                                      /\ next.owed[i] = db.owed[i]
         /\ DOMAIN next.received = Invoices /\ DOMAIN next.owed = Invoices
    <2>1. PICK owed : owed = IF old.customer THEN db.owed[n] - pay ELSE db.owed[n]
      OBVIOUS
    <2>2. next.owed = [db.owed EXCEPT ![n] = owed]
      BY <1>7, <2>1
    <2>3. owed = IF old.customer THEN old.due - pay ELSE 0
      BY <1>6, <2>1
    <2> HIDE DEF old, n, t, pay, paid, rest, status
    <2>4. next.invoice = [db.invoice EXCEPT ![n] = new]
      BY <1>7, <1>8
    <2>5. next.received[n] = old.paid + pay
      <3>1. next.received = [db.received EXCEPT ![n] = db.received[n] + pay]
        BY <1>7
      <3>2. n \in DOMAIN db.received
        BY <1>3, BookFields
      <3>3. next.received[n] = db.received[n] + pay
        BY <3>1, <3>2
      <3> QED BY <1>6, <3>3
    <2>6. n \in Invoices
      BY <1>3
    <2> QED BY <1>7, <2>2, <2>3, <2>4, <2>5, <2>6, BookFields
  <1>11. /\ rest = old.due - pay /\ rest \in Int /\ paid \in Int
         /\ status \in {"paid", "unpaid"} /\ (status = "paid" => pay = old.due)
    <2> HIDE DEF old, pay, n, t
    <2> QED BY <1>3, <1>5, <1>6, PaymentArithmetic
  <1>12. InvoiceRight(new, next.received[n], next.owed[n])
    <2> HIDE DEF old, n, t, pay
    <2> QED BY <1>6, <1>9, <1>10, <1>11 DEF InvoiceRight
  <1>13. InvoicesRight(next)
    BY <1>10, <1>12, BookFields DEF InvoicesRight
  <1>14. ASSUME NEW o \in Orders
         PROVE  /\ next.order[o].invoice = db.order[o].invoice
                /\ next.order[o].session = db.order[o].session
                /\ \/ next.order[o].status = db.order[o].status /\ o \notin Settles(t)
                   \/ next.order[o].status = "closed" /\ db.order[o].status = "billed"
    <2>1. CASE o \in Settles(t)
      <3>1. PICK version : version = t.saw[OrderRow(o)].version + 1
        OBVIOUS
      <3>2. next.order[o] = [db.order[o] EXCEPT !.status = "closed", !.version = version]
        BY <1>7, <2>1, <3>1
      <3>3. /\ next.order[o].status = "closed"
            /\ next.order[o].invoice = db.order[o].invoice
            /\ next.order[o].session = db.order[o].session
        BY <3>2, BookFields DEF OrderFields
      <3>4. db.order[o].status = "billed"
        BY <1>1, <2>1, CopiesAreCurrent DEF Settles, BillsInv
      <3> QED BY <3>3, <3>4
    <2>2. CASE o \notin Settles(t)
      BY <1>7, <2>2
    <2> QED BY <2>1, <2>2
  <1>15. ASSUME NEW o \in Orders, db.order[o].invoice = n, db.order[o].status = "billed",
                pay = old.due
         PROVE  o \in Settles(t)
    <2>1. o \in Loaded(t)
      BY <1>1, <1>2, <1>15 DEF BillsInv, ReadInv, CollectReadInv, Loaded
    <2>2. t.saw[OrderRow(o)] = db.order[o]
      BY <1>1, <2>1, CopiesAreCurrent DEF BillsInv
    <2> QED BY <1>4, <1>15, <2>1, <2>2 DEF Settles
  <1>16. ASSUME NEW o \in Orders PROVE OrderRight(next, o)
    <2>1. OrderRight(db, o)
      BY BookFields
    <2>2. \A i \in Invoices : /\ next.invoice[i].source = db.invoice[i].source
                              /\ db.invoice[i].status # "none" => next.invoice[i].status # "none"
                              /\ next.invoice[i].status = "paid" =>
                                    \/ i = n /\ pay = old.due
                                    \/ db.invoice[i].status = "paid"
      <3> HIDE DEF old, n, t, pay, rest, paid, status
      <3>1. new.source = db.invoice[n].source
        BY <1>9 DEF old
      <3> QED BY <1>9, <1>10, <1>11, <3>1
    <2>3. /\ next.order[o].status \in {"billed", "closed"}
                <=> db.order[o].status \in {"billed", "closed"}
          /\ db.order[o].status = "closed" => next.order[o].status = "closed"
          /\ db.order[o].invoice = n /\ pay = old.due /\ db.order[o].status = "billed" =>
                next.order[o].status = "closed"
      <3> HIDE DEF old, n, t, pay
      <3> QED BY <1>14, <1>15
    <2> HIDE DEF old, n, t, pay
    <2> QED BY <1>14, <2>1, <2>2, <2>3 DEF OrderRight
  <1>17. ASSUME NEW i \in Invoices PROVE next.invoice[i].total = Amount(OnBill(next, i))
    <2>1. OnBill(next, i) = OnBill(db, i)
      BY <1>14 DEF OnBill
    <2>2. next.invoice[i].total = db.invoice[i].total
      BY <1>9, <1>10
    <2> QED BY <2>1, <2>2, BookFields DEF BooksRight
  <1>18. Kept(next, written)
    <2> HIDE DEF old
    <2> QED BY <1>3, <1>9, <1>10, <1>11, <1>14 DEF Kept
  <1> QED BY <1>1, <1>13, <1>16, <1>17, <1>18 DEF KeepsBooks, BooksRight

LEMMA FreeNumber ==
    ASSUME BillsInv, NumberLeft
    PROVE  /\ NextNumber \in Invoices /\ db.invoice[NextNumber] = NoInvoice
           /\ db.received[NextNumber] = 0 /\ db.owed[NextNumber] = 0
  <1>1. NextNumber \in Invoices /\ db.invoice[NextNumber] = NoInvoice
    BY NextIsFree
  <1>2. PICK n \in Invoices : n = NextNumber
    BY <1>1
  <1>3. InvoiceRight(db.invoice[n], db.received[n], db.owed[n])
    BY BookFields
  <1>4. db.invoice[n] = NoInvoice /\ NoInvoice.status = "none" /\ NoInvoice.paid = 0
    BY <1>1, <1>2 DEF NoInvoice
  <1>5. db.received[n] = 0 /\ db.owed[n] = 0
    BY <1>3, <1>4 DEF InvoiceRight
  <1> QED BY <1>1, <1>2, <1>5

LEMMA NewInvoiceRight ==
    ASSUME NEW total \in Int, NEW pay \in Int, pay <= total, NEW key, NEW source, NEW customer
    PROVE  LET due == total - pay
               new == [status |-> Settled(total, pay), total |-> total, paid |-> pay,
                       due |-> due, key |-> key, source |-> source, customer |-> customer]
           IN  /\ InvoiceRight(new, pay, IF customer THEN due ELSE 0)
               /\ new.status # "none" /\ new.total = total /\ new.source = source
               /\ new.status = "paid" => due = 0
  BY DEF InvoiceRight, Settled

LEMMA BillBooks ==
    ASSUME BillsInv, NEW w \in Workers, Bill(w)
    PROVE  KeepsBooks(w)
  <1> DEFINE t == work[w]
             next == BillEffect(t)
             E == Eligible(t)
             written == {t.op.source} \cup {OrderRow(o) : o \in Eligible(t)}
             total == Amount(E)
             due == total - t.op.pay
             final == IF due = 0 THEN "closed" ELSE "billed"
             n == NextNumber
             new == [status |-> Settled(total, t.op.pay), total |-> total,
                     paid |-> t.op.pay, due |-> due, key |-> t.op.key,
                     source |-> t.op.source, customer |-> t.op.customer]
  <1>1. /\ w \in DOMAIN work /\ t.op \in Requests /\ t.op.kind = "bill"
        /\ t.at \in Nat /\ t.at > Len(Queries(t)) /\ GoesOn(t)
        /\ CommitTxn(w, written, next) /\ NumberLeft
    BY WritesFacts DEF Bill, BillsInv
  <1>2. t.at > 4
    BY <1>1 DEF Queries, BillQueries
  <1>3. E \in SUBSET Orders /\ total \in Int
    BY AmountIs DEF Eligible, Loaded
  <1>4. t.op.pay \in Int
    BY <1>1, HubCafeAssumption
    DEF SessionRequests, PlaceRequests, MoveRequests, BillRequests, CheckoutRequests,
        CollectRequests, CloseRequests, VoidRequests, DayRequests
  <1>5. t.op.pay <= total
    BY <1>1, <1>2 DEF GoesOn, BillGoesOn, PaymentFits
  <1>6. /\ n \in Invoices /\ db.invoice[n] = NoInvoice
        /\ db.received[n] = 0 /\ db.owed[n] = 0
    BY <1>1, FreeNumber
  <1>7. PICK steps : steps = IF due = 0 THEN 2 ELSE 1
    OBVIOUS
  <1>8. /\ next.invoice = [db.invoice EXCEPT ![n] = new]
        /\ next.received = [db.received EXCEPT ![n] = @ + t.op.pay]
        /\ next.owed = [db.owed EXCEPT ![n] = IF t.op.customer THEN @ + due ELSE @]
        /\ next.order = [o \in Orders |->
                           IF o \in E
                           THEN [db.order[o] EXCEPT !.status = final, !.invoice = n,
                                    !.version = t.saw[OrderRow(o)].version + steps]
                           ELSE db.order[o]]
    BY <1>7, BookFields DEF BillEffect
  <1> HIDE DEF next
  <1>9. /\ InvoiceRight(new, t.op.pay, IF t.op.customer THEN due ELSE 0)
        /\ new.status # "none" /\ new.total = total /\ new.source = t.op.source
        /\ new.status = "paid" => due = 0
    BY <1>3, <1>4, <1>5, NewInvoiceRight
  <1>10. /\ next.invoice[n] = new /\ next.received[n] = t.op.pay
         /\ next.owed[n] = IF t.op.customer THEN due ELSE 0
         /\ \A i \in Invoices \ {n} : /\ next.invoice[i] = db.invoice[i]
                                      /\ next.received[i] = db.received[i]
                                      /\ next.owed[i] = db.owed[i]
         /\ DOMAIN next.received = Invoices /\ DOMAIN next.owed = Invoices
    <2>1. PICK owed : owed = IF t.op.customer THEN db.owed[n] + due ELSE db.owed[n]
      OBVIOUS
    <2>2. PICK received : received = db.received[n] + t.op.pay
      OBVIOUS
    <2>3. /\ next.owed = [db.owed EXCEPT ![n] = owed]
          /\ next.received = [db.received EXCEPT ![n] = received]
      BY <1>8, <2>1, <2>2
    <2>4. received = t.op.pay
      BY <1>4, <1>6, <2>2
    <2>5. due \in Int
      BY <1>3, <1>4
    <2>6. owed = IF t.op.customer THEN due ELSE 0
      <3> HIDE DEF due, n
      <3> QED BY <1>6, <2>1, <2>5
    <2> HIDE DEF n, new, due, t
    <2> QED BY <1>6, <1>8, <2>3, <2>4, <2>6, BookFields
  <1>11. ASSUME NEW o \in E
         PROVE  /\ db.order[o].invoice = None /\ next.order[o].invoice = n
                /\ next.order[o].status = final
                /\ next.order[o].session = db.order[o].session
                /\ t.op.source \in {OrderRow(o), SessionRow(db.order[o].session)}
    <2>1. o \in Orders /\ o \in Loaded(t)
      BY DEF Eligible, Loaded
    <2>2. db.order[o].invoice = None
      BY <1>1, <2>1, CopiesAreCurrent DEF Eligible, BillsInv
    <2>3. PICK version : version = t.saw[OrderRow(o)].version + steps
      OBVIOUS
    <2>4. next.order[o] = [db.order[o] EXCEPT !.status = final, !.invoice = n,
                                              !.version = version]
      BY <1>8, <2>1, <2>3
    <2>5. /\ next.order[o].invoice = n /\ next.order[o].status = final
          /\ next.order[o].session = db.order[o].session
      <3>1. DOMAIN db.order[o] = OrderFields
        BY <2>1, BookFields
      <3> HIDE DEF n, final
      <3> QED BY <2>4, <3>1 DEF OrderFields
    <2>6. t.op.source \in {OrderRow(o), SessionRow(db.order[o].session)}
      BY <1>1, <2>1 DEF BillsInv, ReadInv, BillReadInv
    <2> QED BY <2>2, <2>5, <2>6
  <1>12. \A o \in Orders \ E : next.order[o] = db.order[o]
    BY <1>8
  <1>13. final \in {"billed", "closed"} /\ (due = 0 => final = "closed")
    OBVIOUS
  <1> HIDE DEF n, new, due, final, t, total, E
  <1>14. BooksRight(next) /\ Kept(next, written)
    <2>1. InvoiceRight(next.invoice[n], next.received[n], next.owed[n])
      BY <1>9, <1>10
    <2>2. next.invoice[n].status # "none" /\ next.invoice[n].total = Amount(E)
      BY <1>9, <1>10 DEF total
    <2>3. ASSUME NEW o \in E
          PROVE  /\ db.order[o].invoice = None /\ next.order[o].invoice = n
                 /\ next.order[o].status \in {"billed", "closed"}
                 /\ next.invoice[n].status = "paid" => next.order[o].status = "closed"
                 /\ next.invoice[n].source \in {OrderRow(o), SessionRow(next.order[o].session)}
                 /\ db.order[o].status # "none" => next.order[o].session = db.order[o].session
      BY <1>9, <1>10, <1>11, <1>13
    <2>4. /\ DOMAIN next.received = Invoices /\ DOMAIN next.owed = Invoices
          /\ \A i \in Invoices \ {n} : /\ next.invoice[i] = db.invoice[i]
                                       /\ next.received[i] = db.received[i]
                                       /\ next.owed[i] = db.owed[i]
      BY <1>10
    <2>5. n \in Invoices /\ db.invoice[n] = NoInvoice
      BY <1>6
    <2>6. BooksRight(db)
      BY BookFields
    <2> QED BY <1>3, <1>12, <2>1, <2>2, <2>3, <2>4, <2>5, <2>6, NewBillKeeps
  <1> QED BY <1>1, <1>14 DEF KeepsBooks

LEMMA CheckoutBooks ==
    ASSUME BillsInv, NEW w \in Workers, Checkout(w)
    PROVE  KeepsBooks(w)
  <1> DEFINE t == work[w]
             next == CheckoutEffect(t)
             sold == t.op.order
             total == Price[sold]
             n == NextNumber
             written == {OrderRow(sold)}
             new == [status |-> "paid", total |-> total, paid |-> total, due |-> 0,
                     key |-> t.op.key, source |-> OrderRow(sold), customer |-> FALSE]
             order == [status |-> "closed", version |-> 4, session |-> NoSession, invoice |-> n]
  <1>1. /\ w \in DOMAIN work /\ t.op \in Requests /\ t.op.kind = "checkout"
        /\ CommitTxn(w, written, next) /\ NumberLeft
        /\ db.order[sold].status = "none"
    BY WritesFacts DEF Checkout, BillsInv
  <1>2. sold \in Orders /\ total \in Int
    BY <1>1, RequestsAreKnown, HubCafeAssumption
  <1>3. /\ n \in Invoices /\ db.invoice[n] = NoInvoice
        /\ db.received[n] = 0 /\ db.owed[n] = 0
    BY <1>1, FreeNumber
  <1>4. db.order[sold].invoice = None
    BY <1>1, <1>2, BookFields DEF OrderRight
  <1>5. /\ next.invoice = [db.invoice EXCEPT ![n] = new]
        /\ next.received = [db.received EXCEPT ![n] = @ + total]
        /\ next.owed = db.owed
        /\ next.order = [db.order EXCEPT ![sold] = order]
    BY BookFields DEF CheckoutEffect
  <1> HIDE DEF next
  <1>6. /\ new.status = "paid" /\ new.total = total /\ new.source = OrderRow(sold)
        /\ InvoiceRight(new, total, 0)
    BY <1>2 DEF InvoiceRight, Settled
  <1>7. order.invoice = n /\ order.status = "closed"
    OBVIOUS
  <1> HIDE DEF new, order, n, sold, total, t
  <1>8. /\ next.invoice[n] = new /\ next.received[n] = total /\ next.owed[n] = 0
        /\ \A i \in Invoices \ {n} : /\ next.invoice[i] = db.invoice[i]
                                     /\ next.received[i] = db.received[i]
                                     /\ next.owed[i] = db.owed[i]
        /\ DOMAIN next.received = Invoices /\ DOMAIN next.owed = Invoices
    BY <1>2, <1>3, <1>5, BookFields
  <1>9. /\ next.order[sold] = order
        /\ \A o \in Orders \ {sold} : next.order[o] = db.order[o]
    BY <1>2, <1>5, BookFields
  <1>10. BooksRight(next) /\ Kept(next, written)
    <2>1. InvoiceRight(next.invoice[n], next.received[n], next.owed[n])
      BY <1>6, <1>8
    <2>2. next.invoice[n].status # "none" /\ next.invoice[n].total = Amount({sold})
      BY <1>2, <1>6, <1>8, AmountOne DEF total
    <2>3. ASSUME NEW o \in {sold}
          PROVE  /\ db.order[o].invoice = None /\ next.order[o].invoice = n
                 /\ next.order[o].status \in {"billed", "closed"}
                 /\ next.invoice[n].status = "paid" => next.order[o].status = "closed"
                 /\ next.invoice[n].source \in {OrderRow(o), SessionRow(next.order[o].session)}
                 /\ db.order[o].status # "none" => next.order[o].session = db.order[o].session
      BY <1>1, <1>4, <1>6, <1>7, <1>8, <1>9
    <2>4. /\ DOMAIN next.received = Invoices /\ DOMAIN next.owed = Invoices
          /\ \A i \in Invoices \ {n} : /\ next.invoice[i] = db.invoice[i]
                                       /\ next.received[i] = db.received[i]
                                       /\ next.owed[i] = db.owed[i]
      BY <1>8
    <2>5. n \in Invoices /\ db.invoice[n] = NoInvoice /\ {sold} \in SUBSET Orders
      BY <1>2, <1>3
    <2>6. BooksRight(db)
      BY BookFields
    <2>7. \A o \in Orders \ {sold} : next.order[o] = db.order[o]
      BY <1>9
    <2> QED BY <2>1, <2>2, <2>3, <2>4, <2>5, <2>6, <2>7, NewBillKeeps
  <1> QED BY <1>1, <1>10 DEF KeepsBooks

LEMMA BillsStart == Init => BillsInv
  <1> SUFFICES ASSUME Init PROVE BillsInv
    OBVIOUS
  <1>1. Inv
    BY InitHolds
  <1>2. DOMAIN work = {}
    BY DEF Init
  <1>3. ReadInv
    BY <1>2 DEF ReadInv, TargetInv, HeldInv, BillReadInv, CollectReadInv
  <1>4. /\ \A i \in Invoices : db.invoice[i] = NoInvoice /\ db.received[i] = 0 /\ db.owed[i] = 0
        /\ DOMAIN db.received = Invoices /\ DOMAIN db.owed = Invoices
        /\ \A o \in Orders : db.order[o].status = "none" /\ db.order[o].invoice = None
    BY DEF Init
  <1>5. InvoiceRight(NoInvoice, 0, 0) /\ NoInvoice.total = 0
    BY DEF InvoiceRight, NoInvoice
  <1>6. InvoicesRight(db)
    BY <1>4, <1>5 DEF InvoicesRight
  <1>7. \A o \in Orders : OrderRight(db, o)
    BY <1>4 DEF OrderRight
  <1>8. ASSUME NEW i \in Invoices PROVE db.invoice[i].total = Amount(OnBill(db, i))
    <2>1. OnBill(db, i) = {}
      BY <1>4 DEF OnBill, Invoices, None
    <2> QED BY <1>4, <1>5, <2>1, AmountNone
  <1> QED BY <1>1, <1>3, <1>6, <1>7, <1>8 DEF BillsInv, BooksRight

LEMMA NextKeepsBills == BillsInv /\ [Next]_vars => BillsInv'
  <1> SUFFICES ASSUME BillsInv, [Next]_vars PROVE BillsInv'
    OBVIOUS
  <1>1. Inv'
    BY NextKeeps DEF BillsInv
  <1>2. CASE Next
    <2>1. PICK w \in Workers :
             \/ Begin(w) \/ Query(w) \/ RollBack(w)
             \/ OpenTable(w) \/ CloseTable(w) \/ PlaceOrder(w) \/ MoveOrder(w)
             \/ RequestBill(w) \/ GuestRequestsBill(w) \/ Bill(w) \/ Checkout(w)
             \/ Collect(w) \/ Void(w) \/ TurnDay(w)
      BY <1>2 DEF Next
    <2>2. CASE Begin(w) \/ Query(w) \/ RollBack(w)
      <3>1. ReadInv'
        BY <2>2, BeginKeepsReads, QueryKeepsReads, RollBackKeepsReads
      <3>2. db' = db
        BY <2>2 DEF Begin, Query, RollBack
      <3>3. BooksRight(db)'
        BY <3>2, BooksStay DEF BillsInv
      <3> QED BY <1>1, <3>1, <3>3 DEF BillsInv
    <2>3. CASE ~ (Begin(w) \/ Query(w) \/ RollBack(w))
      <3>1. KeepsBooks(w)
        BY <2>1, <2>3, OpenTableBooks, CloseTableBooks, PlaceOrderBooks, MoveOrderBooks,
           RequestBillBooks, GuestRequestsBillBooks, BillBooks, CheckoutBooks, CollectBooks,
           VoidBooks, TurnDayBooks
      <3>2. w \in DOMAIN work
        BY <2>1, <2>3 DEF OpenTable, CloseTable, PlaceOrder, MoveOrder, RequestBill,
             GuestRequestsBill, Bill, Checkout, Collect, Void, TurnDay, Writes
      <3>3. PICK next, written : /\ CommitTxn(w, written, next)
                                 /\ BooksRight(next) /\ Kept(next, written)
        BY <3>1 DEF KeepsBooks
      <3>4. ReadInv'
        BY <3>2, <3>3, CommitKeepsReads
      <3>5. db' = next
        BY <3>3 DEF CommitTxn
      <3>6. BooksRight(db)'
        BY <3>3, <3>5
      <3> QED BY <1>1, <3>4, <3>6 DEF BillsInv
    <2> QED BY <2>2, <2>3
  <1>3. CASE UNCHANGED vars
    <2>1. BooksRight(db)'
      BY <1>3, BooksStay DEF vars, txnVars, BillsInv
    <2>2. ReadInv'
      BY <1>3 DEF vars, txnVars, BillsInv, ReadInv, TargetInv, HeldInv, BillReadInv,
           CollectReadInv, Loaded
    <2> QED BY <1>1, <2>1, <2>2 DEF BillsInv
  <1> QED BY <1>2, <1>3

\* Whatever kitchen, waiters and cashiers do at once: a bill and the orders on it
\* point at each other, an invoice and its payments agree, and what a bill or a
\* collection has read of them stays so until it writes.
THEOREM BillsInvariant == Spec => []BillsInv
  <1> QED BY BillsStart, NextKeepsBills, PTL DEF Spec

\* A bill's total is the price of its orders, an order is on a bill just when it
\* was billed, and the last payment closes every order of its bill.
THEOREM BillsAlwaysCoverOrders == Spec => []BillsCoverTheirOrders
  <1>1. BillsInv => BillsCoverTheirOrders
    BY DEF BillsInv, BooksRight, OrderRight, OnBill, BillsCoverTheirOrders
  <1> QED BY <1>1, BillsInvariant, PTL

\* An invoice's paid amount, balance and status and the customer's debt follow
\* from its payments, although collections and voids run side by side.
THEOREM CafeInvoicesAlwaysReconcile == Spec => []CafeInvoicesReconcile
  <1>1. BillsInv => CafeInvoicesReconcile
    <2> SUFFICES ASSUME BillsInv, NEW i \in Invoices
                 PROVE  /\ db.invoice[i].paid = db.received[i]
                        /\ Live(i) =>
                             /\ db.invoice[i].due = db.invoice[i].total - db.invoice[i].paid
                             /\ db.invoice[i].status
                                  = Settled(db.invoice[i].total, db.invoice[i].paid)
                             /\ db.owed[i]
                                  = IF db.invoice[i].customer THEN db.invoice[i].due ELSE 0
      BY DEF CafeInvoicesReconcile
    <2> QED BY BookFields DEF InvoiceRight, Live
  <1> QED BY <1>1, BillsInvariant, PTL
=============================================================================
