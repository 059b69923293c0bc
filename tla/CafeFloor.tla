------------------------------ MODULE CafeFloor ------------------------------
(***************************************************************************)
(* The floor of one cafe branch: tables and their QR tokens, table         *)
(* sessions, orders of staff and guests, the request for the bill, the     *)
(* bill of a session or of a takeaway order, its collection and its void,  *)
(* as cafe.ts, cafe-billing.ts, public-cafe.ts and the parts of billing.ts *)
(* financial.ts and governance.ts they call run them.                      *)
(*                                                                         *)
(* Every order is worth 1.  A handler that carries expected_version is     *)
(* refused unless it equals the version its transaction reads, so the      *)
(* version itself is kept only where a client has been shown something it  *)
(* then acts on: the quote of a session (history variable `quoted').       *)
(* The closing of the business day only refuses more, see BranchTill.      *)
(***************************************************************************)
EXTENDS SnapshotTxn, Naturals, FiniteSets

CONSTANTS
    Requests,       \* the requests staff and guests may send
    Tables,
    MaxSession,     \* bound on table_sessions
    MaxOrder,       \* bound on cafe_orders
    MaxInvoice,     \* bound on invoices
    MaxToken        \* bound on qr_tokens

Sessions == 1..MaxSession
Orders   == 1..MaxOrder
Invoices == 1..MaxInvoice
Tokens   == 1..MaxToken
None     == 0       \* no session, order, invoice or token
RequestId == Nat \ {0}

ASSUME FloorAssumption ==
    /\ MaxSession \in Nat /\ MaxOrder \in Nat
    /\ MaxInvoice \in Nat /\ MaxToken \in Nat
    /\ None \notin Tables

(***************************************************************************)
(* An order of a guest carries the QR token he came with, one of the staff *)
(* carries None; a takeaway order has no session.  A bill is for a session *)
(* or for one takeaway order.                                              *)
(***************************************************************************)
Moves == {"accept", "reject", "start-preparing", "mark-ready", "serve",
          "request-bill", "cancel"}

OpenRequests    == [kind: {"open"}, table: Tables]
OrderRequests   == [kind: {"order"}, id: RequestId,
                    session: Sessions \cup {None}, token: Tokens \cup {None}]
MoveRequests    == [kind: {"move"}, order: Orders, move: Moves]
AskRequests     == [kind: {"ask"}, session: Sessions, token: Tokens \cup {None}]
CloseRequests   == [kind: {"close"}, session: Sessions, cancel: BOOLEAN]
BillRequests    == [kind: {"bill"}, id: RequestId, session: Sessions \cup {None},
                    order: Orders \cup {None}, paid: Nat]
CollectRequests == [kind: {"collect"}, id: RequestId, invoice: Invoices,
                    amount: Nat \ {0}]
VoidRequests    == [kind: {"void"}, id: RequestId, invoice: Invoices]
EditRequests    == [kind: {"edit"}, table: Tables, active: BOOLEAN]
TableRequests   == [kind: {"deactivate", "rotate", "revoke"}, table: Tables]
QuoteRequests   == [kind: {"quote"}, session: Sessions]

ASSUME FloorRequestAssumption ==
    /\ Requests \subseteq
         OpenRequests \cup OrderRequests \cup MoveRequests \cup AskRequests
           \cup CloseRequests \cup BillRequests \cup CollectRequests
           \cup VoidRequests \cup EditRequests \cup TableRequests
           \cup QuoteRequests
    /\ \A r \in Requests :
         /\ r.kind = "order" /\ r.token # None => r.session # None
         /\ r.kind = "bill" => (r.session = None) # (r.order = None)
    \* A guest's Idempotency-Key is not the id of an order of the staff.
    /\ \A r, q \in Requests :
         r.kind = "order" /\ q.kind = "order" /\ r.id = q.id
           => (r.token = None) = (q.token = None)

VARIABLES
    arrived,    \* requests that passed the checks made before the transaction
    quoted      \* history: the quotes of each session that clients were shown

vars == <<db, run, arrived, quoted>>

(***************************************************************************)
(* Documents.                                                              *)
(***************************************************************************)
LiveStatus    == {"open", "bill_requested", "billed"}
SessionStatus == LiveStatus \cup {"none", "closed", "cancelled"}
OrderStatus   == {"none", "placed", "accepted", "preparing", "ready", "served",
                  "bill_requested", "billed", "closed", "rejected", "cancelled"}
BillStatus    == {"none", "unpaid", "paid", "cancelled"}
TokenStatus   == {"none", "live", "revoked"}

\* cafe.ts: what a bill may be asked for, and what it charges.
Eligible == {"accepted", "served", "bill_requested"}
Dropped  == {"rejected", "cancelled"}

NoSession == [table |-> None, status |-> "none", version |-> 0, invoice |-> None]
NoOrder   == [session |-> None, status |-> "none", invoice |-> None, request |-> 0]
NoBill    == [status |-> "none", due |-> 0, orders |-> {}, session |-> None,
              order |-> None, version |-> 0, request |-> 0]
FreeTable == [is_active |-> TRUE, session |-> None, shown |-> "none",
              qr |-> FALSE]

EmptyFloor ==
    [table   |-> [t \in Tables |-> FreeTable],
     session |-> [s \in Sessions |-> NoSession],
     order   |-> [o \in Orders |-> NoOrder],
     invoice |-> [i \in Invoices |-> NoBill],
     token   |-> [k \in Tokens |-> [table |-> None, status |-> "none"]],
     access  |-> {},        \* guest_access: pairs of a token and a session
     opkeys  |-> {},        \* operation_keys
     lastSession |-> 0, lastOrder |-> 0, lastInvoice |-> 0, lastToken |-> 0]

Init ==
    /\ db = EmptyFloor
    /\ run = [h \in {} |-> 0]
    /\ arrived = [h \in {} |-> 0]
    /\ quoted = [s \in Sessions |-> {}]

\* The counters of sessions, orders and invoices are only incremented together
\* with BranchDoc and need no document of their own.
BranchDoc     == <<"branch">>
TableDoc(t)   == <<"table", t>>
SessionDoc(s) == <<"session", s>>
OrderDoc(o)   == <<"order", o>>
InvoiceDoc(i) == <<"invoice", i>>
TokenDoc(k)   == <<"token", k>>
TokenCounter  == <<"counter", "qr_tokens">>
OpKey(r)      == <<r.kind, r.id>>
KeyDoc(r)     == <<"operation_key", OpKey(r)>>

OrdersOf(d, s) == {o \in Orders : d.order[o].session = s}

-----------------------------------------------------------------------------
(***************************************************************************)
(* POST cafe/table-sessions.                                               *)
(***************************************************************************)
\* Mutant: the table's session is not looked at.
OpenAllowedAnyTable(t) ==
    /\ t.snap.table[t.op.table].is_active
    /\ t.snap.lastSession < MaxSession

OpenAllowed(t) ==
    /\ t.snap.table[t.op.table].is_active
    /\ t.snap.table[t.op.table].session = None
    /\ t.snap.lastSession < MaxSession

OpenWrites(t) ==
    {BranchDoc, TableDoc(t.op.table), SessionDoc(t.snap.lastSession + 1)}

OpenEffect(t) ==
    LET s == t.snap.lastSession + 1
    IN  [db EXCEPT
          !.lastSession = s,
          !.session[s]  = [table |-> t.op.table, status |-> "open",
                           version |-> 1, invoice |-> None],
          !.table[t.op.table].session = s,
          !.table[t.op.table].shown   = "open"]

(***************************************************************************)
(* createOrder, for the staff (POST cafe/orders) and for guests (POST      *)
(* public/cafe/sessions/:id/orders, with an Idempotency-Key).              *)
(***************************************************************************)
\* Mutant: a guest's key is not looked up.
OrderAllowedUnkeyed(t) ==
    /\ t.op.session # None => t.snap.session[t.op.session].status = "open"
    /\ t.snap.lastOrder < MaxOrder

OrderAllowed(t) ==
    /\ t.op.session # None => t.snap.session[t.op.session].status = "open"
    /\ t.op.token # None => OpKey(t.op) \notin t.snap.opkeys
    /\ t.snap.lastOrder < MaxOrder

\* Mutant: an order leaves its session's version alone.
OrderWritesNoSession(t) ==
    {BranchDoc, OrderDoc(t.snap.lastOrder + 1)}
        \cup (IF t.op.token = None THEN {} ELSE {KeyDoc(t.op)})

OrderWrites(t) ==
    {BranchDoc, OrderDoc(t.snap.lastOrder + 1)}
        \cup (IF t.op.session = None THEN {} ELSE {SessionDoc(t.op.session)})
        \cup (IF t.op.token = None THEN {} ELSE {KeyDoc(t.op)})

\* Mutant: an order leaves the version its cashiers compare as it was.
OrderEffectUnversioned(t) ==
    [db EXCEPT
      !.lastOrder = t.snap.lastOrder + 1,
      !.order[t.snap.lastOrder + 1] =
          [session |-> t.op.session, status |-> "placed",
           invoice |-> None, request |-> t.op.id]]

OrderEffect(t) ==
    LET o == t.snap.lastOrder + 1
        s == t.op.session
        placed == [db EXCEPT
                    !.lastOrder = o,
                    !.order[o]  = [session |-> s, status |-> "placed",
                                   invoice |-> None, request |-> t.op.id],
                    !.opkeys    = IF t.op.token = None THEN @
                                  ELSE @ \cup {OpKey(t.op)}]
    IN  IF s = None THEN placed
        ELSE [placed EXCEPT !.session[s].version = @ + 1]

(***************************************************************************)
(* POST cafe/orders/:id/<move>.  The session is not looked at.             *)
(***************************************************************************)
MovesFrom ==
    [m \in Moves |->
        CASE m = "accept"          -> {"placed"}
          [] m = "reject"          -> {"placed"}
          [] m = "start-preparing" -> {"accepted"}
          [] m = "mark-ready"      -> {"preparing"}
          [] m = "serve"           -> {"accepted", "ready"}
          [] m = "request-bill"    -> {"accepted", "served"}
          [] m = "cancel"          -> {"placed", "accepted", "preparing",
                                       "ready", "served"}]
MovesTo ==
    [m \in Moves |->
        CASE m = "accept"          -> "accepted"
          [] m = "reject"          -> "rejected"
          [] m = "start-preparing" -> "preparing"
          [] m = "mark-ready"      -> "ready"
          [] m = "serve"           -> "served"
          [] m = "request-bill"    -> "bill_requested"
          [] m = "cancel"          -> "cancelled"]

MoveAllowed(t) ==
    /\ t.snap.order[t.op.order].status \in MovesFrom[t.op.move]
    /\ t.snap.order[t.op.order].invoice = None

\* Mutant: an order is moved without conflicting with its bill.
MoveWritesNothing(t) == {}

MoveWrites(t) == {OrderDoc(t.op.order)}

MoveEffect(t) == [db EXCEPT !.order[t.op.order].status = MovesTo[t.op.move]]

(***************************************************************************)
(* requestSessionBill, for the staff and for guests.                       *)
(***************************************************************************)
AskedOrders(t) ==
    {o \in OrdersOf(t.snap, t.op.session) :
        t.snap.order[o].status \notin Dropped \cup {"closed", "billed"}}

AskAllowed(t) ==
    /\ t.snap.session[t.op.session].status = "open"
    /\ AskedOrders(t) # {}
    /\ \A o \in AskedOrders(t) : t.snap.order[o].status \in Eligible

AskWrites(t) ==
    {SessionDoc(t.op.session), TableDoc(t.snap.session[t.op.session].table)}
        \cup {OrderDoc(o) : o \in AskedOrders(t)}

\* The orders of S get this status.
Marked(order, S, status) ==
    [o \in Orders |-> IF o \in S THEN [order[o] EXCEPT !.status = status]
                      ELSE order[o]]

AskEffect(t) ==
    LET s == t.op.session
    IN  [db EXCEPT
          !.session[s].status  = "bill_requested",
          !.session[s].version = @ + 1,
          !.table[t.snap.session[s].table].shown = "bill_requested",
          !.order = Marked(@, AskedOrders(t), "bill_requested")]

(***************************************************************************)
(* POST cafe/table-sessions/:id/close: without a bill.                     *)
(***************************************************************************)
CloseAllowed(t) ==
    /\ t.snap.session[t.op.session].status \in LiveStatus
    /\ \A o \in OrdersOf(t.snap, t.op.session) :
          t.snap.order[o].status \in Dropped \cup {"closed"}

\* Mutant: the session is closed without conflicting with a new order.
CloseWritesTable(t) == {TableDoc(t.snap.session[t.op.session].table)}

CloseWrites(t) ==
    {SessionDoc(t.op.session), TableDoc(t.snap.session[t.op.session].table)}

CloseEffect(t) ==
    LET s == t.op.session
    IN  [db EXCEPT
          !.session[s].status  = IF t.op.cancel THEN "cancelled" ELSE "closed",
          !.session[s].version = @ + 1,
          !.table[t.snap.session[s].table].session = None,
          !.table[t.snap.session[s].table].shown   = "none"]

-----------------------------------------------------------------------------
(***************************************************************************)
(* finalizeCafeBill: what a bill, and every collection on it, does to the  *)
(* orders of the session (or the takeaway order), the session and table.   *)
(***************************************************************************)
BilledOrders(d, s, o) ==
    {x \in (IF s = None THEN {o} ELSE OrdersOf(d, s)) :
        d.order[x].status \notin Dropped}

FinalWrites(d, s, o) ==
    {OrderDoc(x) : x \in BilledOrders(d, s, o)}
        \cup (IF s = None THEN {} ELSE {SessionDoc(s), TableDoc(d.session[s].table)})

\* The orders of S are charged on invoice i.
ChargedOn(order, S, i) ==
    [o \in Orders |-> IF o \in S THEN [order[o] EXCEPT !.invoice = i]
                      ELSE order[o]]

Finalized(d, S, s, i, due) ==
    LET status == IF due = 0 THEN "closed" ELSE "billed"
        marked == [d EXCEPT !.order = ChargedOn(Marked(@, S, status), S, i)]
    IN  IF s = None THEN marked
        ELSE [marked EXCEPT
               !.session[s].status  = status,
               !.session[s].invoice = i,
               !.session[s].version = @ + 1,
               !.table[d.session[s].table].session = IF due = 0 THEN None ELSE s,
               !.table[d.session[s].table].shown   = IF due = 0 THEN "none"
                                                     ELSE "billed"]

(***************************************************************************)
(* POST cafe/billing/(table-sessions|orders)/:id/bill: loadCafeBill and    *)
(* checkout.  `paid' is what is paid at once, the rest goes on credit.     *)
(***************************************************************************)
Charged(t) == BilledOrders(t.snap, t.op.session, t.op.order)

BillAllowed(t) ==
    /\ \A i \in Invoices : t.snap.invoice[i].request # t.op.id
    /\ IF t.op.session # None
       THEN t.snap.session[t.op.session].status \in {"open", "bill_requested"}
       ELSE /\ t.snap.order[t.op.order].session = None
            /\ t.snap.order[t.op.order].status \notin Dropped
    /\ Charged(t) # {}
    /\ \A o \in Charged(t) : /\ t.snap.order[o].status \in Eligible
                             /\ t.snap.order[o].invoice = None
    /\ t.op.paid <= Cardinality(Charged(t))
    /\ t.snap.lastInvoice < MaxInvoice

BillWrites(t) ==
    {BranchDoc, InvoiceDoc(t.snap.lastInvoice + 1)}
        \cup FinalWrites(t.snap, t.op.session, t.op.order)

BillEffect(t) ==
    LET i   == t.snap.lastInvoice + 1
        s   == t.op.session
        due == Cardinality(Charged(t)) - t.op.paid
        issued == [db EXCEPT
                    !.lastInvoice = i,
                    !.invoice[i]  =
                      [status |-> IF due = 0 THEN "paid" ELSE "unpaid",
                       due |-> due, orders |-> Charged(t), session |-> s,
                       order |-> t.op.order, request |-> t.op.id,
                       version |-> IF s = None THEN 0
                                   ELSE t.snap.session[s].version]]
    IN  Finalized(issued, Charged(t), s, i, due)

(***************************************************************************)
(* POST cafe/billing/invoices/:id/payments: collect on an unpaid bill.     *)
(***************************************************************************)
Collected(t) ==
    LET invoice == t.snap.invoice[t.op.invoice]
    IN  BilledOrders(t.snap, invoice.session, invoice.order)

CollectAllowed(t) ==
    /\ OpKey(t.op) \notin t.snap.opkeys
    /\ t.snap.invoice[t.op.invoice].status \in {"unpaid", "paid"}
    /\ t.op.amount <= t.snap.invoice[t.op.invoice].due

CollectWrites(t) ==
    {BranchDoc, InvoiceDoc(t.op.invoice), KeyDoc(t.op)}
        \cup FinalWrites(t.snap, t.snap.invoice[t.op.invoice].session,
                         t.snap.invoice[t.op.invoice].order)

CollectEffect(t) ==
    LET i   == t.op.invoice
        due == t.snap.invoice[i].due - t.op.amount
        paid == [db EXCEPT
                  !.invoice[i].due    = due,
                  !.invoice[i].status = IF due = 0 THEN "paid" ELSE "unpaid",
                  !.opkeys            = @ \cup {OpKey(t.op)}]
    IN  Finalized(paid, Collected(t), t.snap.invoice[i].session, i, due)

(***************************************************************************)
(* POST governance/voids/invoices/:id.  The floor is not told.             *)
(***************************************************************************)
VoidAllowed(t) ==
    /\ OpKey(t.op) \notin t.snap.opkeys
    /\ t.snap.invoice[t.op.invoice].status \in {"unpaid", "paid"}

VoidWrites(t) == {BranchDoc, InvoiceDoc(t.op.invoice), KeyDoc(t.op)}

VoidEffect(t) ==
    [db EXCEPT !.invoice[t.op.invoice].status = "cancelled",
               !.invoice[t.op.invoice].due    = 0,
               !.opkeys                       = @ \cup {OpKey(t.op)}]

-----------------------------------------------------------------------------
(***************************************************************************)
(* Tables: PUT cafe/tables/:id (catalog), deactivate, and the QR tokens.   *)
(***************************************************************************)
LiveTokens(d, t) == {k \in Tokens : d.token[k].table = t /\ d.token[k].status = "live"}
TokensOf(d, t)   == {k \in Tokens : d.token[k].table = t}
Revoked(token, S) == [k \in Tokens |-> IF k \in S
                                       THEN [token[k] EXCEPT !.status = "revoked"]
                                       ELSE token[k]]

\* The catalog's update sets is_active and looks at nothing else.
EditAllowed(t) == TRUE
EditWrites(t)  == {TableDoc(t.op.table)}
EditEffect(t)  == [db EXCEPT !.table[t.op.table].is_active = t.op.active]

DeactivateAllowed(t) == t.snap.table[t.op.table].session = None

DeactivateWrites(t) ==
    {TableDoc(t.op.table)} \cup {TokenDoc(k) : k \in TokensOf(t.snap, t.op.table)}

DeactivateEffect(t) ==
    [db EXCEPT !.table[t.op.table].is_active = FALSE,
               !.table[t.op.table].qr        = FALSE,
               !.token = Revoked(@, TokensOf(t.snap, t.op.table))]

\* The table was read, and found active, before the transaction.
RotateAllowed(t) == t.snap.lastToken < MaxToken

RotateWrites(t) ==
    {TableDoc(t.op.table), TokenCounter, TokenDoc(t.snap.lastToken + 1)}
        \cup {TokenDoc(k) : k \in LiveTokens(t.snap, t.op.table)}

RotateEffect(t) ==
    LET k == t.snap.lastToken + 1
    IN  [db EXCEPT
          !.lastToken = k,
          !.token = [Revoked(@, LiveTokens(t.snap, t.op.table)) EXCEPT
                       ![k] = [table |-> t.op.table, status |-> "live"]],
          !.table[t.op.table].qr = TRUE]

RevokeAllowed(t) == TRUE

RevokeWrites(t) ==
    {TableDoc(t.op.table)} \cup {TokenDoc(k) : k \in LiveTokens(t.snap, t.op.table)}

RevokeEffect(t) ==
    [db EXCEPT !.token = Revoked(@, LiveTokens(t.snap, t.op.table)),
               !.table[t.op.table].qr = FALSE]

-----------------------------------------------------------------------------
(***************************************************************************)
(* What is read before the transaction: the access of a guest (guest) and  *)
(* the table of a QR token to rotate or to revoke (qrRoutes).              *)
(***************************************************************************)
GuestAllowed(session, token) ==
    LET table == db.table[db.session[session].table]
    IN  /\ <<token, session>> \in db.access
        /\ db.session[session].status \in LiveStatus
        /\ table.is_active /\ table.qr
        /\ db.token[token].status = "live"

Outside(r) == \/ r.kind \in {"order", "ask"} /\ r.token # None
              \/ r.kind \in {"rotate", "revoke"}

OutsideAllowed(r) ==
    IF r.kind \in {"order", "ask"} THEN GuestAllowed(r.session, r.token)
    ELSE db.table[r.table].is_active

Arrive(h) ==
    /\ h \notin DOMAIN arrived \cup DOMAIN run
    /\ \E r \in Requests :
          /\ Outside(r) /\ OutsideAllowed(r)
          /\ arrived' = [g \in DOMAIN arrived \cup {h} |->
                           IF g = h THEN r ELSE arrived[g]]
    /\ UNCHANGED <<db, run, quoted>>

\* A transaction, or the driver's retry of one that met a conflict.
Begin(h) ==
    /\ h \notin DOMAIN run
    /\ \E r \in Requests :
          /\ r.kind # "quote"
          /\ IF h \in DOMAIN arrived THEN r = arrived[h] ELSE ~Outside(r)
          /\ OpenTxn(h, r, 0)
    /\ UNCHANGED <<db, arrived, quoted>>

Forget(h) == arrived' = [g \in DOMAIN arrived \ {h} |-> arrived[g]]

\* The handler h runs is of this kind, its checks pass and it commits.
Execute(h, kind, Allowed(_), Writes(_), Effect(_)) ==
    /\ h \in DOMAIN run
    /\ run[h].op.kind = kind
    /\ Allowed(run[h])
    /\ CommitTxn(h, Writes(run[h]), Effect(run[h]))
    /\ Forget(h)
    /\ UNCHANGED quoted

OpenSession(h) == Execute(h, "open", OpenAllowed, OpenWrites, OpenEffect)

\* Whether the guest's token is still live by now is not looked at again.
PlaceOrder(h) == Execute(h, "order", OrderAllowed, OrderWrites, OrderEffect)

MoveOrder(h) == Execute(h, "move", MoveAllowed, MoveWrites, MoveEffect)

RequestBill(h) == Execute(h, "ask", AskAllowed, AskWrites, AskEffect)

CloseSession(h) == Execute(h, "close", CloseAllowed, CloseWrites, CloseEffect)

BillSource(h) == Execute(h, "bill", BillAllowed, BillWrites, BillEffect)

CollectBill(h) == Execute(h, "collect", CollectAllowed, CollectWrites, CollectEffect)

VoidBill(h) == Execute(h, "void", VoidAllowed, VoidWrites, VoidEffect)

EditTable(h) == Execute(h, "edit", EditAllowed, EditWrites, EditEffect)

DeactivateTable(h) == Execute(h, "deactivate", DeactivateAllowed, DeactivateWrites, DeactivateEffect)

RotateQr(h) == Execute(h, "rotate", RotateAllowed, RotateWrites, RotateEffect)

RevokeQr(h) == Execute(h, "revoke", RevokeAllowed, RevokeWrites, RevokeEffect)

\* A refusal, a replayed key, a write conflict, a crash of the invocation.
Abandon(h) ==
    /\ h \in DOMAIN run
    /\ AbortTxn(h)
    /\ UNCHANGED <<db, arrived, quoted>>

GiveUp(h) ==
    /\ h \in DOMAIN arrived \ DOMAIN run
    /\ Forget(h)
    /\ UNCHANGED <<db, run, quoted>>

(***************************************************************************)
(* Outside any transaction: a guest scans a live QR code and is given      *)
(* access to the table's session (resolve); a cashier is shown the quote   *)
(* of a session that could be billed.                                      *)
(***************************************************************************)
Resolve(k) ==
    /\ db.token[k].status = "live"
    /\ LET table == db.table[db.token[k].table]
       IN  /\ table.is_active /\ table.qr
           /\ table.session # None
           /\ db' = [db EXCEPT !.access = @ \cup {<<k, table.session>>}]
    /\ UNCHANGED <<run, arrived, quoted>>

Quote(s) ==
    /\ [kind |-> "quote", session |-> s] \in Requests
    /\ db.session[s].status \in {"open", "bill_requested"}
    /\ BilledOrders(db, s, None) # {}
    /\ \A o \in BilledOrders(db, s, None) : db.order[o].status \in Eligible
    /\ quoted' = [quoted EXCEPT ![s] = @ \cup
                    {[version |-> db.session[s].version,
                      orders  |-> BilledOrders(db, s, None)]}]
    /\ UNCHANGED <<db, run, arrived>>

Step(h) ==
    \/ Arrive(h) \/ Begin(h) \/ Abandon(h) \/ GiveUp(h)
    \/ OpenSession(h) \/ PlaceOrder(h) \/ MoveOrder(h) \/ RequestBill(h)
    \/ CloseSession(h) \/ BillSource(h) \/ CollectBill(h) \/ VoidBill(h)
    \/ EditTable(h) \/ DeactivateTable(h) \/ RotateQr(h) \/ RevokeQr(h)

Next ==
    \/ \E h \in Handlers : Step(h)
    \/ \E k \in Tokens : Resolve(k)
    \/ \E s \in Sessions : Quote(s)

Spec == Init /\ [][Next]_vars

-----------------------------------------------------------------------------
(***************************************************************************)
(* Properties.                                                             *)
(***************************************************************************)
FloorType ==
    [table: [Tables -> [is_active: BOOLEAN, session: Sessions \cup {None},
                        shown: LiveStatus \cup {"none"}, qr: BOOLEAN]],
     session: [Sessions -> [table: Tables \cup {None}, status: SessionStatus,
                            version: Nat, invoice: Invoices \cup {None}]],
     order: [Orders -> [session: Sessions \cup {None}, status: OrderStatus,
                        invoice: Invoices \cup {None}, request: Nat]],
     invoice: [Invoices -> [status: BillStatus, due: Nat, orders: SUBSET Orders,
                            session: Sessions \cup {None},
                            order: Orders \cup {None}, version: Nat,
                            request: Nat]],
     token: [Tokens -> [table: Tables \cup {None}, status: TokenStatus]],
     access: SUBSET (Tokens \X Sessions),
     opkeys: SUBSET ({"order", "collect", "void"} \X RequestId),
     lastSession: 0..MaxSession, lastOrder: 0..MaxOrder,
     lastInvoice: 0..MaxInvoice, lastToken: 0..MaxToken]

\* The shape of the state.
TypeOK ==
    /\ db \in FloorType
    /\ DOMAIN run \subseteq Handlers
    /\ \A h \in DOMAIN run : run[h].op \in Requests /\ run[h].snap \in FloorType
    /\ DOMAIN arrived \subseteq Handlers
    /\ \A h \in DOMAIN arrived : arrived[h] \in Requests
    /\ quoted \in [Sessions -> SUBSET [version: Nat, orders: SUBSET Orders]]

\* A table points to its one live session and shows that session's status,
\* although opening, asking, billing, collecting and closing each rewrite the
\* table from their own transaction; a table without a session has no live
\* one left behind.
TableShowsItsSession ==
    \A t \in Tables :
        LET live == {s \in Sessions : db.session[s].table = t
                                      /\ db.session[s].status \in LiveStatus}
        IN  IF db.table[t].session = None
            THEN live = {} /\ db.table[t].shown = "none"
            ELSE /\ live = {db.table[t].session}
                 /\ db.table[t].shown = db.session[db.table[t].session].status

\* A guest or a waiter who asks for the bill freezes the session: no order is
\* still being prepared and none arrives, until the bill is made.
NothingArrivesAfterTheBillIsAsked ==
    \A s \in Sessions :
        db.session[s].status = "bill_requested" =>
            \A o \in OrdersOf(db, s) :
                db.order[o].status \in Dropped \cup {"bill_requested"}

\* The bill of a session charges every order of it that was not rejected or
\* cancelled and no other, and from then on these orders, the session and the
\* bill move together: none is cancelled, added or left unbilled.
BillCoversItsSession ==
    \A i \in Invoices :
        LET invoice == db.invoice[i]
            s       == invoice.session
        IN  invoice.status # "none" =>
              /\ invoice.orders = BilledOrders(db, s, invoice.order)
              /\ \A o \in invoice.orders : db.order[o].invoice = i
              /\ invoice.status # "cancelled" =>
                   \A o \in invoice.orders :
                      db.order[o].status = IF invoice.due = 0 THEN "closed" ELSE "billed"
              /\ s # None =>
                   /\ db.session[s].invoice = i
                   /\ \A o \in invoice.orders :
                        db.order[o].status = db.session[s].status

\* A guest's order that is sent again (lost reply, double tap, two phones) is
\* stored once.
GuestOrdersAreStoredOnce ==
    \A r \in Requests :
        r.kind = "order" /\ r.token # None =>
            Cardinality({o \in Orders : db.order[o].request = r.id}) <= 1

\* A customer is never charged for an order that was not in the quote the
\* cashier billed from: whatever is ordered in between changes the version.
ChargedWithinQuote ==
    \A s \in Sessions : \A q \in quoted[s] : \A i \in Invoices :
        (db.invoice[i].session = s /\ db.invoice[i].version = q.version)
            => db.invoice[i].orders \subseteq q.orders

(***************************************************************************)
(* Serialisability: `Alone(t)' is t run by itself on the database as it is *)
(* when t commits.                                                         *)
(***************************************************************************)
Alone(t) == [t EXCEPT !.snap = db]

SerialStep(h) ==
    LET a == Alone(run[h])
    IN  /\ OpenSession(h)  => OpenAllowed(a) /\ db' = OpenEffect(a)
        /\ PlaceOrder(h)   => OrderAllowed(a) /\ db' = OrderEffect(a)
        /\ MoveOrder(h)    => MoveAllowed(a) /\ db' = MoveEffect(a)
        /\ RequestBill(h)  => AskAllowed(a) /\ db' = AskEffect(a)
        /\ CloseSession(h) => CloseAllowed(a) /\ db' = CloseEffect(a)
        /\ BillSource(h)   => BillAllowed(a) /\ db' = BillEffect(a)
        /\ CollectBill(h)  => CollectAllowed(a) /\ db' = CollectEffect(a)
        /\ VoidBill(h)     => VoidAllowed(a) /\ db' = VoidEffect(a)
        /\ DeactivateTable(h) => DeactivateAllowed(a) /\ db' = DeactivateEffect(a)
        /\ RotateQr(h)     => RotateAllowed(a) /\ db' = RotateEffect(a)
        /\ RevokeQr(h)     => RevokeAllowed(a) /\ db' = RevokeEffect(a)

\* The documents each handler writes protect the ones it only reads, above all
\* the orders of a session: whoever adds one also writes the session.  Every
\* commit does what it would have done alone at that moment.
FloorIsSerial == [][\A h \in DOMAIN run : SerialStep(h)]_vars
=============================================================================
