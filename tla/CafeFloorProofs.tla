------------------------------ MODULE CafeFloorProofs -----------------------
(***************************************************************************)
(* Types of the cafe floor, for every set of requests, handlers and        *)
(* tables.  The ...Delta lemmas say, field by field, what a commit makes   *)
(* of the database; the later proofs use them and not the effects.         *)
(***************************************************************************)
EXTENDS CafeFloor, FiniteSetTheorems, TLAPS

TableType   == [is_active: BOOLEAN, session: Sessions \cup {None},
                shown: LiveStatus \cup {"none"}, qr: BOOLEAN]
SessionType == [table: Tables \cup {None}, status: SessionStatus,
                version: Nat, invoice: Invoices \cup {None}]
OrderType   == [session: Sessions \cup {None}, status: OrderStatus,
                invoice: Invoices \cup {None}, request: Nat]
BillType    == [status: BillStatus, due: Nat, orders: SUBSET Orders,
                session: Sessions \cup {None}, order: Orders \cup {None},
                version: Nat, request: Nat]
TokenType   == [table: Tables \cup {None}, status: TokenStatus]

HasFields(d) ==
    /\ d.table \in [Tables -> TableType]
    /\ d.session \in [Sessions -> SessionType]
    /\ d.order \in [Orders -> OrderType]
    /\ d.invoice \in [Invoices -> BillType]
    /\ d.token \in [Tokens -> TokenType]
    /\ d.access \subseteq (Tokens \X Sessions)
    /\ d.opkeys \subseteq ({"order", "collect", "void"} \X RequestId)
    /\ d.lastSession \in 0..MaxSession /\ d.lastOrder \in 0..MaxOrder
    /\ d.lastInvoice \in 0..MaxInvoice /\ d.lastToken \in 0..MaxToken

IsRecord(d) ==
    d = [table |-> d.table, session |-> d.session, order |-> d.order,
         invoice |-> d.invoice, token |-> d.token, access |-> d.access,
         opkeys |-> d.opkeys, lastSession |-> d.lastSession,
         lastOrder |-> d.lastOrder, lastInvoice |-> d.lastInvoice,
         lastToken |-> d.lastToken]

LEMMA FloorFields ==
    ASSUME NEW d \in FloorType
    PROVE  HasFields(d) /\ IsRecord(d)
  BY DEF FloorType, HasFields, IsRecord, TableType, SessionType, OrderType,
         BillType, TokenType

LEMMA FloorIntro ==
    ASSUME NEW d, IsRecord(d), HasFields(d)
    PROVE  d \in FloorType
  BY DEF FloorType, HasFields, IsRecord, TableType, SessionType, OrderType,
         BillType, TokenType


LEMMA KindOf ==
    ASSUME NEW r \in Requests
    PROVE  /\ r.kind = "open" => r \in OpenRequests
           /\ r.kind = "order" => r \in OrderRequests
           /\ r.kind = "move" => r \in MoveRequests
           /\ r.kind = "ask" => r \in AskRequests
           /\ r.kind = "close" => r \in CloseRequests
           /\ r.kind = "bill" => r \in BillRequests
           /\ r.kind = "collect" => r \in CollectRequests
           /\ r.kind = "void" => r \in VoidRequests
           /\ r.kind = "edit" => r \in EditRequests
           /\ r.kind \in {"deactivate", "rotate", "revoke"} => r \in TableRequests
  BY FloorRequestAssumption
  DEF OpenRequests, OrderRequests, MoveRequests, AskRequests, CloseRequests,
      BillRequests, CollectRequests, VoidRequests, EditRequests, TableRequests,
      QuoteRequests

-----------------------------------------------------------------------------
(* What a commit of t leaves: the database d, field by field.             *)

OpenLeaves(t, d) ==
    LET s == t.snap.lastSession + 1 IN
    /\ d.lastSession = s
    /\ d.session = [db.session EXCEPT ![s] =
          [table |-> t.op.table, status |-> "open", version |-> 1,
           invoice |-> None]]
    /\ d.table = [db.table EXCEPT ![t.op.table] =
          [db.table[t.op.table] EXCEPT !.session = s, !.shown = "open"]]
    /\ d.order = db.order /\ d.invoice = db.invoice /\ d.token = db.token
    /\ d.access = db.access /\ d.opkeys = db.opkeys
    /\ d.lastOrder = db.lastOrder /\ d.lastInvoice = db.lastInvoice
    /\ d.lastToken = db.lastToken
    /\ IsRecord(d)

OrderLeaves(t, d) ==
    LET o == t.snap.lastOrder + 1
        s == t.op.session IN
    /\ d.lastOrder = o
    /\ d.order = [db.order EXCEPT ![o] =
          [session |-> s, status |-> "placed", invoice |-> None,
           request |-> t.op.id]]
    /\ d.session = IF s = None THEN db.session
                   ELSE [db.session EXCEPT ![s] =
                           [db.session[s] EXCEPT !.version = @ + 1]]
    /\ d.opkeys = IF t.op.token = None THEN db.opkeys
                  ELSE db.opkeys \cup {OpKey(t.op)}
    /\ d.table = db.table /\ d.invoice = db.invoice /\ d.token = db.token
    /\ d.access = db.access
    /\ d.lastSession = db.lastSession /\ d.lastInvoice = db.lastInvoice
    /\ d.lastToken = db.lastToken
    /\ IsRecord(d)

MoveLeaves(t, d) ==
    /\ d.order = [db.order EXCEPT ![t.op.order] =
          [db.order[t.op.order] EXCEPT !.status = MovesTo[t.op.move]]]
    /\ d.table = db.table /\ d.session = db.session
    /\ d.invoice = db.invoice /\ d.token = db.token
    /\ d.access = db.access /\ d.opkeys = db.opkeys
    /\ d.lastSession = db.lastSession /\ d.lastOrder = db.lastOrder
    /\ d.lastInvoice = db.lastInvoice /\ d.lastToken = db.lastToken
    /\ IsRecord(d)

AskLeaves(t, d) ==
    LET s  == t.op.session
        tb == t.snap.session[s].table IN
    /\ d.session = [db.session EXCEPT ![s] =
          [db.session[s] EXCEPT !.status = "bill_requested", !.version = @ + 1]]
    /\ d.table = [db.table EXCEPT ![tb] =
          [db.table[tb] EXCEPT !.shown = "bill_requested"]]
    /\ d.order = Marked(db.order, AskedOrders(t), "bill_requested")
    /\ d.invoice = db.invoice /\ d.token = db.token
    /\ d.access = db.access /\ d.opkeys = db.opkeys
    /\ d.lastSession = db.lastSession /\ d.lastOrder = db.lastOrder
    /\ d.lastInvoice = db.lastInvoice /\ d.lastToken = db.lastToken
    /\ IsRecord(d)

CloseLeaves(t, d) ==
    LET s  == t.op.session
        tb == t.snap.session[s].table IN
    /\ d.session = [db.session EXCEPT ![s] =
          [db.session[s] EXCEPT
             !.status = IF t.op.cancel THEN "cancelled" ELSE "closed",
             !.version = @ + 1]]
    /\ d.table = [db.table EXCEPT ![tb] =
          [db.table[tb] EXCEPT !.session = None, !.shown = "none"]]
    /\ d.order = db.order /\ d.invoice = db.invoice /\ d.token = db.token
    /\ d.access = db.access /\ d.opkeys = db.opkeys
    /\ d.lastSession = db.lastSession /\ d.lastOrder = db.lastOrder
    /\ d.lastInvoice = db.lastInvoice /\ d.lastToken = db.lastToken
    /\ IsRecord(d)

FinalizedLeaves(e, S, s, i, due, d) ==
    LET status == IF due = 0 THEN "closed" ELSE "billed"
        tb == e.session[s].table IN
    /\ d.order = ChargedOn(Marked(e.order, S, status), S, i)
    /\ d.session = IF s = None THEN e.session
                   ELSE [e.session EXCEPT ![s] =
                           [e.session[s] EXCEPT !.status = status,
                              !.invoice = i, !.version = @ + 1]]
    /\ d.table = IF s = None THEN e.table
                 ELSE [e.table EXCEPT ![tb] =
                         [e.table[tb] EXCEPT
                            !.session = IF due = 0 THEN None ELSE s,
                            !.shown = IF due = 0 THEN "none" ELSE "billed"]]
    /\ d.invoice = e.invoice /\ d.token = e.token
    /\ d.access = e.access /\ d.opkeys = e.opkeys
    /\ d.lastSession = e.lastSession /\ d.lastOrder = e.lastOrder
    /\ d.lastInvoice = e.lastInvoice /\ d.lastToken = e.lastToken
    /\ IsRecord(d)

VoidLeaves(t, d) ==
    /\ d.invoice = [db.invoice EXCEPT ![t.op.invoice] =
          [db.invoice[t.op.invoice] EXCEPT !.status = "cancelled", !.due = 0]]
    /\ d.opkeys = db.opkeys \cup {OpKey(t.op)}
    /\ d.table = db.table /\ d.session = db.session /\ d.order = db.order
    /\ d.token = db.token /\ d.access = db.access
    /\ d.lastSession = db.lastSession /\ d.lastOrder = db.lastOrder
    /\ d.lastInvoice = db.lastInvoice /\ d.lastToken = db.lastToken
    /\ IsRecord(d)

EditLeaves(t, d) ==
    /\ d.table = [db.table EXCEPT ![t.op.table] =
          [db.table[t.op.table] EXCEPT !.is_active = t.op.active]]
    /\ d.session = db.session /\ d.order = db.order /\ d.invoice = db.invoice
    /\ d.token = db.token /\ d.access = db.access /\ d.opkeys = db.opkeys
    /\ d.lastSession = db.lastSession /\ d.lastOrder = db.lastOrder
    /\ d.lastInvoice = db.lastInvoice /\ d.lastToken = db.lastToken
    /\ IsRecord(d)

DeactivateLeaves(t, d) ==
    /\ d.table = [db.table EXCEPT ![t.op.table] =
          [db.table[t.op.table] EXCEPT !.is_active = FALSE, !.qr = FALSE]]
    /\ d.token = Revoked(db.token, TokensOf(t.snap, t.op.table))
    /\ d.session = db.session /\ d.order = db.order /\ d.invoice = db.invoice
    /\ d.access = db.access /\ d.opkeys = db.opkeys
    /\ d.lastSession = db.lastSession /\ d.lastOrder = db.lastOrder
    /\ d.lastInvoice = db.lastInvoice /\ d.lastToken = db.lastToken
    /\ IsRecord(d)

RotateLeaves(t, d) ==
    LET k == t.snap.lastToken + 1 IN
    /\ d.lastToken = k
    /\ d.token = [Revoked(db.token, LiveTokens(t.snap, t.op.table)) EXCEPT
                    ![k] = [table |-> t.op.table, status |-> "live"]]
    /\ d.table = [db.table EXCEPT ![t.op.table] =
          [db.table[t.op.table] EXCEPT !.qr = TRUE]]
    /\ d.session = db.session /\ d.order = db.order /\ d.invoice = db.invoice
    /\ d.access = db.access /\ d.opkeys = db.opkeys
    /\ d.lastSession = db.lastSession /\ d.lastOrder = db.lastOrder
    /\ d.lastInvoice = db.lastInvoice
    /\ IsRecord(d)

RevokeLeaves(t, d) ==
    /\ d.table = [db.table EXCEPT ![t.op.table] =
          [db.table[t.op.table] EXCEPT !.qr = FALSE]]
    /\ d.token = Revoked(db.token, LiveTokens(t.snap, t.op.table))
    /\ d.session = db.session /\ d.order = db.order /\ d.invoice = db.invoice
    /\ d.access = db.access /\ d.opkeys = db.opkeys
    /\ d.lastSession = db.lastSession /\ d.lastOrder = db.lastOrder
    /\ d.lastInvoice = db.lastInvoice /\ d.lastToken = db.lastToken
    /\ IsRecord(d)

LEMMA OpenDelta ==
    ASSUME NEW t, db \in FloorType, t.snap.lastSession + 1 \in Sessions,
           t.op.table \in Tables, NEW d, d = OpenEffect(t)
    PROVE  OpenLeaves(t, d)
  BY DEF OpenLeaves, OpenEffect, IsRecord, FloorType

LEMMA OrderDelta ==
    ASSUME NEW t, db \in FloorType, t.snap.lastOrder + 1 \in Orders,
           NEW d, d = OrderEffect(t)
    PROVE  OrderLeaves(t, d)
  BY DEF OrderLeaves, OrderEffect, IsRecord, FloorType

LEMMA MoveDelta ==
    ASSUME NEW t, db \in FloorType, t.op.order \in Orders, NEW d, d = MoveEffect(t)
    PROVE  MoveLeaves(t, d)
  BY DEF MoveLeaves, MoveEffect, IsRecord, FloorType

LEMMA AskDelta ==
    ASSUME NEW t, db \in FloorType, t.op.session \in Sessions, NEW d, d = AskEffect(t)
    PROVE  AskLeaves(t, d)
  BY DEF AskLeaves, AskEffect, IsRecord, FloorType

LEMMA CloseDelta ==
    ASSUME NEW t, db \in FloorType, t.op.session \in Sessions, NEW d, d = CloseEffect(t)
    PROVE  CloseLeaves(t, d)
  <1>1. IsRecord(db) /\ db.session \in [Sessions -> SessionType]
    BY FloorFields DEF HasFields
  <1>2. db.session[t.op.session] \in SessionType
    BY <1>1
  <1>3. /\ IsRecord(d)
        /\ d.order = db.order /\ d.invoice = db.invoice /\ d.token = db.token
        /\ d.access = db.access /\ d.opkeys = db.opkeys
        /\ d.lastSession = db.lastSession /\ d.lastOrder = db.lastOrder
        /\ d.lastInvoice = db.lastInvoice /\ d.lastToken = db.lastToken
    BY <1>1 DEF CloseEffect, IsRecord
  <1>4. d.session = [db.session EXCEPT ![t.op.session] =
                 [db.session[t.op.session] EXCEPT
                    !.status = IF t.op.cancel THEN "cancelled" ELSE "closed",
                    !.version = @ + 1]]
    BY <1>1, <1>2 DEF CloseEffect, IsRecord, SessionType
  <1>5. d.table = [db.table EXCEPT ![t.snap.session[t.op.session].table] =
                 [db.table[t.snap.session[t.op.session].table] EXCEPT
                    !.session = None, !.shown = "none"]]
    BY <1>1 DEF CloseEffect, IsRecord
  <1> QED BY <1>3, <1>4, <1>5 DEF CloseLeaves

LEMMA FinalizedDelta ==
    ASSUME NEW e \in FloorType, NEW S, NEW s, NEW i, NEW due,
           NEW d, d = Finalized(e, S, s, i, due)
    PROVE  FinalizedLeaves(e, S, s, i, due, d)
  <1>1. IsRecord(e)
    BY FloorFields
  <1>2. CASE s = None
    BY <1>1, <1>2 DEF FinalizedLeaves, Finalized, IsRecord
  <1>3. CASE s # None
    <2> DEFINE status == IF due = 0 THEN "closed" ELSE "billed"
               tb == e.session[s].table
    <2>1. /\ IsRecord(d)
          /\ d.invoice = e.invoice /\ d.token = e.token
          /\ d.access = e.access /\ d.opkeys = e.opkeys
          /\ d.lastSession = e.lastSession /\ d.lastOrder = e.lastOrder
          /\ d.lastInvoice = e.lastInvoice /\ d.lastToken = e.lastToken
      BY <1>1, <1>3 DEF Finalized, IsRecord
    <2>2. d.order = ChargedOn(Marked(e.order, S, status), S, i)
      BY <1>1, <1>3 DEF Finalized, IsRecord
    <2>3. d.session = [e.session EXCEPT ![s] =
                         [e.session[s] EXCEPT !.status = status,
                            !.invoice = i, !.version = @ + 1]]
      <3>1. e.session[s] \in SessionType \/ s \notin Sessions
        BY FloorFields DEF HasFields
      <3> QED BY <1>1, <1>3, <3>1 DEF Finalized, IsRecord, SessionType
    <2>4. d.table = [e.table EXCEPT ![tb] =
                       [e.table[tb] EXCEPT
                          !.session = IF due = 0 THEN None ELSE s,
                          !.shown = IF due = 0 THEN "none" ELSE "billed"]]
      BY <1>1, <1>3 DEF Finalized, IsRecord
    <2> QED BY <1>3, <2>1, <2>2, <2>3, <2>4 DEF FinalizedLeaves
  <1> QED BY <1>2, <1>3

LEMMA VoidDelta ==
    ASSUME NEW t, db \in FloorType, t.op.invoice \in Invoices,
           NEW d, d = VoidEffect(t)
    PROVE  VoidLeaves(t, d)
  BY DEF VoidLeaves, VoidEffect, IsRecord, FloorType

LEMMA EditDelta ==
    ASSUME NEW t, db \in FloorType, t.op.table \in Tables, NEW d, d = EditEffect(t)
    PROVE  EditLeaves(t, d)
  BY DEF EditLeaves, EditEffect, IsRecord, FloorType

LEMMA DeactivateDelta ==
    ASSUME NEW t, db \in FloorType, t.op.table \in Tables,
           NEW d, d = DeactivateEffect(t)
    PROVE  DeactivateLeaves(t, d)
  BY DEF DeactivateLeaves, DeactivateEffect, IsRecord, FloorType

LEMMA RotateDelta ==
    ASSUME NEW t, db \in FloorType, t.op.table \in Tables,
           t.snap.lastToken + 1 \in Tokens, NEW d, d = RotateEffect(t)
    PROVE  RotateLeaves(t, d)
  BY DEF RotateLeaves, RotateEffect, IsRecord, FloorType

LEMMA RevokeDelta ==
    ASSUME NEW t, db \in FloorType, t.op.table \in Tables,
           NEW d, d = RevokeEffect(t)
    PROVE  RevokeLeaves(t, d)
  BY DEF RevokeLeaves, RevokeEffect, IsRecord, FloorType

-----------------------------------------------------------------------------
(* What a handler leaves is a database.                                    *)

LEMMA Updated ==
    ASSUME NEW D, NEW T, NEW f \in [D -> T], NEW x, NEW v, x \in D => v \in T
    PROVE  [f EXCEPT ![x] = v] \in [D -> T]
  OBVIOUS

LEMMA MarkedType ==
    ASSUME NEW order \in [Orders -> OrderType], NEW S, NEW status \in OrderStatus
    PROVE  Marked(order, S, status) \in [Orders -> OrderType]
  BY DEF Marked, OrderType

LEMMA ChargedOnType ==
    ASSUME NEW order \in [Orders -> OrderType], NEW S, NEW i \in Invoices
    PROVE  ChargedOn(order, S, i) \in [Orders -> OrderType]
  BY DEF ChargedOn, OrderType

LEMMA RevokedType ==
    ASSUME NEW token \in [Tokens -> TokenType], NEW S
    PROVE  Revoked(token, S) \in [Tokens -> TokenType]
  BY DEF Revoked, TokenType, TokenStatus

LEMMA SessionEdit ==
    ASSUME NEW x \in SessionType, NEW st \in SessionStatus,
           NEW i \in Invoices \cup {None}
    PROVE  /\ [x EXCEPT !.version = @ + 1] \in SessionType
           /\ [x EXCEPT !.status = st, !.version = @ + 1] \in SessionType
           /\ [x EXCEPT !.status = st, !.invoice = i, !.version = @ + 1]
                \in SessionType
  <1>1. x.version + 1 \in Nat
    BY DEF SessionType
  <1>2. \A n \in Nat : [x EXCEPT !.version = n] \in SessionType
    BY DEF SessionType
  <1>3. \A n \in Nat : [x EXCEPT !.status = st, !.version = n] \in SessionType
    BY DEF SessionType
  <1>4. \A n \in Nat : [x EXCEPT !.status = st, !.invoice = i, !.version = n]
                           \in SessionType
    BY DEF SessionType
  <1> QED BY <1>1, <1>2, <1>3, <1>4

LEMMA TableEdit ==
    ASSUME NEW x \in TableType, NEW s \in Sessions \cup {None},
           NEW shown \in LiveStatus \cup {"none"}
    PROVE  /\ [x EXCEPT !.shown = shown] \in TableType
           /\ [x EXCEPT !.session = s, !.shown = shown] \in TableType
  BY DEF TableType

LEMMA TableFlags ==
    ASSUME NEW x \in TableType, NEW active \in BOOLEAN, NEW qr \in BOOLEAN
    PROVE  /\ [x EXCEPT !.is_active = active] \in TableType
           /\ [x EXCEPT !.qr = qr] \in TableType
           /\ [x EXCEPT !.is_active = active, !.qr = qr] \in TableType
  BY DEF TableType

LEMMA FinalizedType ==
    ASSUME NEW e \in FloorType, NEW S, NEW s \in Sessions \cup {None},
           NEW i \in Invoices, NEW due
    PROVE  Finalized(e, S, s, i, due) \in FloorType
  <1> SUFFICES ASSUME NEW d, d = Finalized(e, S, s, i, due)
               PROVE  d \in FloorType
    OBVIOUS
  <1>1. HasFields(e)
    BY FloorFields
  <1>2. FinalizedLeaves(e, S, s, i, due, d)
    BY FinalizedDelta
  <1>3. d.order \in [Orders -> OrderType]
    <2>1. \/ d.order = ChargedOn(Marked(e.order, S, "closed"), S, i)
          \/ d.order = ChargedOn(Marked(e.order, S, "billed"), S, i)
      BY <1>2 DEF FinalizedLeaves
    <2> QED BY <1>1, <2>1, MarkedType, ChargedOnType DEF HasFields, OrderStatus
  <1>4. d.session \in [Sessions -> SessionType]
    <2> DEFINE r == [e.session[s] EXCEPT
                       !.status = IF due = 0 THEN "closed" ELSE "billed",
                       !.invoice = i, !.version = @ + 1]
    <2>1. d.session \in {e.session, [e.session EXCEPT ![s] = r]}
      BY <1>2 DEF FinalizedLeaves
    <2>2. s \in Sessions => r \in SessionType
      BY <1>1, SessionEdit DEF HasFields, SessionStatus, LiveStatus
    <2> HIDE DEF r
    <2> QED BY <1>1, <2>1, <2>2, Updated DEF HasFields
  <1>5. d.table \in [Tables -> TableType]
    <2> DEFINE tb == e.session[s].table
               r == [e.table[tb] EXCEPT
                       !.session = IF due = 0 THEN None ELSE s,
                       !.shown = IF due = 0 THEN "none" ELSE "billed"]
    <2>1. d.table \in {e.table, [e.table EXCEPT ![tb] = r]}
      BY <1>2 DEF FinalizedLeaves
    <2>2. tb \in Tables => r \in TableType
      BY <1>1 DEF HasFields, TableType, LiveStatus
    <2> HIDE DEF r, tb
    <2> QED BY <1>1, <2>1, <2>2, Updated DEF HasFields
  <1>6. HasFields(d) /\ IsRecord(d)
    BY <1>1, <1>2, <1>3, <1>4, <1>5 DEF HasFields, FinalizedLeaves
  <1> QED BY <1>6, FloorIntro

LEMMA OpenType ==
    ASSUME NEW t, db \in FloorType, t.snap \in FloorType,
           t.op \in OpenRequests, OpenAllowed(t)
    PROVE  OpenEffect(t) \in FloorType
  <1> SUFFICES ASSUME NEW d, d = OpenEffect(t)
               PROVE  d \in FloorType
    OBVIOUS
  <1> DEFINE s == t.snap.lastSession + 1
             r == [table |-> t.op.table, status |-> "open", version |-> 1,
                   invoice |-> None]
             q == [db.table[t.op.table] EXCEPT !.session = s, !.shown = "open"]
  <1>1. HasFields(db) /\ HasFields(t.snap)
    BY FloorFields
  <1>2. s \in Sessions /\ s \in 0..MaxSession /\ t.op.table \in Tables
    <2>1. t.snap.lastSession \in 0..MaxSession /\ t.snap.lastSession < MaxSession
      BY <1>1 DEF HasFields, OpenAllowed
    <2> QED BY <2>1, FloorAssumption DEF Sessions, OpenRequests
  <1>3. OpenLeaves(t, d)
    BY <1>2, OpenDelta
  <1>4. r \in SessionType /\ q \in TableType
    <2>1. r \in SessionType
      BY <1>2 DEF SessionType, SessionStatus, LiveStatus
    <2>2. db.table[t.op.table] \in TableType
      BY <1>1, <1>2 DEF HasFields
    <2> QED BY <1>2, <2>1, <2>2, TableEdit DEF LiveStatus
  <1>5. /\ d.session = [db.session EXCEPT ![s] = r]
        /\ d.table = [db.table EXCEPT ![t.op.table] = q]
    BY <1>3 DEF OpenLeaves
  <1> HIDE DEF r, q
  <1>6. d.session \in [Sessions -> SessionType] /\ d.table \in [Tables -> TableType]
    BY <1>1, <1>4, <1>5, Updated DEF HasFields
  <1>7. HasFields(d) /\ IsRecord(d)
    BY <1>1, <1>2, <1>3, <1>6 DEF HasFields, OpenLeaves
  <1> QED BY <1>7, FloorIntro

LEMMA OrderRequestType ==
    ASSUME NEW t, db \in FloorType, t.snap \in FloorType,
           t.op \in OrderRequests, OrderAllowed(t)
    PROVE  OrderEffect(t) \in FloorType
  <1> SUFFICES ASSUME NEW d, d = OrderEffect(t)
               PROVE  d \in FloorType
    OBVIOUS
  <1> DEFINE o == t.snap.lastOrder + 1
             s == t.op.session
             r == [session |-> s, status |-> "placed", invoice |-> None,
                   request |-> t.op.id]
             q == [db.session[s] EXCEPT !.version = @ + 1]
  <1>1. HasFields(db) /\ HasFields(t.snap)
    BY FloorFields
  <1>2. /\ o \in Orders /\ o \in 0..MaxOrder
        /\ s \in Sessions \cup {None} /\ t.op.id \in RequestId
        /\ t.op.kind = "order"
    <2>1. t.snap.lastOrder \in 0..MaxOrder /\ t.snap.lastOrder < MaxOrder
      BY <1>1 DEF HasFields, OrderAllowed
    <2> QED BY <2>1, FloorAssumption DEF Orders, OrderRequests
  <1>3. OrderLeaves(t, d)
    BY <1>2, OrderDelta
  <1>4. r \in OrderType /\ (s \in Sessions => q \in SessionType)
    <2>1. r \in OrderType
      BY <1>2 DEF OrderType, OrderStatus, RequestId
    <2>2. s \in Sessions => db.session[s] \in SessionType
      BY <1>1 DEF HasFields
    <2> QED BY <2>1, <2>2, SessionEdit DEF SessionStatus
  <1>5. /\ d.order = [db.order EXCEPT ![o] = r]
        /\ d.session \in {db.session, [db.session EXCEPT ![s] = q]}
        /\ d.opkeys \subseteq db.opkeys \cup {OpKey(t.op)}
    BY <1>3 DEF OrderLeaves
  <1> HIDE DEF r, q
  <1>6. d.session \in [Sessions -> SessionType] /\ d.order \in [Orders -> OrderType]
    <2>1. /\ db.session \in [Sessions -> SessionType]
          /\ db.order \in [Orders -> OrderType]
      BY <1>1 DEF HasFields
    <2>2. [db.order EXCEPT ![o] = r] \in [Orders -> OrderType]
      BY <2>1, <1>4, Updated
    <2>3. [db.session EXCEPT ![s] = q] \in [Sessions -> SessionType]
      BY <2>1, <1>4, Updated
    <2> QED BY <2>1, <2>2, <2>3, <1>5
  <1>7. d.opkeys \subseteq ({"order", "collect", "void"} \X RequestId)
    BY <1>1, <1>2, <1>5 DEF HasFields, OpKey
  <1>8. HasFields(d) /\ IsRecord(d)
    BY <1>1, <1>2, <1>3, <1>6, <1>7 DEF HasFields, OrderLeaves
  <1> QED BY <1>8, FloorIntro

LEMMA MoveType ==
    ASSUME NEW t, db \in FloorType, t.op \in MoveRequests
    PROVE  MoveEffect(t) \in FloorType
  <1> SUFFICES ASSUME NEW d, d = MoveEffect(t)
               PROVE  d \in FloorType
    OBVIOUS
  <1>1. HasFields(db)
    BY FloorFields
  <1>2. t.op.order \in Orders /\ MovesTo[t.op.move] \in OrderStatus
    BY DEF MoveRequests, Moves, MovesTo, OrderStatus
  <1>3. MoveLeaves(t, d)
    BY <1>2, MoveDelta
  <1>4. d.order \in [Orders -> OrderType]
    BY <1>1, <1>2, <1>3 DEF HasFields, OrderType, MoveLeaves
  <1>5. HasFields(d) /\ IsRecord(d)
    BY <1>1, <1>3, <1>4 DEF HasFields, MoveLeaves
  <1> QED BY <1>5, FloorIntro

LEMMA AskType ==
    ASSUME NEW t, db \in FloorType, t.op \in AskRequests
    PROVE  AskEffect(t) \in FloorType
  <1> SUFFICES ASSUME NEW d, d = AskEffect(t)
               PROVE  d \in FloorType
    OBVIOUS
  <1> DEFINE s == t.op.session
             tb == t.snap.session[s].table
             r == [db.session[s] EXCEPT !.status = "bill_requested", !.version = @ + 1]
             q == [db.table[tb] EXCEPT !.shown = "bill_requested"]
  <1>1. HasFields(db)
    BY FloorFields
  <1>2. s \in Sessions
    BY DEF AskRequests
  <1>3. AskLeaves(t, d)
    BY <1>2, AskDelta
  <1>4. r \in SessionType /\ (tb \in Tables => q \in TableType)
    <2>1. /\ db.session[s] \in SessionType
          /\ tb \in Tables => db.table[tb] \in TableType
      BY <1>1, <1>2 DEF HasFields
    <2> QED BY <2>1, SessionEdit, TableEdit DEF SessionStatus, LiveStatus
  <1>5. /\ d.session = [db.session EXCEPT ![s] = r]
        /\ d.table = [db.table EXCEPT ![tb] = q]
        /\ d.order = Marked(db.order, AskedOrders(t), "bill_requested")
    BY <1>3 DEF AskLeaves
  <1> HIDE DEF r, q, tb
  <1>6. d.session \in [Sessions -> SessionType] /\ d.table \in [Tables -> TableType]
    BY <1>1, <1>4, <1>5, Updated DEF HasFields
  <1>7. d.order \in [Orders -> OrderType]
    BY <1>1, <1>5, MarkedType DEF HasFields, OrderStatus
  <1>8. HasFields(d) /\ IsRecord(d)
    BY <1>1, <1>3, <1>6, <1>7 DEF HasFields, AskLeaves
  <1> QED BY <1>8, FloorIntro

LEMMA CloseType ==
    ASSUME NEW t, db \in FloorType, t.op \in CloseRequests
    PROVE  CloseEffect(t) \in FloorType
  <1> SUFFICES ASSUME NEW d, d = CloseEffect(t)
               PROVE  d \in FloorType
    OBVIOUS
  <1> DEFINE s == t.op.session
             tb == t.snap.session[s].table
             r == [db.session[s] EXCEPT
                     !.status = IF t.op.cancel THEN "cancelled" ELSE "closed",
                     !.version = @ + 1]
             q == [db.table[tb] EXCEPT !.session = None, !.shown = "none"]
  <1>1. HasFields(db)
    BY FloorFields
  <1>2. s \in Sessions
    BY DEF CloseRequests
  <1>3. CloseLeaves(t, d)
    BY <1>2, CloseDelta
  <1>4. r \in SessionType /\ (tb \in Tables => q \in TableType)
    <2>1. /\ db.session[s] \in SessionType
          /\ tb \in Tables => db.table[tb] \in TableType
      BY <1>1, <1>2 DEF HasFields
    <2> QED BY <2>1, SessionEdit, TableEdit DEF SessionStatus, LiveStatus
  <1>5. /\ d.session = [db.session EXCEPT ![s] = r]
        /\ d.table = [db.table EXCEPT ![tb] = q]
    BY <1>3 DEF CloseLeaves
  <1> HIDE DEF r, q, tb
  <1>6. d.session \in [Sessions -> SessionType] /\ d.table \in [Tables -> TableType]
    BY <1>1, <1>4, <1>5, Updated DEF HasFields
  <1>7. HasFields(d) /\ IsRecord(d)
    BY <1>1, <1>3, <1>6 DEF HasFields, CloseLeaves
  <1> QED BY <1>7, FloorIntro

\* What a bill charges are orders, finitely many of them.
LEMMA ChargedOrders ==
    ASSUME NEW t, t.op \in BillRequests, (t.op.session = None) # (t.op.order = None)
    PROVE  /\ Charged(t) \subseteq Orders
           /\ Cardinality(Charged(t)) \in Nat
  <1>1. Charged(t) \subseteq Orders
    BY DEF Charged, BilledOrders, OrdersOf, BillRequests
  <1>2. IsFiniteSet(Orders)
    BY FS_Interval, FloorAssumption DEF Orders
  <1> QED BY <1>1, <1>2, FS_Subset, FS_CardinalityType

\* The bill itself, and a collection on it, before finalizeCafeBill.
LEMMA IssueDelta ==
    ASSUME NEW i, NEW r, db \in FloorType, NEW e,
           e = [db EXCEPT !.lastInvoice = i, !.invoice[i] = r]
    PROVE  /\ e.invoice = [db.invoice EXCEPT ![i] = r] /\ e.lastInvoice = i
           /\ e.table = db.table /\ e.session = db.session /\ e.order = db.order
           /\ e.token = db.token /\ e.access = db.access /\ e.opkeys = db.opkeys
           /\ e.lastSession = db.lastSession /\ e.lastOrder = db.lastOrder
           /\ e.lastToken = db.lastToken
           /\ IsRecord(e)
  BY DEF IsRecord, FloorType

PaidLeaves(i, due, st, k) ==
    [db EXCEPT !.invoice[i].due = due, !.invoice[i].status = st,
               !.opkeys = @ \cup {k}]

LEMMA PaidDelta ==
    ASSUME NEW i, NEW due, NEW st, NEW k, db \in FloorType, NEW e,
           e = PaidLeaves(i, due, st, k)
    PROVE  /\ e.invoice = [db.invoice EXCEPT ![i].due = due, ![i].status = st]
           /\ e.opkeys = db.opkeys \cup {k}
           /\ e.table = db.table /\ e.session = db.session /\ e.order = db.order
           /\ e.token = db.token /\ e.access = db.access
           /\ e.lastSession = db.lastSession /\ e.lastOrder = db.lastOrder
           /\ e.lastInvoice = db.lastInvoice /\ e.lastToken = db.lastToken
           /\ IsRecord(e)
  BY DEF IsRecord, FloorType, PaidLeaves

LEMMA BillTypeCorrect ==
    ASSUME NEW t, db \in FloorType, t.snap \in FloorType, t.op \in BillRequests,
           (t.op.session = None) # (t.op.order = None), BillAllowed(t)
    PROVE  BillEffect(t) \in FloorType /\ BillEffect(t).token = db.token
  <1> DEFINE i == t.snap.lastInvoice + 1
             s == t.op.session
             due == Cardinality(Charged(t)) - t.op.paid
             r == [status |-> IF due = 0 THEN "paid" ELSE "unpaid",
                   due |-> due, orders |-> Charged(t), session |-> s,
                   order |-> t.op.order, request |-> t.op.id,
                   version |-> IF s = None THEN 0
                               ELSE t.snap.session[s].version]
             e == [db EXCEPT !.lastInvoice = i, !.invoice[i] = r]
  <1>1. HasFields(db) /\ HasFields(t.snap) /\ IsRecord(db)
    BY FloorFields
  <1>2. i \in Invoices /\ i \in 0..MaxInvoice
    <2>1. t.snap.lastInvoice \in 0..MaxInvoice /\ t.snap.lastInvoice < MaxInvoice
      BY <1>1 DEF HasFields, BillAllowed
    <2> QED BY <2>1, FloorAssumption DEF Invoices
  <1>3. s \in Sessions \cup {None} /\ t.op.order \in Orders \cup {None}
        /\ t.op.id \in Nat /\ t.op.paid \in Nat
    BY DEF BillRequests, RequestId
  <1>4. due \in Nat
    BY <1>3, ChargedOrders DEF BillAllowed
  <1>5. (IF s = None THEN 0 ELSE t.snap.session[s].version) \in Nat
    <2>1. s # None => t.snap.session[s] \in SessionType
      BY <1>1, <1>3 DEF HasFields
    <2> QED BY <2>1 DEF SessionType
  <1>6. r \in BillType
    BY <1>3, <1>4, <1>5, ChargedOrders DEF BillType, BillStatus
  <1> HIDE DEF r, due
  <1>7. /\ e.invoice = [db.invoice EXCEPT ![i] = r] /\ e.lastInvoice = i
        /\ e.table = db.table /\ e.session = db.session /\ e.order = db.order
        /\ e.token = db.token /\ e.access = db.access /\ e.opkeys = db.opkeys
        /\ e.lastSession = db.lastSession /\ e.lastOrder = db.lastOrder
        /\ e.lastToken = db.lastToken
        /\ IsRecord(e)
    BY IssueDelta
  <1> HIDE DEF e
  <1>8. e.invoice \in [Invoices -> BillType]
    BY <1>1, <1>6, <1>7, Updated DEF HasFields
  <1>9. e \in FloorType
    BY <1>1, <1>2, <1>7, <1>8, FloorIntro DEF HasFields
  <1>10. BillEffect(t) = Finalized(e, Charged(t), s, i, due)
    BY DEF BillEffect, e, r, due
  <1> HIDE DEF s, i
  <1>11. BillEffect(t).token = db.token
    <2>1. FinalizedLeaves(e, Charged(t), s, i, due, BillEffect(t))
      BY <1>9, <1>10, FinalizedDelta
    <2> QED BY <1>7, <2>1 DEF FinalizedLeaves
  <1> QED BY <1>2, <1>3, <1>9, <1>10, <1>11, FinalizedType DEF s

LEMMA CollectType ==
    ASSUME NEW t, db \in FloorType, t.snap \in FloorType,
           t.op \in CollectRequests, CollectAllowed(t)
    PROVE  CollectEffect(t) \in FloorType /\ CollectEffect(t).token = db.token
  <1> DEFINE i == t.op.invoice
             s == t.snap.invoice[i].session
             due == t.snap.invoice[i].due - t.op.amount
             st == IF due = 0 THEN "paid" ELSE "unpaid"
             r == [db.invoice[i] EXCEPT !.due = due, !.status = st]
             e == PaidLeaves(i, due, st, OpKey(t.op))
  <1>1. HasFields(db) /\ HasFields(t.snap) /\ IsRecord(db)
    BY FloorFields
  <1>2. i \in Invoices /\ t.op.amount \in Nat /\ t.op.id \in RequestId
        /\ t.op.kind = "collect"
    BY DEF CollectRequests
  <1>3. t.snap.invoice[i] \in BillType /\ db.invoice[i] \in BillType
    BY <1>1, <1>2 DEF HasFields
  <1>4. due \in Nat /\ s \in Sessions \cup {None}
    BY <1>2, <1>3 DEF BillType, CollectAllowed
  <1>5. r \in BillType
    <2>1. \A n \in Nat, x \in BillStatus :
             [db.invoice[i] EXCEPT !.due = n, !.status = x] \in BillType
      BY <1>3 DEF BillType
    <2> QED BY <1>4, <2>1 DEF BillStatus
  <1>6. /\ e.invoice = [db.invoice EXCEPT ![i] = r]
        /\ e.opkeys = db.opkeys \cup {OpKey(t.op)}
        /\ e.table = db.table /\ e.session = db.session /\ e.order = db.order
        /\ e.token = db.token /\ e.access = db.access
        /\ e.lastSession = db.lastSession /\ e.lastOrder = db.lastOrder
        /\ e.lastInvoice = db.lastInvoice /\ e.lastToken = db.lastToken
        /\ IsRecord(e)
    <2> HIDE DEF due, i, st
    <2>1. db.invoice \in [Invoices -> BillType]
      BY <1>1 DEF HasFields
    <2>2. [db.invoice EXCEPT ![i].due = due, ![i].status = st]
            = [db.invoice EXCEPT ![i] = r]
      BY <1>2, <1>3, <2>1 DEF BillType
    <2>3. /\ e.invoice = [db.invoice EXCEPT ![i].due = due, ![i].status = st]
          /\ e.opkeys = db.opkeys \cup {OpKey(t.op)}
          /\ e.table = db.table /\ e.session = db.session /\ e.order = db.order
          /\ e.token = db.token /\ e.access = db.access
          /\ e.lastSession = db.lastSession /\ e.lastOrder = db.lastOrder
          /\ e.lastInvoice = db.lastInvoice /\ e.lastToken = db.lastToken
          /\ IsRecord(e)
      BY PaidDelta
    <2> QED BY <2>2, <2>3
  <1>7. CollectEffect(t) = Finalized(e, Collected(t), s, i, due)
    BY DEF CollectEffect, PaidLeaves
  <1> HIDE DEF e, r, due, s, i, st
  <1>8. e.invoice \in [Invoices -> BillType]
    <2>1. db.invoice \in [Invoices -> BillType]
      BY <1>1 DEF HasFields
    <2> QED BY <1>5, <1>6, <2>1, Updated
  <1>9. e.opkeys \subseteq ({"order", "collect", "void"} \X RequestId)
    BY <1>1, <1>2, <1>6 DEF HasFields, OpKey
  <1>10. e \in FloorType
    BY <1>1, <1>6, <1>8, <1>9, FloorIntro DEF HasFields
  <1>11. CollectEffect(t).token = db.token
    <2>1. FinalizedLeaves(e, Collected(t), s, i, due, CollectEffect(t))
      BY <1>7, <1>10, FinalizedDelta
    <2> QED BY <1>6, <2>1 DEF FinalizedLeaves
  <1> QED BY <1>2, <1>4, <1>7, <1>10, <1>11, FinalizedType

LEMMA VoidType ==
    ASSUME NEW t, db \in FloorType, t.op \in VoidRequests
    PROVE  VoidEffect(t) \in FloorType
  <1> SUFFICES ASSUME NEW d, d = VoidEffect(t)
               PROVE  d \in FloorType
    OBVIOUS
  <1>1. HasFields(db)
    BY FloorFields
  <1>2. t.op.invoice \in Invoices /\ t.op.id \in RequestId /\ t.op.kind = "void"
    BY DEF VoidRequests
  <1>3. VoidLeaves(t, d)
    BY <1>2, VoidDelta
  <1>4. d.invoice \in [Invoices -> BillType]
    <2> DEFINE i == t.op.invoice
               r == [db.invoice[i] EXCEPT !.status = "cancelled", !.due = 0]
    <2>1. /\ d.invoice = [db.invoice EXCEPT ![i] = r]
          /\ db.invoice \in [Invoices -> BillType]
      BY <1>1, <1>3 DEF HasFields, VoidLeaves
    <2>2. db.invoice[i] \in BillType
      BY <1>2, <2>1
    <2>3. r \in BillType
      BY <2>2 DEF BillType, BillStatus
    <2> HIDE DEF r, i
    <2> QED BY <2>1, <2>3, Updated
  <1>5. d.opkeys \subseteq ({"order", "collect", "void"} \X RequestId)
    BY <1>1, <1>2, <1>3 DEF HasFields, OpKey, VoidLeaves
  <1>6. HasFields(d) /\ IsRecord(d)
    BY <1>1, <1>3, <1>4, <1>5 DEF HasFields, VoidLeaves
  <1> QED BY <1>6, FloorIntro

LEMMA EditType ==
    ASSUME NEW t, db \in FloorType, t.op \in EditRequests
    PROVE  EditEffect(t) \in FloorType
  <1> SUFFICES ASSUME NEW d, d = EditEffect(t)
               PROVE  d \in FloorType
    OBVIOUS
  <1>1. HasFields(db)
    BY FloorFields
  <1>2. t.op.table \in Tables /\ t.op.active \in BOOLEAN
    BY DEF EditRequests
  <1>3. EditLeaves(t, d)
    BY <1>2, EditDelta
  <1>4. d.table \in [Tables -> TableType]
    <2> DEFINE tb == t.op.table
               r == [db.table[tb] EXCEPT !.is_active = t.op.active]
    <2>1. /\ d.table = [db.table EXCEPT ![tb] = r]
          /\ db.table \in [Tables -> TableType]
      BY <1>1, <1>3 DEF HasFields, EditLeaves
    <2>2. r \in TableType
      BY <1>1, <1>2, TableFlags DEF HasFields
    <2> HIDE DEF r, tb
    <2> QED BY <2>1, <2>2, Updated
  <1>5. HasFields(d) /\ IsRecord(d)
    BY <1>1, <1>3, <1>4 DEF HasFields, EditLeaves
  <1> QED BY <1>5, FloorIntro

LEMMA DeactivateType ==
    ASSUME NEW t, db \in FloorType, t.op \in TableRequests
    PROVE  DeactivateEffect(t) \in FloorType
  <1> SUFFICES ASSUME NEW d, d = DeactivateEffect(t)
               PROVE  d \in FloorType
    OBVIOUS
  <1>1. HasFields(db)
    BY FloorFields
  <1>2. t.op.table \in Tables
    BY DEF TableRequests
  <1>3. DeactivateLeaves(t, d)
    BY <1>2, DeactivateDelta
  <1>4. d.table \in [Tables -> TableType]
    <2> DEFINE tb == t.op.table
               r == [db.table[tb] EXCEPT !.is_active = FALSE, !.qr = FALSE]
    <2>1. /\ d.table = [db.table EXCEPT ![tb] = r]
          /\ db.table \in [Tables -> TableType]
      BY <1>1, <1>3 DEF HasFields, DeactivateLeaves
    <2>2. r \in TableType
      BY <1>1, <1>2, TableFlags DEF HasFields
    <2> HIDE DEF r, tb
    <2> QED BY <2>1, <2>2, Updated
  <1>5. d.token \in [Tokens -> TokenType]
    BY <1>1, <1>3, RevokedType DEF HasFields, DeactivateLeaves
  <1>6. HasFields(d) /\ IsRecord(d)
    BY <1>1, <1>3, <1>4, <1>5 DEF HasFields, DeactivateLeaves
  <1> QED BY <1>6, FloorIntro

LEMMA RotateType ==
    ASSUME NEW t, db \in FloorType, t.snap \in FloorType,
           t.op \in TableRequests, RotateAllowed(t)
    PROVE  RotateEffect(t) \in FloorType
  <1> SUFFICES ASSUME NEW d, d = RotateEffect(t)
               PROVE  d \in FloorType
    OBVIOUS
  <1> DEFINE k == t.snap.lastToken + 1
  <1>1. HasFields(db) /\ HasFields(t.snap)
    BY FloorFields
  <1>2. t.op.table \in Tables /\ k \in Tokens /\ k \in 0..MaxToken
    <2>1. t.snap.lastToken \in 0..MaxToken /\ t.snap.lastToken < MaxToken
      BY <1>1 DEF HasFields, RotateAllowed
    <2> QED BY <2>1, FloorAssumption DEF TableRequests, Tokens
  <1>3. RotateLeaves(t, d)
    BY <1>2, RotateDelta
  <1>4. d.table \in [Tables -> TableType]
    <2> DEFINE tb == t.op.table
               r == [db.table[tb] EXCEPT !.qr = TRUE]
    <2>1. /\ d.table = [db.table EXCEPT ![tb] = r]
          /\ db.table \in [Tables -> TableType]
      BY <1>1, <1>3 DEF HasFields, RotateLeaves
    <2>2. r \in TableType
      BY <1>1, <1>2, TableFlags DEF HasFields
    <2> HIDE DEF r, tb
    <2> QED BY <2>1, <2>2, Updated
  <1>5. d.token \in [Tokens -> TokenType]
    <2>1. Revoked(db.token, LiveTokens(t.snap, t.op.table)) \in [Tokens -> TokenType]
      BY <1>1, RevokedType DEF HasFields
    <2>2. [table |-> t.op.table, status |-> "live"] \in TokenType
      BY <1>2 DEF TokenType, TokenStatus
    <2> QED BY <1>3, <2>1, <2>2, Updated DEF RotateLeaves
  <1>6. HasFields(d) /\ IsRecord(d)
    BY <1>1, <1>2, <1>3, <1>4, <1>5 DEF HasFields, RotateLeaves
  <1> QED BY <1>6, FloorIntro

LEMMA RevokeType ==
    ASSUME NEW t, db \in FloorType, t.op \in TableRequests
    PROVE  RevokeEffect(t) \in FloorType
  <1> SUFFICES ASSUME NEW d, d = RevokeEffect(t)
               PROVE  d \in FloorType
    OBVIOUS
  <1>1. HasFields(db)
    BY FloorFields
  <1>2. t.op.table \in Tables
    BY DEF TableRequests
  <1>3. RevokeLeaves(t, d)
    BY <1>2, RevokeDelta
  <1>4. d.table \in [Tables -> TableType]
    <2> DEFINE tb == t.op.table
               r == [db.table[tb] EXCEPT !.qr = FALSE]
    <2>1. /\ d.table = [db.table EXCEPT ![tb] = r]
          /\ db.table \in [Tables -> TableType]
      BY <1>1, <1>3 DEF HasFields, RevokeLeaves
    <2>2. r \in TableType
      BY <1>1, <1>2, TableFlags DEF HasFields
    <2> HIDE DEF r, tb
    <2> QED BY <2>1, <2>2, Updated
  <1>5. d.token \in [Tokens -> TokenType]
    BY <1>1, <1>3, RevokedType DEF HasFields, RevokeLeaves
  <1>6. HasFields(d) /\ IsRecord(d)
    BY <1>1, <1>3, <1>4, <1>5 DEF HasFields, RevokeLeaves
  <1> QED BY <1>6, FloorIntro

-----------------------------------------------------------------------------
(* Type correctness.  A QR code that a guest scans names a table:          *)
(* TokensHaveTables.                                                       *)

Shape ==
    \A h \in DOMAIN run :
        run[h] = [op |-> run[h].op, snap |-> run[h].snap,
                  day |-> run[h].day, missed |-> run[h].missed]

TokensHaveTables(d) ==
    \A k \in Tokens : d.token[k].status = "live" => d.token[k].table \in Tables

FloorShape == TypeOK /\ Shape /\ TokensHaveTables(db)

Commits(h, W, next) ==
    /\ h \in DOMAIN run
    /\ next \in FloorType
    /\ TokensHaveTables(next)
    /\ CommitTxn(h, W, next)
    /\ Forget(h)
    /\ quoted' = quoted

LEMMA CommitShape ==
    ASSUME FloorShape, NEW h, NEW W, NEW next, Commits(h, W, next)
    PROVE  FloorShape'
  <1>1. /\ db' = next /\ next \in FloorType
        /\ DOMAIN run' = DOMAIN run \ {h}
        /\ \A g \in DOMAIN run' :
              run'[g] = [run[g] EXCEPT !.missed = run[g].missed \cup W]
        /\ DOMAIN arrived' = DOMAIN arrived \ {h}
        /\ \A g \in DOMAIN arrived' : arrived'[g] = arrived[g]
    BY DEF Commits, CommitTxn, EndTxn, Forget
  <1>2. ASSUME NEW g \in DOMAIN run'
        PROVE  /\ run'[g] = [op |-> run[g].op, snap |-> run[g].snap,
                             day |-> run[g].day, missed |-> run[g].missed \cup W]
               /\ g \in DOMAIN run
    BY <1>1 DEF FloorShape, Shape
  <1>3. Shape'
    BY <1>2 DEF Shape
  <1>4. TypeOK'
    BY <1>1, <1>2 DEF TypeOK, FloorShape, Commits
  <1>5. TokensHaveTables(db')
    BY <1>1 DEF Commits
  <1> QED BY <1>3, <1>4, <1>5 DEF FloorShape

LEMMA OpenSessionStep ==
    ASSUME FloorShape, NEW h, OpenSession(h)
    PROVE  /\ Commits(h, OpenWrites(run[h]), OpenEffect(run[h]))
           /\ run[h].op \in OpenRequests /\ OpenAllowed(run[h])
  <1>1. /\ h \in DOMAIN run /\ OpenAllowed(run[h]) /\ run[h].op.kind = "open"
        /\ CommitTxn(h, OpenWrites(run[h]), OpenEffect(run[h]))
        /\ Forget(h) /\ quoted' = quoted
    BY DEF OpenSession, Execute
  <1>2. /\ run[h].op \in OpenRequests /\ run[h].snap \in FloorType /\ db \in FloorType
    BY <1>1, KindOf DEF FloorShape, TypeOK
  <1>3. OpenEffect(run[h]) \in FloorType
    BY <1>1, <1>2, OpenType
  <1>4. TokensHaveTables(OpenEffect(run[h]))
    <2>1. OpenEffect(run[h]).token = db.token
      BY <1>2 DEF OpenEffect, FloorType
    <2> QED BY <2>1 DEF TokensHaveTables, FloorShape
  <1> QED BY <1>1, <1>2, <1>3, <1>4 DEF Commits

LEMMA PlaceOrderStep ==
    ASSUME FloorShape, NEW h, PlaceOrder(h)
    PROVE  /\ Commits(h, OrderWrites(run[h]), OrderEffect(run[h]))
           /\ run[h].op \in OrderRequests /\ OrderAllowed(run[h])
  <1>1. /\ h \in DOMAIN run /\ OrderAllowed(run[h]) /\ run[h].op.kind = "order"
        /\ CommitTxn(h, OrderWrites(run[h]), OrderEffect(run[h]))
        /\ Forget(h) /\ quoted' = quoted
    BY DEF PlaceOrder, Execute
  <1>2. /\ run[h].op \in OrderRequests /\ run[h].snap \in FloorType /\ db \in FloorType
    BY <1>1, KindOf DEF FloorShape, TypeOK
  <1>3. OrderEffect(run[h]) \in FloorType
    BY <1>1, <1>2, OrderRequestType
  <1>4. TokensHaveTables(OrderEffect(run[h]))
    <2>1. OrderEffect(run[h]).token = db.token
      BY <1>2 DEF OrderEffect, FloorType
    <2> QED BY <2>1 DEF TokensHaveTables, FloorShape
  <1> QED BY <1>1, <1>2, <1>3, <1>4 DEF Commits

LEMMA MoveOrderStep ==
    ASSUME FloorShape, NEW h, MoveOrder(h)
    PROVE  /\ Commits(h, MoveWrites(run[h]), MoveEffect(run[h]))
           /\ run[h].op \in MoveRequests /\ MoveAllowed(run[h])
  <1>1. /\ h \in DOMAIN run /\ MoveAllowed(run[h]) /\ run[h].op.kind = "move"
        /\ CommitTxn(h, MoveWrites(run[h]), MoveEffect(run[h]))
        /\ Forget(h) /\ quoted' = quoted
    BY DEF MoveOrder, Execute
  <1>2. /\ run[h].op \in MoveRequests /\ run[h].snap \in FloorType /\ db \in FloorType
    BY <1>1, KindOf DEF FloorShape, TypeOK
  <1>3. MoveEffect(run[h]) \in FloorType
    BY <1>1, <1>2, MoveType
  <1>4. TokensHaveTables(MoveEffect(run[h]))
    <2>1. MoveEffect(run[h]).token = db.token
      BY <1>2 DEF MoveEffect, FloorType
    <2> QED BY <2>1 DEF TokensHaveTables, FloorShape
  <1> QED BY <1>1, <1>2, <1>3, <1>4 DEF Commits

LEMMA RequestBillStep ==
    ASSUME FloorShape, NEW h, RequestBill(h)
    PROVE  /\ Commits(h, AskWrites(run[h]), AskEffect(run[h]))
           /\ run[h].op \in AskRequests /\ AskAllowed(run[h])
  <1>1. /\ h \in DOMAIN run /\ AskAllowed(run[h]) /\ run[h].op.kind = "ask"
        /\ CommitTxn(h, AskWrites(run[h]), AskEffect(run[h]))
        /\ Forget(h) /\ quoted' = quoted
    BY DEF RequestBill, Execute
  <1>2. /\ run[h].op \in AskRequests /\ run[h].snap \in FloorType /\ db \in FloorType
    BY <1>1, KindOf DEF FloorShape, TypeOK
  <1>3. AskEffect(run[h]) \in FloorType
    BY <1>1, <1>2, AskType
  <1>4. TokensHaveTables(AskEffect(run[h]))
    <2>1. AskEffect(run[h]).token = db.token
      BY <1>2 DEF AskEffect, FloorType
    <2> QED BY <2>1 DEF TokensHaveTables, FloorShape
  <1> QED BY <1>1, <1>2, <1>3, <1>4 DEF Commits

LEMMA CloseSessionStep ==
    ASSUME FloorShape, NEW h, CloseSession(h)
    PROVE  /\ Commits(h, CloseWrites(run[h]), CloseEffect(run[h]))
           /\ run[h].op \in CloseRequests /\ CloseAllowed(run[h])
  <1>1. /\ h \in DOMAIN run /\ CloseAllowed(run[h]) /\ run[h].op.kind = "close"
        /\ CommitTxn(h, CloseWrites(run[h]), CloseEffect(run[h]))
        /\ Forget(h) /\ quoted' = quoted
    BY DEF CloseSession, Execute
  <1>2. /\ run[h].op \in CloseRequests /\ run[h].snap \in FloorType /\ db \in FloorType
    BY <1>1, KindOf DEF FloorShape, TypeOK
  <1>3. CloseEffect(run[h]) \in FloorType
    BY <1>1, <1>2, CloseType
  <1>4. TokensHaveTables(CloseEffect(run[h]))
    <2>1. CloseEffect(run[h]).token = db.token
      BY <1>2 DEF CloseEffect, FloorType
    <2> QED BY <2>1 DEF TokensHaveTables, FloorShape
  <1> QED BY <1>1, <1>2, <1>3, <1>4 DEF Commits

LEMMA BillSourceStep ==
    ASSUME FloorShape, NEW h, BillSource(h)
    PROVE  /\ Commits(h, BillWrites(run[h]), BillEffect(run[h]))
           /\ run[h].op \in BillRequests /\ BillAllowed(run[h])
  <1>1. /\ h \in DOMAIN run /\ BillAllowed(run[h]) /\ run[h].op.kind = "bill"
        /\ CommitTxn(h, BillWrites(run[h]), BillEffect(run[h]))
        /\ Forget(h) /\ quoted' = quoted
    BY DEF BillSource, Execute
  <1>2. /\ run[h].op \in BillRequests /\ run[h].snap \in FloorType /\ db \in FloorType
        /\ (run[h].op.session = None) # (run[h].op.order = None)
    BY <1>1, KindOf, FloorRequestAssumption DEF FloorShape, TypeOK
  <1>3. BillEffect(run[h]) \in FloorType
    BY <1>1, <1>2, BillTypeCorrect
  <1>4. TokensHaveTables(BillEffect(run[h]))
    <2>1. BillEffect(run[h]).token = db.token
      BY <1>1, <1>2, BillTypeCorrect
    <2> QED BY <2>1 DEF TokensHaveTables, FloorShape
  <1> QED BY <1>1, <1>2, <1>3, <1>4 DEF Commits

LEMMA CollectBillStep ==
    ASSUME FloorShape, NEW h, CollectBill(h)
    PROVE  /\ Commits(h, CollectWrites(run[h]), CollectEffect(run[h]))
           /\ run[h].op \in CollectRequests /\ CollectAllowed(run[h])
  <1>1. /\ h \in DOMAIN run /\ CollectAllowed(run[h]) /\ run[h].op.kind = "collect"
        /\ CommitTxn(h, CollectWrites(run[h]), CollectEffect(run[h]))
        /\ Forget(h) /\ quoted' = quoted
    BY DEF CollectBill, Execute
  <1>2. /\ run[h].op \in CollectRequests /\ run[h].snap \in FloorType /\ db \in FloorType
    BY <1>1, KindOf DEF FloorShape, TypeOK
  <1>3. CollectEffect(run[h]) \in FloorType
    BY <1>1, <1>2, CollectType
  <1>4. TokensHaveTables(CollectEffect(run[h]))
    <2>1. CollectEffect(run[h]).token = db.token
      BY <1>1, <1>2, CollectType
    <2> QED BY <2>1 DEF TokensHaveTables, FloorShape
  <1> QED BY <1>1, <1>2, <1>3, <1>4 DEF Commits

LEMMA VoidBillStep ==
    ASSUME FloorShape, NEW h, VoidBill(h)
    PROVE  /\ Commits(h, VoidWrites(run[h]), VoidEffect(run[h]))
           /\ run[h].op \in VoidRequests /\ VoidAllowed(run[h])
  <1>1. /\ h \in DOMAIN run /\ VoidAllowed(run[h]) /\ run[h].op.kind = "void"
        /\ CommitTxn(h, VoidWrites(run[h]), VoidEffect(run[h]))
        /\ Forget(h) /\ quoted' = quoted
    BY DEF VoidBill, Execute
  <1>2. /\ run[h].op \in VoidRequests /\ run[h].snap \in FloorType /\ db \in FloorType
    BY <1>1, KindOf DEF FloorShape, TypeOK
  <1>3. VoidEffect(run[h]) \in FloorType
    BY <1>1, <1>2, VoidType
  <1>4. TokensHaveTables(VoidEffect(run[h]))
    <2>1. VoidEffect(run[h]).token = db.token
      BY <1>2 DEF VoidEffect, FloorType
    <2> QED BY <2>1 DEF TokensHaveTables, FloorShape
  <1> QED BY <1>1, <1>2, <1>3, <1>4 DEF Commits

LEMMA EditTableStep ==
    ASSUME FloorShape, NEW h, EditTable(h)
    PROVE  /\ Commits(h, EditWrites(run[h]), EditEffect(run[h]))
           /\ run[h].op \in EditRequests /\ EditAllowed(run[h])
  <1>1. /\ h \in DOMAIN run /\ EditAllowed(run[h]) /\ run[h].op.kind = "edit"
        /\ CommitTxn(h, EditWrites(run[h]), EditEffect(run[h]))
        /\ Forget(h) /\ quoted' = quoted
    BY DEF EditTable, Execute
  <1>2. /\ run[h].op \in EditRequests /\ run[h].snap \in FloorType /\ db \in FloorType
    BY <1>1, KindOf DEF FloorShape, TypeOK
  <1>3. EditEffect(run[h]) \in FloorType
    BY <1>1, <1>2, EditType
  <1>4. TokensHaveTables(EditEffect(run[h]))
    <2>1. EditEffect(run[h]).token = db.token
      BY <1>2 DEF EditEffect, FloorType
    <2> QED BY <2>1 DEF TokensHaveTables, FloorShape
  <1> QED BY <1>1, <1>2, <1>3, <1>4 DEF Commits

LEMMA DeactivateTableStep ==
    ASSUME FloorShape, NEW h, DeactivateTable(h)
    PROVE  /\ Commits(h, DeactivateWrites(run[h]), DeactivateEffect(run[h]))
           /\ run[h].op \in TableRequests /\ DeactivateAllowed(run[h])
  <1>1. /\ h \in DOMAIN run /\ DeactivateAllowed(run[h]) /\ run[h].op.kind = "deactivate"
        /\ CommitTxn(h, DeactivateWrites(run[h]), DeactivateEffect(run[h]))
        /\ Forget(h) /\ quoted' = quoted
    BY DEF DeactivateTable, Execute
  <1>2. /\ run[h].op \in TableRequests /\ run[h].snap \in FloorType /\ db \in FloorType
    BY <1>1, KindOf DEF FloorShape, TypeOK
  <1>3. DeactivateEffect(run[h]) \in FloorType
    BY <1>1, <1>2, DeactivateType
  <1>4. TokensHaveTables(DeactivateEffect(run[h]))
    <2>1. run[h].op.table \in Tables
      BY <1>2 DEF TableRequests
    <2>2. DeactivateLeaves(run[h], DeactivateEffect(run[h]))
      BY <1>2, <2>1, DeactivateDelta
    <2>3. db.token \in [Tokens -> TokenType]
      BY <1>2, FloorFields DEF HasFields
    <2> QED BY <2>1, <2>2, <2>3
            DEF DeactivateLeaves, Revoked, TokenType, TokensHaveTables, FloorShape
  <1> QED BY <1>1, <1>2, <1>3, <1>4 DEF Commits

LEMMA RotateQrStep ==
    ASSUME FloorShape, NEW h, RotateQr(h)
    PROVE  /\ Commits(h, RotateWrites(run[h]), RotateEffect(run[h]))
           /\ run[h].op \in TableRequests /\ RotateAllowed(run[h])
  <1>1. /\ h \in DOMAIN run /\ RotateAllowed(run[h]) /\ run[h].op.kind = "rotate"
        /\ CommitTxn(h, RotateWrites(run[h]), RotateEffect(run[h]))
        /\ Forget(h) /\ quoted' = quoted
    BY DEF RotateQr, Execute
  <1>2. /\ run[h].op \in TableRequests /\ run[h].snap \in FloorType /\ db \in FloorType
    BY <1>1, KindOf DEF FloorShape, TypeOK
  <1>3. RotateEffect(run[h]) \in FloorType
    BY <1>1, <1>2, RotateType
  <1>4. TokensHaveTables(RotateEffect(run[h]))
    <2>1. run[h].op.table \in Tables /\ run[h].snap.lastToken + 1 \in Tokens
      <3>1. run[h].snap.lastToken \in 0..MaxToken /\ run[h].snap.lastToken < MaxToken
        BY <1>1, <1>2, FloorFields DEF RotateAllowed, HasFields
      <3> QED BY <1>2, <3>1, FloorAssumption DEF TableRequests, Tokens
    <2>2. RotateLeaves(run[h], RotateEffect(run[h]))
      BY <1>2, <2>1, RotateDelta
    <2>3. db.token \in [Tokens -> TokenType]
      BY <1>2, FloorFields DEF HasFields
    <2> QED BY <2>1, <2>2, <2>3
            DEF RotateLeaves, Revoked, TokenType, TokensHaveTables, FloorShape
  <1> QED BY <1>1, <1>2, <1>3, <1>4 DEF Commits

LEMMA RevokeQrStep ==
    ASSUME FloorShape, NEW h, RevokeQr(h)
    PROVE  /\ Commits(h, RevokeWrites(run[h]), RevokeEffect(run[h]))
           /\ run[h].op \in TableRequests /\ RevokeAllowed(run[h])
  <1>1. /\ h \in DOMAIN run /\ RevokeAllowed(run[h]) /\ run[h].op.kind = "revoke"
        /\ CommitTxn(h, RevokeWrites(run[h]), RevokeEffect(run[h]))
        /\ Forget(h) /\ quoted' = quoted
    BY DEF RevokeQr, Execute
  <1>2. /\ run[h].op \in TableRequests /\ run[h].snap \in FloorType /\ db \in FloorType
    BY <1>1, KindOf DEF FloorShape, TypeOK
  <1>3. RevokeEffect(run[h]) \in FloorType
    BY <1>1, <1>2, RevokeType
  <1>4. TokensHaveTables(RevokeEffect(run[h]))
    <2>1. run[h].op.table \in Tables
      BY <1>2 DEF TableRequests
    <2>2. RevokeLeaves(run[h], RevokeEffect(run[h]))
      BY <1>2, <2>1, RevokeDelta
    <2>3. db.token \in [Tokens -> TokenType]
      BY <1>2, FloorFields DEF HasFields
    <2> QED BY <2>1, <2>2, <2>3
            DEF RevokeLeaves, Revoked, TokenType, TokensHaveTables, FloorShape
  <1> QED BY <1>1, <1>2, <1>3, <1>4 DEF Commits

LEMMA AbandonShape ==
    ASSUME FloorShape, NEW h, Abandon(h)
    PROVE  FloorShape'
  <1>1. /\ db' = db /\ arrived' = arrived /\ quoted' = quoted
        /\ DOMAIN run' = DOMAIN run \ {h}
        /\ \A g \in DOMAIN run' : run'[g] = run[g]
    BY DEF Abandon, AbortTxn
  <1> QED BY <1>1 DEF FloorShape, TypeOK, Shape, TokensHaveTables

LEMMA BeginShape ==
    ASSUME FloorShape, NEW h \in Handlers, Begin(h)
    PROVE  FloorShape'
  <1>1. PICK r \in Requests : OpenTxn(h, r, 0)
    BY DEF Begin
  <1>2. /\ db' = db /\ arrived' = arrived /\ quoted' = quoted
        /\ DOMAIN run' = DOMAIN run \cup {h}
        /\ run'[h] = [op |-> r, snap |-> db, day |-> 0, missed |-> {}]
        /\ \A g \in DOMAIN run' : g # h => run'[g] = run[g]
    BY <1>1 DEF Begin, OpenTxn
  <1> QED BY <1>2 DEF FloorShape, TypeOK, Shape, TokensHaveTables

LEMMA ArriveShape ==
    ASSUME FloorShape, NEW h \in Handlers, Arrive(h)
    PROVE  FloorShape'
  <1>1. PICK r \in Requests :
          arrived' = [g \in DOMAIN arrived \cup {h} |->
                        IF g = h THEN r ELSE arrived[g]]
    BY DEF Arrive
  <1> QED BY <1>1 DEF Arrive, FloorShape, TypeOK, Shape, TokensHaveTables

AccessLeaves(x) == [db EXCEPT !.access = @ \cup {x}]

LEMMA AccessDelta ==
    ASSUME NEW x, db \in FloorType, NEW d, d = AccessLeaves(x)
    PROVE  /\ d.token = db.token /\ d.lastOrder = db.lastOrder
           /\ d.access = db.access \cup {x}
           /\ d.table = db.table /\ d.session = db.session /\ d.order = db.order
           /\ d.invoice = db.invoice /\ d.opkeys = db.opkeys
           /\ d.lastSession = db.lastSession /\ d.lastInvoice = db.lastInvoice
           /\ d.lastToken = db.lastToken
           /\ IsRecord(d)
  BY DEF FloorType, IsRecord, AccessLeaves

LEMMA ResolveShape ==
    ASSUME FloorShape, NEW k \in Tokens, Resolve(k)
    PROVE  FloorShape'
  <1> DEFINE s == db.table[db.token[k].table].session
             d == AccessLeaves(<<k, s>>)
  <1>1. /\ db' = d /\ s # None /\ db.token[k].status = "live"
        /\ run' = run /\ arrived' = arrived /\ quoted' = quoted
    BY DEF Resolve, AccessLeaves
  <1>2. s \in Sessions
    <2>1. db.token[k].table \in Tables /\ db \in FloorType
      BY <1>1 DEF FloorShape, TypeOK, TokensHaveTables
    <2>2. db.table[db.token[k].table] \in TableType
      BY <2>1, FloorFields DEF HasFields
    <2> QED BY <1>1, <2>2 DEF TableType
  <1>3. d \in FloorType /\ d.token = db.token /\ d.lastOrder = db.lastOrder
    <2> HIDE DEF s
    <2>1. db \in FloorType
      BY DEF FloorShape, TypeOK
    <2>2. /\ d.token = db.token /\ d.lastOrder = db.lastOrder
          /\ d.access = db.access \cup {<<k, s>>}
          /\ d.table = db.table /\ d.session = db.session /\ d.order = db.order
          /\ d.invoice = db.invoice /\ d.opkeys = db.opkeys
          /\ d.lastSession = db.lastSession /\ d.lastInvoice = db.lastInvoice
          /\ d.lastToken = db.lastToken
          /\ IsRecord(d)
      BY <2>1, AccessDelta
    <2> HIDE DEF d
    <2>3. HasFields(d)
      BY <1>2, <2>1, <2>2, FloorFields DEF HasFields
    <2> QED BY <2>2, <2>3, FloorIntro
  <1> HIDE DEF d
  <1> QED BY <1>1, <1>3 DEF FloorShape, TypeOK, Shape, TokensHaveTables

LEMMA QuoteShape ==
    ASSUME FloorShape, NEW s \in Sessions, Quote(s)
    PROVE  FloorShape'
  <1>1. quoted' \in [Sessions -> SUBSET [version: Nat, orders: SUBSET Orders]]
    <2>1. db.session[s] \in SessionType
      BY FloorFields DEF FloorShape, TypeOK, HasFields
    <2>2. [version |-> db.session[s].version, orders |-> BilledOrders(db, s, None)]
             \in [version: Nat, orders: SUBSET Orders]
      BY <2>1, FloorAssumption DEF SessionType, BilledOrders, OrdersOf, Sessions, None
    <2> QED BY <2>2 DEF Quote, FloorShape, TypeOK
  <1> QED BY <1>1 DEF Quote, FloorShape, TypeOK, Shape, TokensHaveTables

LEMMA InitShape ==
    ASSUME Init PROVE FloorShape
  <1>1. /\ FreeTable \in TableType /\ NoSession \in SessionType
        /\ NoOrder \in OrderType /\ NoBill \in BillType
        /\ [table |-> None, status |-> "none"] \in TokenType
    BY DEF FreeTable, NoSession, NoOrder, NoBill, TableType, SessionType, OrderType,
           BillType, TokenType, LiveStatus, SessionStatus, OrderStatus, BillStatus,
           TokenStatus
  <1>2. EmptyFloor \in FloorType
    BY <1>1, FloorAssumption
    DEF EmptyFloor, FloorType, TableType, SessionType, OrderType, BillType, TokenType
  <1> QED BY <1>2 DEF Init, FloorShape, TypeOK, Shape, TokensHaveTables,
                      EmptyFloor

LEMMA FloorShapeStep ==
    ASSUME FloorShape, [Next]_vars
    PROVE  FloorShape'
  <1>1. ASSUME NEW h \in Handlers, Arrive(h) PROVE FloorShape'
    BY <1>1, ArriveShape
  <1>2. ASSUME NEW h \in Handlers, Begin(h) PROVE FloorShape'
    BY <1>2, BeginShape
  <1>3. ASSUME NEW h \in Handlers, Abandon(h) PROVE FloorShape'
    BY <1>3, AbandonShape
  <1>4. ASSUME NEW h \in Handlers, GiveUp(h) PROVE FloorShape'
    BY <1>4 DEF GiveUp, Forget, FloorShape, TypeOK, Shape, TokensHaveTables
  <1>5. ASSUME NEW h \in Handlers, OpenSession(h) PROVE FloorShape'
    BY <1>5, OpenSessionStep, CommitShape
  <1>6. ASSUME NEW h \in Handlers, PlaceOrder(h) PROVE FloorShape'
    BY <1>6, PlaceOrderStep, CommitShape
  <1>7. ASSUME NEW h \in Handlers, MoveOrder(h) PROVE FloorShape'
    BY <1>7, MoveOrderStep, CommitShape
  <1>8. ASSUME NEW h \in Handlers, RequestBill(h) PROVE FloorShape'
    BY <1>8, RequestBillStep, CommitShape
  <1>9. ASSUME NEW h \in Handlers, CloseSession(h) PROVE FloorShape'
    BY <1>9, CloseSessionStep, CommitShape
  <1>10. ASSUME NEW h \in Handlers, BillSource(h) PROVE FloorShape'
    BY <1>10, BillSourceStep, CommitShape
  <1>11. ASSUME NEW h \in Handlers, CollectBill(h) PROVE FloorShape'
    BY <1>11, CollectBillStep, CommitShape
  <1>12. ASSUME NEW h \in Handlers, VoidBill(h) PROVE FloorShape'
    BY <1>12, VoidBillStep, CommitShape
  <1>13. ASSUME NEW h \in Handlers, EditTable(h) PROVE FloorShape'
    BY <1>13, EditTableStep, CommitShape
  <1>14. ASSUME NEW h \in Handlers, DeactivateTable(h) PROVE FloorShape'
    BY <1>14, DeactivateTableStep, CommitShape
  <1>15. ASSUME NEW h \in Handlers, RotateQr(h) PROVE FloorShape'
    BY <1>15, RotateQrStep, CommitShape
  <1>16. ASSUME NEW h \in Handlers, RevokeQr(h) PROVE FloorShape'
    BY <1>16, RevokeQrStep, CommitShape
  <1>17. ASSUME NEW k \in Tokens, Resolve(k) PROVE FloorShape'
    BY <1>17, ResolveShape
  <1>18. ASSUME NEW s \in Sessions, Quote(s) PROVE FloorShape'
    BY <1>18, QuoteShape
  <1>19. CASE UNCHANGED vars
    BY <1>19 DEF vars, FloorShape, TypeOK, Shape, TokensHaveTables
  <1> QED
    BY <1>1, <1>2, <1>3, <1>4, <1>5, <1>6, <1>7, <1>8, <1>9, <1>10,
       <1>11, <1>12, <1>13, <1>14, <1>15, <1>16, <1>17, <1>18, <1>19
    DEF Next, Step

\* Every state of the floor has the shape TypeOK gives it, for any requests,
\* handlers and tables: no handler leaves a session, an order, a bill or a
\* token under a number or in a status that does not exist.
THEOREM FloorTypeCorrect == Spec => []TypeOK
  <1>1. Init => FloorShape
    BY InitShape
  <1>2. FloorShape /\ [Next]_vars => FloorShape'
    BY FloorShapeStep
  <1>3. FloorShape => TypeOK
    BY DEF FloorShape
  <1> QED BY <1>1, <1>2, <1>3, PTL DEF Spec

-----------------------------------------------------------------------------
(***************************************************************************)
(* Serialisability and safety of the cafe floor, for every set of          *)
(* requests, handlers and tables.                                          *)
(*                                                                         *)
(* A snapshot is worth what its documents are (Seen): what belongs to a    *)
(* document the transaction has not missed is still committed.  A handler  *)
(* does not write every order it reads; the ones it leaves are rejected,   *)
(* cancelled, billed or closed, and from there no order comes back         *)
(* (Later).  With both, every commit is one of a handler that ran alone    *)
(* (the ...Alone lemmas), and the invariants of the floor (Sound) need to  *)
(* be shown for those only (the ...Sound lemmas).                          *)
(***************************************************************************)

-----------------------------------------------------------------------------
(* The invariant.                                                          *)

\* Numbers are handed out in order.
Numbered(d) ==
    /\ \A s \in Sessions : s > d.lastSession => d.session[s] = NoSession
    /\ \A o \in Orders : o > d.lastOrder => d.order[o] = NoOrder
    /\ \A i \in Invoices : i > d.lastInvoice => d.invoice[i].status = "none"
    /\ \A i \in Invoices : d.invoice[i].status = "none" => d.invoice[i] = NoBill
    /\ \A k \in Tokens : k > d.lastToken => d.token[k].table = None

\* TableShowsItsSession, session by session.
LiveAt(d, s, b) == d.session[s].table = b /\ d.session[s].status \in LiveStatus

TablesShow(d) ==
    /\ \A s \in Sessions :
         d.session[s].status \in LiveStatus => d.session[s].table \in Tables
    /\ \A b \in Tables :
         LET at == d.table[b].session
         IN  /\ \A s \in Sessions : LiveAt(d, s, b) => s = at
             /\ IF at = None THEN d.table[b].shown = "none"
                ELSE LiveAt(d, at, b) /\ d.table[b].shown = d.session[at].status

\* NothingArrivesAfterTheBillIsAsked, order by order.
AskedStaysAsked(d) ==
    \A o \in Orders :
        LET s == d.order[o].session
        IN  s # None /\ d.session[s].status = "bill_requested" =>
              d.order[o].status \in Dropped \cup {"bill_requested"}

\* An order is billed or closed as long as, and because, a bill charges it.
ChargedOnBills(d) ==
    \A o \in Orders :
        LET i == d.order[o].invoice
        IN  /\ i # None <=> d.order[o].status \in {"billed", "closed"}
            /\ i # None => /\ d.invoice[i].status # "none"
                           /\ o \in d.invoice[i].orders

\* Order o is of the session, or is the order, that bill x is for.
IsFor(d, x, o) ==
    IF x.session = None THEN o = x.order ELSE d.order[o].session = x.session

\* BillCoversItsSession, order by order, and what keeps it so.
BillCovers(d, i) ==
    LET x == d.invoice[i]
        s == x.session
    IN  /\ x.orders # {}
        /\ \A o \in Orders :
             o \in x.orders <=> IsFor(d, x, o) /\ d.order[o].status \notin Dropped
        /\ \A o \in x.orders :
             /\ d.order[o].invoice = i
             /\ x.status # "cancelled" =>
                  d.order[o].status = IF x.due = 0 THEN "closed" ELSE "billed"
             /\ s # None => d.order[o].status = d.session[s].status
        /\ s # None => /\ d.session[s].invoice = i
                       /\ x.version < d.session[s].version
        /\ s = None => x.order \in Orders /\ d.order[x.order].session = None

BillsCover(d) ==
    \A i \in Invoices : d.invoice[i].status # "none" => BillCovers(d, i)

\* A guest's order has left its key, and is the only one with that key.
GuestKeys(d) ==
    \A r \in Requests : \A o \in Orders :
        r.kind = "order" /\ r.token # None /\ d.order[o].request = r.id =>
            /\ OpKey(r) \in d.opkeys
            /\ \A x \in Orders : d.order[x].request = r.id => x = o

\* A quote that still has the session's version shows all its orders.
QuotesShow(d) ==
    \A s \in Sessions : \A q \in quoted[s] :
        /\ q.version <= d.session[s].version
        /\ q.version = d.session[s].version =>
             \A o \in Orders :
                d.order[o].session = s /\ d.order[o].status \notin Dropped
                  => o \in q.orders
        /\ \A i \in Invoices :
             d.invoice[i].session = s /\ d.invoice[i].version = q.version
               => d.invoice[i].orders \subseteq q.orders

Sound(d) ==
    /\ Numbered(d) /\ TablesShow(d) /\ AskedStaysAsked(d)
    /\ ChargedOnBills(d) /\ BillsCover(d) /\ GuestKeys(d) /\ QuotesShow(d)

\* From the database d to a later one, e.
Later(d, e) ==
    /\ \A o \in Orders :
         /\ d.order[o].status \in Dropped => e.order[o].status = d.order[o].status
         /\ d.order[o].status \in {"billed", "closed"} =>
              e.order[o].status \in {"billed", "closed"}
         /\ d.order[o].status = "closed" => e.order[o].status = "closed"
    /\ \A k \in Tokens :
         d.token[k].table # None =>
            /\ e.token[k].table = d.token[k].table
            /\ d.token[k].status # "live" => e.token[k].status # "live"

\* What belongs to the document is the same in d and in e.
SameBranch(d, e) ==
    /\ d.lastSession = e.lastSession /\ d.lastOrder = e.lastOrder
    /\ d.lastInvoice = e.lastInvoice /\ d.opkeys = e.opkeys
    /\ \A i \in Invoices : d.invoice[i].request = e.invoice[i].request

SameTable(d, e, b)   == d.table[b] = e.table[b] /\ TokensOf(d, b) = TokensOf(e, b)
SameSession(d, e, s) == d.session[s] = e.session[s] /\ OrdersOf(d, s) = OrdersOf(e, s)

\* d and e differ in documents of W at most.
DifferIn(W, d, e) ==
    /\ BranchDoc \notin W => SameBranch(d, e)
    /\ \A b \in Tables : TableDoc(b) \notin W => SameTable(d, e, b)
    /\ \A s \in Sessions : SessionDoc(s) \notin W => SameSession(d, e, s)
    /\ \A o \in Orders : OrderDoc(o) \notin W => d.order[o] = e.order[o]
    /\ \A i \in Invoices : InvoiceDoc(i) \notin W => d.invoice[i] = e.invoice[i]
    /\ \A k \in Tokens : TokenDoc(k) \notin W => d.token[k] = e.token[k]
    /\ TokenCounter \notin W => d.lastToken = e.lastToken
    /\ Later(d, e)

\* d and e agree in the documents of W.
AgreeIn(W, d, e) ==
    /\ BranchDoc \in W => SameBranch(d, e)
    /\ \A b \in Tables : TableDoc(b) \in W => SameTable(d, e, b)
    /\ \A s \in Sessions : SessionDoc(s) \in W => SameSession(d, e, s)
    /\ \A o \in Orders : OrderDoc(o) \in W => d.order[o] = e.order[o]
    /\ \A i \in Invoices : InvoiceDoc(i) \in W => d.invoice[i] = e.invoice[i]
    /\ \A k \in Tokens : TokenDoc(k) \in W => d.token[k] = e.token[k]
    /\ TokenCounter \in W => d.lastToken = e.lastToken
    /\ Later(d, e)

\* What an open transaction has not missed is still what it read.
SeenInv == \A h \in DOMAIN run : DifferIn(run[h].missed, run[h].snap, db)

FloorInv == FloorShape /\ Sound(db) /\ SeenInv

-----------------------------------------------------------------------------
(* Snapshots.                                                              *)

LEMMA LaterStill ==
    ASSUME NEW c, NEW d, NEW e, Later(c, d), Later(d, e)
    PROVE  Later(c, e)
  BY DEF Later

LEMMA LaterSame ==
    ASSUME NEW d, NEW e, d.order = e.order, d.token = e.token
    PROVE  Later(d, e)
  BY DEF Later

LEMMA DifferMore ==
    ASSUME NEW V, NEW W, NEW c, NEW d, NEW e, DifferIn(V, c, d), DifferIn(W, d, e)
    PROVE  DifferIn(V \cup W, c, e)
  <1>1. Later(c, e)
    BY LaterStill DEF DifferIn
  <1>2. BranchDoc \notin V \cup W => SameBranch(c, e)
    BY DEF DifferIn, SameBranch
  <1>3. \A b \in Tables : TableDoc(b) \notin V \cup W => SameTable(c, e, b)
    BY DEF DifferIn, SameTable
  <1>4. \A s \in Sessions : SessionDoc(s) \notin V \cup W => SameSession(c, e, s)
    BY DEF DifferIn, SameSession
  <1>5. /\ \A o \in Orders : OrderDoc(o) \notin V \cup W => c.order[o] = e.order[o]
        /\ \A i \in Invoices :
             InvoiceDoc(i) \notin V \cup W => c.invoice[i] = e.invoice[i]
        /\ \A k \in Tokens : TokenDoc(k) \notin V \cup W => c.token[k] = e.token[k]
        /\ TokenCounter \notin V \cup W => c.lastToken = e.lastToken
    BY DEF DifferIn
  <1> QED BY <1>1, <1>2, <1>3, <1>4, <1>5 DEF DifferIn

\* A transaction that commits read what is committed, in the documents it writes.
LEMMA ReadsCurrent ==
    ASSUME SeenInv, NEW h, NEW W, NEW next, Commits(h, W, next)
    PROVE  AgreeIn(W, run[h].snap, db)
  <1>1. DifferIn(run[h].missed, run[h].snap, db) /\ run[h].missed \cap W = {}
    BY DEF SeenInv, Commits, CommitTxn, NoConflict
  <1>2. \A x : x \in W => x \notin run[h].missed
    BY <1>1
  <1> QED BY <1>1, <1>2 DEF DifferIn, AgreeIn

LEMMA SeenKept ==
    ASSUME FloorShape, SeenInv, NEW h, NEW W, NEW next, Commits(h, W, next),
           DifferIn(W, db, next)
    PROVE  SeenInv'
  <1>1. /\ db' = next /\ DOMAIN run' \subseteq DOMAIN run
        /\ \A g \in DOMAIN run' :
              run'[g] = [run[g] EXCEPT !.missed = run[g].missed \cup W]
    BY DEF Commits, CommitTxn, EndTxn
  <1>2. ASSUME NEW g \in DOMAIN run'
        PROVE  /\ run'[g].snap = run[g].snap
               /\ run'[g].missed = run[g].missed \cup W
               /\ g \in DOMAIN run
    BY <1>1 DEF FloorShape, Shape
  <1>3. ASSUME NEW g \in DOMAIN run'
        PROVE  DifferIn(run'[g].missed, run'[g].snap, db')
    BY <1>1, <1>2, DifferMore DEF SeenInv
  <1> QED BY <1>3 DEF SeenInv

-----------------------------------------------------------------------------
(* Every commit is one of a handler that ran alone, on db: `a' is the work *)
(* of t with db for its snapshot.                                          *)

AsAlone(t, a) == a.op = t.op /\ a.snap = db

LEMMA OpenAlone ==
    ASSUME NEW t, NEW a, AsAlone(t, a), t.op \in OpenRequests,
           AgreeIn(OpenWrites(t), t.snap, db), OpenAllowed(t)
    PROVE  /\ OpenAllowed(a) /\ OpenWrites(a) = OpenWrites(t)
           /\ OpenEffect(a) = OpenEffect(t)
  <1>1. t.op.table \in Tables
    BY DEF OpenRequests
  <1>2. t.snap.lastSession = db.lastSession
    BY DEF OpenWrites, AgreeIn, SameBranch
  <1>3. t.snap.table[t.op.table] = db.table[t.op.table]
    BY <1>1 DEF OpenWrites, AgreeIn, SameTable
  <1> QED BY <1>2, <1>3 DEF AsAlone, OpenAllowed, OpenWrites, OpenEffect

LEMMA OrderAlone ==
    ASSUME NEW t, NEW a, AsAlone(t, a), t.op \in OrderRequests,
           AgreeIn(OrderWrites(t), t.snap, db), OrderAllowed(t)
    PROVE  /\ OrderAllowed(a) /\ OrderWrites(a) = OrderWrites(t)
           /\ OrderEffect(a) = OrderEffect(t)
  <1>1. t.op.session \in Sessions \cup {None}
    BY DEF OrderRequests
  <1>2. t.snap.lastOrder = db.lastOrder /\ t.snap.opkeys = db.opkeys
    BY DEF OrderWrites, AgreeIn, SameBranch
  <1>3. t.op.session # None => t.snap.session[t.op.session] = db.session[t.op.session]
    BY <1>1 DEF OrderWrites, AgreeIn, SameSession
  <1> QED BY <1>2, <1>3 DEF AsAlone, OrderAllowed, OrderWrites, OrderEffect

LEMMA MoveAlone ==
    ASSUME NEW t, NEW a, AsAlone(t, a), t.op \in MoveRequests,
           AgreeIn(MoveWrites(t), t.snap, db), MoveAllowed(t)
    PROVE  /\ MoveAllowed(a) /\ MoveWrites(a) = MoveWrites(t)
           /\ MoveEffect(a) = MoveEffect(t)
  <1>1. t.snap.order[t.op.order] = db.order[t.op.order]
    BY DEF MoveRequests, MoveWrites, AgreeIn
  <1> QED BY <1>1 DEF AsAlone, MoveAllowed, MoveWrites, MoveEffect

LEMMA AskAlone ==
    ASSUME NEW t, NEW a, AsAlone(t, a), t.op \in AskRequests,
           AgreeIn(AskWrites(t), t.snap, db), AskAllowed(t)
    PROVE  /\ AskAllowed(a) /\ AskWrites(a) = AskWrites(t)
           /\ AskEffect(a) = AskEffect(t)
  <1> DEFINE s == t.op.session
  <1>1. s \in Sessions
    BY DEF AskRequests
  <1>2. SameSession(t.snap, db, s)
    BY <1>1 DEF AskWrites, AgreeIn
  <1>3. \A o \in AskedOrders(t) : t.snap.order[o] = db.order[o]
    BY DEF AskWrites, AgreeIn, AskedOrders, OrdersOf
  <1>4. Later(t.snap, db)
    BY DEF AgreeIn
  <1>5. AskedOrders(a) = AskedOrders(t)
    <2>1. \A o \in OrdersOf(db, s) :
             o \in AskedOrders(a) <=> db.order[o].status \notin Dropped \cup {"closed", "billed"}
      BY DEF AsAlone, AskedOrders
    <2>2. \A o \in OrdersOf(db, s) :
             o \in AskedOrders(t) <=> t.snap.order[o].status \notin Dropped \cup {"closed", "billed"}
      BY <1>2 DEF AskedOrders, SameSession
    <2>3. \A o \in OrdersOf(db, s) : o \in AskedOrders(a) <=> o \in AskedOrders(t)
      BY <1>3, <1>4, <2>1, <2>2 DEF Later, Dropped, OrdersOf
    <2>4. AskedOrders(a) \subseteq OrdersOf(db, s) /\ AskedOrders(t) \subseteq OrdersOf(db, s)
      BY <1>2 DEF AsAlone, AskedOrders, SameSession
    <2> QED BY <2>3, <2>4
  <1>6. AskAllowed(a)
    BY <1>2, <1>3, <1>5 DEF AsAlone, AskAllowed, SameSession
  <1>7. AskWrites(a) = AskWrites(t) /\ AskEffect(a) = AskEffect(t)
    BY <1>2, <1>5 DEF AsAlone, AskWrites, AskEffect, SameSession
  <1> QED BY <1>6, <1>7

LEMMA CloseAlone ==
    ASSUME NEW t, NEW a, AsAlone(t, a), t.op \in CloseRequests,
           AgreeIn(CloseWrites(t), t.snap, db), CloseAllowed(t)
    PROVE  /\ CloseAllowed(a) /\ CloseWrites(a) = CloseWrites(t)
           /\ CloseEffect(a) = CloseEffect(t)
  <1>1. SameSession(t.snap, db, t.op.session)
    BY DEF CloseRequests, CloseWrites, AgreeIn
  <1>2. \A o \in OrdersOf(t.snap, t.op.session) :
           db.order[o].status \in Dropped \cup {"closed"}
    BY DEF CloseAllowed, AgreeIn, Later, OrdersOf
  <1> QED BY <1>1, <1>2
          DEF AsAlone, CloseAllowed, CloseWrites, CloseEffect, SameSession

\* The orders a bill is about, when the session and they are written.
LEMMA BilledAlone ==
    ASSUME NEW d, NEW s \in Sessions \cup {None}, NEW o, s = None => o \in Orders,
           NEW W, FinalWrites(d, s, o) \subseteq W, AgreeIn(W, d, db)
    PROVE  /\ s # None => SameSession(d, db, s)
           /\ BilledOrders(d, s, o) = BilledOrders(db, s, o)
           /\ \A x \in BilledOrders(d, s, o) : d.order[x] = db.order[x]
           /\ FinalWrites(d, s, o) = FinalWrites(db, s, o)
  <1> DEFINE X == IF s = None THEN {o} ELSE OrdersOf(db, s)
  <1>1. s # None => SameSession(d, db, s)
    BY DEF FinalWrites, AgreeIn
  <1>2. X \subseteq Orders
    BY DEF OrdersOf
  <1>3. /\ BilledOrders(d, s, o) = {x \in X : d.order[x].status \notin Dropped}
        /\ BilledOrders(db, s, o) = {x \in X : db.order[x].status \notin Dropped}
    BY <1>1 DEF BilledOrders, SameSession
  <1> HIDE DEF X
  <1>4. \A x \in BilledOrders(d, s, o) : d.order[x] = db.order[x]
    BY <1>2, <1>3 DEF FinalWrites, AgreeIn
  <1>5. BilledOrders(d, s, o) = BilledOrders(db, s, o)
    BY <1>2, <1>3, <1>4 DEF AgreeIn, Later
  <1> QED BY <1>1, <1>4, <1>5 DEF FinalWrites, SameSession

LEMMA BillAlone ==
    ASSUME NEW t, NEW a, AsAlone(t, a), t.op \in BillRequests,
           (t.op.session = None) # (t.op.order = None),
           AgreeIn(BillWrites(t), t.snap, db), BillAllowed(t)
    PROVE  /\ BillAllowed(a) /\ BillWrites(a) = BillWrites(t)
           /\ BillEffect(a) = BillEffect(t)
  <1> DEFINE s == t.op.session
             o == t.op.order
  <1>1. s \in Sessions \cup {None} /\ (s = None => o \in Orders)
    BY DEF BillRequests
  <1>2. /\ s # None => SameSession(t.snap, db, s)
        /\ BilledOrders(t.snap, s, o) = BilledOrders(db, s, o)
        /\ \A x \in BilledOrders(t.snap, s, o) : t.snap.order[x] = db.order[x]
        /\ FinalWrites(t.snap, s, o) = FinalWrites(db, s, o)
    <2>1. FinalWrites(t.snap, s, o) \subseteq BillWrites(t)
      BY DEF BillWrites
    <2> QED BY <1>1, <2>1, BilledAlone
  <1>3. Charged(a) = Charged(t) /\ Charged(t) = BilledOrders(t.snap, s, o)
    BY <1>2 DEF AsAlone, Charged
  <1>4. /\ t.snap.lastInvoice = db.lastInvoice
        /\ \A i \in Invoices : t.snap.invoice[i].request = db.invoice[i].request
    BY DEF BillWrites, AgreeIn, SameBranch
  <1>5. s = None => t.snap.order[o] = db.order[o]
    BY <1>2, <1>3 DEF BillAllowed, BilledOrders
  <1>6. BillAllowed(a)
    <2>1. \A x \in Charged(a) : /\ db.order[x].status \in Eligible
                                /\ db.order[x].invoice = None
      BY <1>2, <1>3 DEF BillAllowed
    <2>2. s # None => t.snap.session[s] = db.session[s]
      BY <1>2 DEF SameSession
    <2> HIDE DEF s, o
    <2> QED BY <1>3, <1>4, <1>5, <2>1, <2>2 DEF AsAlone, BillAllowed, s, o
  <1>7. BillWrites(a) = BillWrites(t)
    BY <1>2, <1>4 DEF AsAlone, BillWrites
  <1>8. BillEffect(a) = BillEffect(t)
    <2>1. s # None => t.snap.session[s] = db.session[s]
      BY <1>2 DEF SameSession
    <2> QED BY <1>3, <1>4, <2>1 DEF AsAlone, BillEffect
  <1> QED BY <1>6, <1>7, <1>8

LEMMA CollectAlone ==
    ASSUME NEW t, NEW a, AsAlone(t, a), t.op \in CollectRequests,
           db \in FloorType, BillsCover(db),
           AgreeIn(CollectWrites(t), t.snap, db), CollectAllowed(t)
    PROVE  /\ CollectAllowed(a) /\ CollectWrites(a) = CollectWrites(t)
           /\ CollectEffect(a) = CollectEffect(t)
  <1> DEFINE i == t.op.invoice
             s == t.snap.invoice[i].session
             o == t.snap.invoice[i].order
  <1>1. i \in Invoices
    BY DEF CollectRequests
  <1>2. t.snap.invoice[i] = db.invoice[i] /\ t.snap.opkeys = db.opkeys
    BY <1>1 DEF CollectWrites, AgreeIn, SameBranch
  <1>3. s \in Sessions \cup {None} /\ (s = None => o \in Orders)
    <2>1. db.invoice[i] \in BillType
      BY <1>1, FloorFields DEF HasFields
    <2>2. db.invoice[i].status # "none"
      BY <1>2 DEF CollectAllowed
    <2> QED BY <1>1, <1>2, <2>1, <2>2 DEF BillType, BillsCover, BillCovers
  <1>4. /\ BilledOrders(t.snap, s, o) = BilledOrders(db, s, o)
        /\ FinalWrites(t.snap, s, o) = FinalWrites(db, s, o)
    <2>1. FinalWrites(t.snap, s, o) \subseteq CollectWrites(t)
      BY DEF CollectWrites
    <2> HIDE DEF s, o
    <2> QED BY <1>3, <2>1, BilledAlone
  <1>5. Collected(a) = Collected(t)
    BY <1>2, <1>4 DEF AsAlone, Collected
  <1> QED BY <1>2, <1>4, <1>5 DEF AsAlone, CollectAllowed, CollectWrites, CollectEffect

LEMMA VoidAlone ==
    ASSUME NEW t, NEW a, AsAlone(t, a), t.op \in VoidRequests,
           AgreeIn(VoidWrites(t), t.snap, db), VoidAllowed(t)
    PROVE  /\ VoidAllowed(a) /\ VoidWrites(a) = VoidWrites(t)
           /\ VoidEffect(a) = VoidEffect(t)
  <1>1. /\ t.snap.invoice[t.op.invoice] = db.invoice[t.op.invoice]
        /\ t.snap.opkeys = db.opkeys
    BY DEF VoidRequests, VoidWrites, AgreeIn, SameBranch
  <1> QED BY <1>1 DEF AsAlone, VoidAllowed, VoidWrites, VoidEffect

LEMMA EditAlone ==
    ASSUME NEW t, NEW a, AsAlone(t, a)
    PROVE  EditAllowed(a) /\ EditWrites(a) = EditWrites(t) /\ EditEffect(a) = EditEffect(t)
  BY DEF AsAlone, EditAllowed, EditWrites, EditEffect

LEMMA DeactivateAlone ==
    ASSUME NEW t, NEW a, AsAlone(t, a), t.op \in TableRequests,
           AgreeIn(DeactivateWrites(t), t.snap, db), DeactivateAllowed(t)
    PROVE  /\ DeactivateAllowed(a) /\ DeactivateWrites(a) = DeactivateWrites(t)
           /\ DeactivateEffect(a) = DeactivateEffect(t)
  <1>1. SameTable(t.snap, db, t.op.table)
    BY DEF TableRequests, DeactivateWrites, AgreeIn
  <1> QED BY <1>1
          DEF AsAlone, DeactivateAllowed, DeactivateWrites, DeactivateEffect, SameTable

\* The live tokens of a table, when the table and they are written.
LEMMA LiveAlone ==
    ASSUME NEW d, NEW b \in Tables, NEW W, TableDoc(b) \in W,
           {TokenDoc(k) : k \in LiveTokens(d, b)} \subseteq W, AgreeIn(W, d, db)
    PROVE  LiveTokens(d, b) = LiveTokens(db, b)
  <1>1. TokensOf(d, b) = TokensOf(db, b)
    BY DEF AgreeIn, SameTable
  <1>2. \A k \in LiveTokens(d, b) : d.token[k] = db.token[k]
    BY DEF AgreeIn, LiveTokens
  <1>3. \A k \in TokensOf(d, b) : d.token[k].status # "live" => db.token[k].status # "live"
    BY FloorAssumption DEF AgreeIn, Later, TokensOf
  <1> QED BY <1>1, <1>2, <1>3 DEF LiveTokens, TokensOf

LEMMA RotateAlone ==
    ASSUME NEW t, NEW a, AsAlone(t, a), t.op \in TableRequests,
           AgreeIn(RotateWrites(t), t.snap, db), RotateAllowed(t)
    PROVE  /\ RotateAllowed(a) /\ RotateWrites(a) = RotateWrites(t)
           /\ RotateEffect(a) = RotateEffect(t)
  <1>1. t.snap.lastToken = db.lastToken
    BY DEF RotateWrites, AgreeIn
  <1>2. LiveTokens(t.snap, t.op.table) = LiveTokens(db, t.op.table)
    BY LiveAlone DEF TableRequests, RotateWrites
  <1> QED BY <1>1, <1>2 DEF AsAlone, RotateAllowed, RotateWrites, RotateEffect

LEMMA RevokeAlone ==
    ASSUME NEW t, NEW a, AsAlone(t, a), t.op \in TableRequests,
           AgreeIn(RevokeWrites(t), t.snap, db), RevokeAllowed(t)
    PROVE  /\ RevokeAllowed(a) /\ RevokeWrites(a) = RevokeWrites(t)
           /\ RevokeEffect(a) = RevokeEffect(t)
  <1>1. LiveTokens(t.snap, t.op.table) = LiveTokens(db, t.op.table)
    BY LiveAlone DEF TableRequests, RevokeWrites
  <1> QED BY <1>1 DEF AsAlone, RevokeAllowed, RevokeWrites, RevokeEffect

-----------------------------------------------------------------------------
(* A handler that runs alone keeps the floor sound, and writes a document  *)
(* for everything it changes.                                              *)

LEMMA FloorFacts ==
    ASSUME FloorInv
    PROVE  /\ db \in FloorType /\ HasFields(db) /\ Sound(db)
           /\ quoted \in [Sessions -> SUBSET [version: Nat, orders: SUBSET Orders]]
  BY FloorFields DEF FloorInv, FloorShape, TypeOK

\* The session of a bill is billed, or closed once nothing is due.
LEMMA BilledSession ==
    ASSUME FloorInv, NEW i \in Invoices, NEW x, x = db.invoice[i],
           x.status # "none", x.session # None
    PROVE  /\ x.session \in Sessions
           /\ db.session[x.session].status \in {"billed", "closed"}
           /\ x.status # "cancelled" =>
                db.session[x.session].status = IF x.due = 0 THEN "closed" ELSE "billed"
  <1>1. HasFields(db) /\ Sound(db)
    BY FloorFacts
  <1>2. BillCovers(db, i) /\ x \in BillType
    BY <1>1 DEF Sound, BillsCover, HasFields
  <1>3. PICK o \in x.orders : o \in Orders
    BY <1>2 DEF BillCovers, BillType
  <1>4. /\ db.order[o].invoice = i
        /\ db.order[o].status = db.session[x.session].status
        /\ x.status # "cancelled" =>
             db.order[o].status = IF x.due = 0 THEN "closed" ELSE "billed"
    BY <1>2, <1>3 DEF BillCovers
  <1>5. db.order[o].status \in {"billed", "closed"}
    BY <1>1, <1>3, <1>4 DEF Sound, ChargedOnBills, Invoices, None
  <1> QED BY <1>2, <1>4, <1>5 DEF BillType

\* A number that was not handed out names nothing.
LEMMA NotHandedOut ==
    ASSUME FloorInv
    PROVE  /\ \A s \in Sessions : s > db.lastSession =>
                /\ db.session[s] = NoSession
                /\ \A i \in Invoices : db.invoice[i].session # s
           /\ \A o \in Orders : o > db.lastOrder =>
                /\ db.order[o] = NoOrder
                /\ \A i \in Invoices :
                     db.invoice[i].status # "none" /\ db.invoice[i].session = None
                       => db.invoice[i].order # o
  <1>1. HasFields(db) /\ Sound(db)
    BY FloorFacts
  <1>2. ASSUME NEW s \in Sessions, s > db.lastSession, NEW i \in Invoices,
               db.invoice[i].session = s
        PROVE  FALSE
    <2>1. db.session[s].version = 0
      BY <1>1, <1>2 DEF Sound, Numbered, NoSession
    <2>2. s # None
      BY DEF Sessions, None
    <2>3. db.invoice[i].status # "none"
      BY <1>1, <1>2, <2>2 DEF Sound, Numbered, NoBill
    <2>4. db.invoice[i].version < 0
      BY <1>1, <1>2, <2>1, <2>2, <2>3 DEF Sound, BillsCover, BillCovers
    <2> QED BY <1>1, <2>4 DEF HasFields, BillType
  <1>3. ASSUME NEW o \in Orders, o > db.lastOrder, NEW i \in Invoices,
               db.invoice[i].status # "none", db.invoice[i].session = None,
               db.invoice[i].order = o
        PROVE  FALSE
    <2>1. BillCovers(db, i) /\ db.invoice[i].orders \subseteq Orders
      BY <1>1, <1>3 DEF Sound, BillsCover, HasFields, BillType
    <2>2. PICK x \in db.invoice[i].orders : x \in Orders
      BY <2>1 DEF BillCovers
    <2>3. x = o /\ db.order[x].invoice = i
      BY <1>3, <2>1, <2>2 DEF BillCovers, IsFor
    <2>4. db.order[o].invoice = None /\ i # None
      BY <1>1, <1>3 DEF Sound, Numbered, NoOrder, Invoices, None
    <2> QED BY <2>3, <2>4
  <1> QED BY <1>1, <1>2, <1>3 DEF Sound, Numbered

LEMMA OpenSound ==
    ASSUME FloorInv, NEW a, a.snap = db, a.op \in OpenRequests, OpenAllowed(a),
           NEW e \in FloorType, e = OpenEffect(a)
    PROVE  DifferIn(OpenWrites(a), db, e) /\ Sound(e)
  <1> DEFINE s == db.lastSession + 1
             b == a.op.table
  <1>1. HasFields(db) /\ HasFields(e) /\ Sound(db)
    BY FloorFacts, FloorFields
  <1>2. s \in Sessions /\ b \in Tables
    <2>1. db.lastSession \in 0..MaxSession /\ db.lastSession < MaxSession
      BY <1>1 DEF HasFields, OpenAllowed
    <2> QED BY <2>1, FloorAssumption DEF Sessions, OpenRequests
  <1>3. OpenLeaves(a, e)
    BY <1>2, OpenDelta, FloorFacts
  <1>4. /\ e.lastSession = s
        /\ e.session[s] = [table |-> b, status |-> "open", version |-> 1, invoice |-> None]
        /\ \A x \in Sessions : x # s => e.session[x] = db.session[x]
        /\ e.table[b].session = s /\ e.table[b].shown = "open"
        /\ \A x \in Tables : x # b => e.table[x] = db.table[x]
        /\ e.order = db.order /\ e.invoice = db.invoice /\ e.token = db.token
        /\ e.opkeys = db.opkeys /\ e.lastOrder = db.lastOrder
        /\ e.lastInvoice = db.lastInvoice /\ e.lastToken = db.lastToken
    BY <1>1, <1>2, <1>3 DEF OpenLeaves, HasFields, TableType
  <1>5. /\ db.session[s] = NoSession
        /\ \A i \in Invoices : db.invoice[i].session # s
        /\ db.table[b].session = None
    <2>1. s > db.lastSession
      BY <1>1 DEF HasFields
    <2> QED BY <1>2, <2>1, NotHandedOut DEF OpenAllowed
  <1>6. DifferIn(OpenWrites(a), db, e)
    <2>1. \A x \in Sessions : SessionDoc(x) \notin OpenWrites(a) => x # s
      BY DEF OpenWrites
    <2>2. \A x \in Tables : TableDoc(x) \notin OpenWrites(a) => x # b
      BY DEF OpenWrites
    <2>3. BranchDoc \in OpenWrites(a)
      BY DEF OpenWrites
    <2> QED BY <1>4, <2>1, <2>2, <2>3, LaterSame
            DEF DifferIn, SameTable, SameSession, TokensOf, OrdersOf
  <1> HIDE DEF s, b
  <1>7. Numbered(e)
    <2>1. \A x \in Sessions : x > s => x # s /\ x > db.lastSession
      BY <1>1 DEF s, HasFields, Sessions
    <2> QED BY <1>1, <1>4, <2>1 DEF Sound, Numbered
  <1>8. TablesShow(e)
    <2>1. \A x \in Sessions : x # s => \A y : LiveAt(e, x, y) <=> LiveAt(db, x, y)
      BY <1>4 DEF LiveAt
    <2>2. \A y \in Tables : LiveAt(e, s, y) <=> y = b
      BY <1>4 DEF LiveAt, LiveStatus
    <2>3. \A y \in Tables : ~LiveAt(db, s, y)
      BY <1>5 DEF LiveAt, NoSession, LiveStatus
    <2>4. s # None
      BY <1>2 DEF Sessions, None
    <2>5. \A x \in Sessions : ~LiveAt(db, x, b)
      BY <1>1, <1>2, <1>5 DEF Sound, TablesShow, Sessions, None
    <2>6. \A y \in Tables : db.table[y].session # None => db.table[y].session \in Sessions
      BY <1>1 DEF HasFields, TableType
    <2>7. ASSUME NEW y \in Tables
          PROVE  LET at == e.table[y].session
                 IN  /\ \A x \in Sessions : LiveAt(e, x, y) => x = at
                     /\ IF at = None THEN e.table[y].shown = "none"
                        ELSE LiveAt(e, at, y) /\ e.table[y].shown = e.session[at].status
      <3>1. CASE y = b
        BY <1>2, <1>4, <2>1, <2>2, <2>4, <2>5, <3>1
      <3>2. CASE y # b
        <4>1. /\ \A x \in Sessions : LiveAt(db, x, y) => x = db.table[y].session
              /\ IF db.table[y].session = None THEN db.table[y].shown = "none"
                 ELSE LiveAt(db, db.table[y].session, y)
                      /\ db.table[y].shown = db.session[db.table[y].session].status
          BY <1>1 DEF Sound, TablesShow
        <4>2. db.table[y].session # s
          BY <2>3, <2>4, <4>1
        <4> QED BY <1>4, <2>1, <2>2, <2>6, <3>2, <4>1, <4>2
      <3> QED BY <3>1, <3>2
    <2>8. \A x \in Sessions : e.session[x].status \in LiveStatus => e.session[x].table \in Tables
      BY <1>1, <1>2, <1>4 DEF Sound, TablesShow
    <2> QED BY <2>7, <2>8 DEF TablesShow
  <1>9. AskedStaysAsked(e)
    <2>1. \A o \in Orders : db.order[o].session \in Sessions \cup {None}
      BY <1>1 DEF HasFields, OrderType
    <2> QED BY <1>1, <1>4, <2>1 DEF Sound, AskedStaysAsked
  <1>10. ChargedOnBills(e)
    BY <1>1, <1>4 DEF Sound, ChargedOnBills
  <1>11. BillsCover(e)
    <2>1. \A i \in Invoices : /\ db.invoice[i].session \in Sessions \cup {None}
                              /\ db.invoice[i].session # s
      BY <1>1, <1>5 DEF HasFields, BillType
    <2>2. \A i \in Invoices : db.invoice[i].session # None =>
             e.session[db.invoice[i].session] = db.session[db.invoice[i].session]
      BY <1>4, <2>1
    <2> QED BY <1>1, <1>4, <2>2 DEF Sound, BillsCover, BillCovers, IsFor
  <1>12. GuestKeys(e)
    BY <1>1, <1>4 DEF Sound, GuestKeys
  <1>13. QuotesShow(e)
    <2>1. \A q \in quoted[s] : q.version \in Nat /\ q.version <= 0
      BY <1>1, <1>2, <1>5, FloorFacts DEF Sound, QuotesShow, NoSession
    <2>2. \A q \in quoted[s] : q.version <= 1 /\ q.version # 1
      BY <2>1
    <2> QED BY <1>1, <1>4, <1>5, <2>2 DEF Sound, QuotesShow
  <1> QED BY <1>6, <1>7, <1>8, <1>9, <1>10, <1>11, <1>12, <1>13 DEF Sound

\* Who changes what a quote shows, raises the version; no bill is made.
LEMMA QuotesRaised ==
    ASSUME FloorInv, NEW e,
           \A x \in Sessions :
              \/ e.session[x].version = db.session[x].version + 1
              \/ /\ e.session[x].version = db.session[x].version
                 /\ \A o \in Orders :
                      e.order[o].session = x /\ e.order[o].status \notin Dropped =>
                        db.order[o].session = x /\ db.order[o].status \notin Dropped,
           \A i \in Invoices : /\ e.invoice[i].session = db.invoice[i].session
                               /\ e.invoice[i].version = db.invoice[i].version
                               /\ e.invoice[i].orders = db.invoice[i].orders
    PROVE  QuotesShow(e)
  <1>1. HasFields(db) /\ QuotesShow(db)
    BY FloorFacts DEF Sound
  <1> SUFFICES ASSUME NEW x \in Sessions, NEW q \in quoted[x]
               PROVE  /\ q.version <= e.session[x].version
                      /\ q.version = e.session[x].version =>
                           \A o \in Orders :
                             e.order[o].session = x /\ e.order[o].status \notin Dropped
                               => o \in q.orders
    BY <1>1 DEF QuotesShow
  <1>2. q.version \in Nat /\ db.session[x].version \in Nat
    BY <1>1, FloorFacts DEF HasFields, SessionType
  <1>3. q.version <= db.session[x].version
    BY <1>1 DEF QuotesShow
  <1>4. CASE e.session[x].version = db.session[x].version + 1
    BY <1>2, <1>3, <1>4
  <1>5. CASE e.session[x].version # db.session[x].version + 1
    BY <1>1, <1>3, <1>5 DEF QuotesShow
  <1> QED BY <1>4, <1>5

\* Tables and sessions as TablesShow looks at them.
LEMMA SameShow ==
    ASSUME HasFields(db), TablesShow(db), NEW e,
           \A s \in Sessions : /\ e.session[s].table = db.session[s].table
                               /\ e.session[s].status = db.session[s].status,
           \A b \in Tables : /\ e.table[b].session = db.table[b].session
                             /\ e.table[b].shown = db.table[b].shown
    PROVE  TablesShow(e)
  <1>1. \A b \in Tables : db.table[b].session # None => db.table[b].session \in Sessions
    BY DEF HasFields, TableType
  <1>2. \A s \in Sessions : \A b : LiveAt(e, s, b) <=> LiveAt(db, s, b)
    BY DEF LiveAt
  <1>3. ASSUME NEW b \in Tables
        PROVE  LET at == e.table[b].session
               IN  /\ \A s \in Sessions : LiveAt(e, s, b) => s = at
                   /\ IF at = None THEN e.table[b].shown = "none"
                      ELSE LiveAt(e, at, b) /\ e.table[b].shown = e.session[at].status
    BY <1>1, <1>2 DEF TablesShow
  <1>4. \A s \in Sessions : e.session[s].status \in LiveStatus => e.session[s].table \in Tables
    BY DEF TablesShow
  <1> QED BY <1>3, <1>4 DEF TablesShow

LEMMA OrderSound ==
    ASSUME FloorInv, NEW a, a.snap = db, a.op \in OrderRequests, a.op \in Requests,
           OrderAllowed(a), NEW e \in FloorType, e = OrderEffect(a)
    PROVE  DifferIn(OrderWrites(a), db, e) /\ Sound(e)
  <1> DEFINE o == db.lastOrder + 1
             s == a.op.session
  <1>1. HasFields(db) /\ HasFields(e) /\ Sound(db)
    BY FloorFacts, FloorFields
  <1>2. o \in Orders /\ s \in Sessions \cup {None} /\ a.op.kind = "order"
    <2>1. db.lastOrder \in 0..MaxOrder /\ db.lastOrder < MaxOrder
      BY <1>1 DEF HasFields, OrderAllowed
    <2> QED BY <2>1, FloorAssumption DEF Orders, OrderRequests
  <1>3. OrderLeaves(a, e)
    BY <1>2, OrderDelta, FloorFacts
  <1>4. /\ e.lastOrder = o
        /\ e.order[o] = [session |-> s, status |-> "placed", invoice |-> None,
                         request |-> a.op.id]
        /\ \A x \in Orders : x # o => e.order[x] = db.order[x]
        /\ \A x \in Sessions : x # s => e.session[x] = db.session[x]
        /\ e.opkeys = IF a.op.token = None THEN db.opkeys
                      ELSE db.opkeys \cup {OpKey(a.op)}
        /\ e.table = db.table /\ e.invoice = db.invoice /\ e.token = db.token
        /\ e.lastSession = db.lastSession /\ e.lastInvoice = db.lastInvoice
        /\ e.lastToken = db.lastToken
    BY <1>1, <1>2, <1>3 DEF OrderLeaves, HasFields
  <1>5. s # None => /\ e.session[s].version = db.session[s].version + 1
                    /\ e.session[s].table = db.session[s].table
                    /\ e.session[s].status = db.session[s].status
                    /\ db.session[s].status = "open"
    <2>1. s # None => e.session = [db.session EXCEPT ![s] =
                                     [db.session[s] EXCEPT !.version = @ + 1]]
      BY <1>3 DEF OrderLeaves
    <2>2. s # None => db.session[s] \in SessionType
      BY <1>1, <1>2 DEF HasFields
    <2> QED BY <1>1, <1>2, <2>1, <2>2 DEF OrderAllowed, HasFields, SessionType
  <1>6. /\ db.order[o] = NoOrder
        /\ \A i \in Invoices : db.invoice[i].status # "none" =>
             (db.invoice[i].session = None => db.invoice[i].order # o)
    <2>1. o > db.lastOrder
      BY <1>1 DEF HasFields
    <2> QED BY <1>2, <2>1, NotHandedOut
  <1>7. DifferIn(OrderWrites(a), db, e)
    <2>1. \A x \in Orders : OrderDoc(x) \notin OrderWrites(a) => x # o
      BY DEF OrderWrites
    <2>2. \A x \in Sessions : SessionDoc(x) \notin OrderWrites(a) =>
             SameSession(db, e, x)
      <3> SUFFICES ASSUME NEW x \in Sessions, SessionDoc(x) \notin OrderWrites(a)
                   PROVE  SameSession(db, e, x)
        OBVIOUS
      <3>1. x # s /\ x # None
        BY DEF OrderWrites, Sessions, None
      <3>2. \A y \in Orders : db.order[y].session = x <=> e.order[y].session = x
        BY <1>2, <1>4, <1>6, <3>1 DEF NoOrder
      <3> HIDE DEF s, o
      <3> QED BY <1>4, <3>1, <3>2 DEF SameSession, OrdersOf
    <2>3. BranchDoc \in OrderWrites(a)
      BY DEF OrderWrites
    <2>4. Later(db, e)
      <3>1. db.order[o].status = "none"
        BY <1>6 DEF NoOrder
      <3> HIDE DEF o, s
      <3> QED BY <1>4, <3>1 DEF Later, Dropped
    <2> HIDE DEF o, s
    <2> QED BY <1>4, <2>1, <2>2, <2>3, <2>4 DEF DifferIn, SameTable, TokensOf
  <1>a. \A x \in Sessions : /\ e.session[x].table = db.session[x].table
                            /\ e.session[x].status = db.session[x].status
                            /\ x # s => e.session[x].version = db.session[x].version
    BY <1>4, <1>5 DEF Sessions, None
  <1>b. o > db.lastOrder /\ \A x \in Orders : x > o => x # o /\ x > db.lastOrder
    BY <1>1 DEF HasFields, Orders
  <1>c. \A x \in Orders : db.order[x].session \in Sessions \cup {None}
    BY <1>1 DEF HasFields, OrderType
  <1> HIDE DEF o, s
  <1>8. Numbered(e)
    <2>1. \A x \in Sessions : x > db.lastSession => x # s
      BY <1>1, <1>2, <1>5 DEF Sound, Numbered, NoSession, Sessions, None
    <2> QED BY <1>1, <1>4, <1>b, <2>1 DEF Sound, Numbered
  <1>9. TablesShow(e)
    BY <1>1, <1>4, <1>a, SameShow DEF Sound
  <1>10. AskedStaysAsked(e)
    <2>1. s # None => e.session[s].status # "bill_requested"
      BY <1>5
    <2> QED BY <1>1, <1>4, <1>a, <1>c, <2>1 DEF Sound, AskedStaysAsked
  <1>11. ChargedOnBills(e)
    BY <1>1, <1>4 DEF Sound, ChargedOnBills
  <1>12. BillsCover(e)
    <2> SUFFICES ASSUME NEW i \in Invoices, db.invoice[i].status # "none"
                 PROVE  BillCovers(e, i)
      BY <1>4 DEF BillsCover
    <2> DEFINE x == db.invoice[i]
    <2>1. BillCovers(db, i) /\ x \in BillType
      BY <1>1 DEF Sound, BillsCover, HasFields
    <2>2. x.session \in Sessions \cup {None} /\ x.orders \subseteq Orders
      BY <2>1 DEF BillType
    <2>3. x.session # None => x.session # s
      BY <1>5, BilledSession
    <2>4. o \notin x.orders
      BY <1>2, <1>6, <2>1 DEF BillCovers, NoOrder, Invoices, None
    <2>5. ~IsFor(e, x, o)
      BY <1>4, <1>6, <2>3 DEF IsFor
    <2>6. \A y \in Orders : y # o => (IsFor(e, x, y) <=> IsFor(db, x, y))
      BY <1>4 DEF IsFor
    <2>7. x.session # None => e.session[x.session] = db.session[x.session]
      BY <1>4, <2>2, <2>3
    <2>8. x.session = None => x.order # o
      BY <1>6
    <2>9. e.invoice[i] = x
      BY <1>4
    <2> HIDE DEF x
    <2> QED BY <1>4, <2>1, <2>2, <2>4, <2>5, <2>6, <2>7, <2>8, <2>9 DEF BillCovers, x
  <1>13. GuestKeys(e)
    <2> SUFFICES ASSUME NEW r \in Requests, NEW y \in Orders,
                        r.kind = "order", r.token # None, e.order[y].request = r.id
                 PROVE  /\ OpKey(r) \in e.opkeys
                        /\ \A x \in Orders : e.order[x].request = r.id => x = y
      BY DEF GuestKeys
    <2>1. \A x \in Orders : db.order[x].request = r.id =>
            /\ OpKey(r) \in db.opkeys
            /\ \A z \in Orders : db.order[z].request = r.id => z = x
      BY <1>1 DEF Sound, GuestKeys
    <2>2. CASE a.op.id = r.id
      <3>1. a.op.token # None /\ OpKey(a.op) = OpKey(r)
        BY <1>2, <2>2, FloorRequestAssumption DEF OpKey
      <3>2. OpKey(r) \notin db.opkeys
        BY <3>1 DEF OrderAllowed
      <3> QED BY <1>4, <2>1, <3>1, <3>2
    <2>3. CASE a.op.id # r.id
      BY <1>4, <2>1, <2>3
    <2> QED BY <2>2, <2>3
  <1>14. QuotesShow(e)
    <2>1. s # None => e.session[s].version = db.session[s].version + 1
      BY <1>5
    <2> QED BY <1>4, <1>a, <2>1, QuotesRaised DEF Sessions, None
  <1> QED BY <1>7, <1>8, <1>9, <1>10, <1>11, <1>12, <1>13, <1>14 DEF Sound

LEMMA MoveSound ==
    ASSUME FloorInv, NEW a, a.snap = db, a.op \in MoveRequests,
           MoveAllowed(a), NEW e \in FloorType, e = MoveEffect(a)
    PROVE  DifferIn(MoveWrites(a), db, e) /\ Sound(e)
  <1> DEFINE o == a.op.order
             to == MovesTo[a.op.move]
  <1>1. HasFields(db) /\ HasFields(e) /\ Sound(db)
    BY FloorFacts, FloorFields
  <1>2. o \in Orders
    BY DEF MoveRequests
  <1>3. /\ db.order[o].status \notin Dropped \cup {"bill_requested", "billed", "closed"}
        /\ to \notin {"billed", "closed"}
        /\ db.order[o].invoice = None
        /\ db.order[o].status # "none"
    BY DEF MoveRequests, MoveAllowed, MovesFrom, MovesTo, Moves, Dropped
  <1>4. MoveLeaves(a, e)
    BY <1>2, MoveDelta, FloorFacts
  <1>5. /\ e.order[o].session = db.order[o].session
        /\ e.order[o].status = to
        /\ e.order[o].invoice = None
        /\ e.order[o].request = db.order[o].request
        /\ \A x \in Orders : x # o => e.order[x] = db.order[x]
        /\ e.table = db.table /\ e.session = db.session
        /\ e.invoice = db.invoice /\ e.token = db.token
        /\ e.opkeys = db.opkeys
        /\ e.lastSession = db.lastSession /\ e.lastOrder = db.lastOrder
        /\ e.lastInvoice = db.lastInvoice /\ e.lastToken = db.lastToken
    <2>1. e.order = [db.order EXCEPT ![o] = [db.order[o] EXCEPT !.status = to]]
      BY <1>4 DEF MoveLeaves
    <2>2. db.order \in [Orders -> OrderType] /\ db.order[o] \in OrderType
      BY <1>1, <1>2 DEF HasFields
    <2> HIDE DEF o, to
    <2>3. \A x \in Orders : x # o => e.order[x] = db.order[x]
      BY <2>1, <2>2
    <2>4. e.order[o] = [db.order[o] EXCEPT !.status = to]
      BY <1>2, <2>1, <2>2
    <2> QED BY <1>3, <1>4, <2>2, <2>3, <2>4 DEF MoveLeaves, OrderType
  <1>6. /\ \A x \in Orders : /\ e.order[x].session = db.order[x].session
                             /\ e.order[x].invoice = db.order[x].invoice
                             /\ e.order[x].request = db.order[x].request
    BY <1>3, <1>5
  <1>7. DifferIn(MoveWrites(a), db, e)
    <2>1. \A x \in Orders : OrderDoc(x) \notin MoveWrites(a) => x # o
      BY DEF MoveWrites
    <2>2. Later(db, e)
      <3> HIDE DEF o, to
      <3> QED BY <1>3, <1>5 DEF Later
    <2>3. \A x \in Sessions : OrdersOf(db, x) = OrdersOf(e, x)
      BY <1>6 DEF OrdersOf
    <2> HIDE DEF o, to
    <2> QED BY <1>5, <2>1, <2>2, <2>3
            DEF DifferIn, SameBranch, SameTable, SameSession, TokensOf
  <1> HIDE DEF o, to
  <1>8. Numbered(e)
    <2>1. \A x \in Orders : x > db.lastOrder => x # o
      BY <1>1, <1>3 DEF Sound, Numbered, NoOrder
    <2> QED BY <1>1, <1>5, <2>1 DEF Sound, Numbered
  <1>9. TablesShow(e)
    BY <1>1, <1>5, SameShow DEF Sound
  <1>10. AskedStaysAsked(e)
    <2>1. db.order[o].session # None =>
            db.session[db.order[o].session].status # "bill_requested"
      BY <1>1, <1>2, <1>3 DEF Sound, AskedStaysAsked
    <2> QED BY <1>1, <1>5, <1>6, <2>1 DEF Sound, AskedStaysAsked
  <1>11. ChargedOnBills(e)
    BY <1>1, <1>3, <1>5 DEF Sound, ChargedOnBills
  <1>12. BillsCover(e)
    <2> SUFFICES ASSUME NEW i \in Invoices, db.invoice[i].status # "none"
                 PROVE  BillCovers(e, i)
      BY <1>5 DEF BillsCover
    <2> DEFINE x == db.invoice[i]
    <2>1. BillCovers(db, i) /\ x.orders \subseteq Orders
      BY <1>1 DEF Sound, BillsCover, HasFields, BillType
    <2>2. o \notin x.orders
      BY <1>3, <2>1 DEF BillCovers, Invoices, None
    <2>3. \A y \in Orders : IsFor(e, x, y) <=> IsFor(db, x, y)
      BY <1>6 DEF IsFor
    <2>4. ~IsFor(e, x, o)
      BY <1>2, <1>3, <2>1, <2>2, <2>3 DEF BillCovers
    <2>5. e.invoice[i] = x
      BY <1>5
    <2> HIDE DEF x
    <2> QED BY <1>5, <1>6, <2>1, <2>2, <2>3, <2>4, <2>5 DEF BillCovers, x
  <1>13. GuestKeys(e)
    BY <1>1, <1>5, <1>6 DEF Sound, GuestKeys
  <1>14. QuotesShow(e)
    <2>1. \A y \in Orders : e.order[y].status \notin Dropped =>
                              db.order[y].status \notin Dropped
      BY <1>3, <1>5
    <2> QED BY <1>1, <1>5, <1>6, <2>1 DEF Sound, QuotesShow
  <1> QED BY <1>7, <1>8, <1>9, <1>10, <1>11, <1>12, <1>13, <1>14 DEF Sound

\* A session that is not billed has no bill, and neither have its orders.
LEMMA Unbilled ==
    ASSUME FloorInv, NEW s \in Sessions, db.session[s].status \notin {"billed", "closed"}
    PROVE  /\ \A i \in Invoices :
                db.invoice[i].status # "none" => db.invoice[i].session # s
           /\ \A o \in Orders : db.order[o].session = s =>
                /\ db.order[o].invoice = None
                /\ db.order[o].status \notin {"billed", "closed"}
  <1>1. HasFields(db) /\ Sound(db) /\ s # None
    BY FloorFacts DEF Sessions, None
  <1>2. \A i \in Invoices : db.invoice[i].status # "none" => db.invoice[i].session # s
    BY <1>1, BilledSession
  <1>3. ASSUME NEW o \in Orders, db.order[o].session = s, db.order[o].invoice # None
        PROVE  FALSE
    <2> DEFINE i == db.order[o].invoice
    <2>1. i \in Invoices /\ db.invoice[i].status # "none" /\ o \in db.invoice[i].orders
      BY <1>1, <1>3 DEF HasFields, OrderType, Sound, ChargedOnBills
    <2>2. BillCovers(db, i)
      BY <1>1, <2>1 DEF Sound, BillsCover
    <2> HIDE DEF i
    <2>3. db.invoice[i].session = s
      BY <1>1, <1>3, <2>1, <2>2 DEF BillCovers, IsFor
    <2> QED BY <1>2, <2>1, <2>3
  <1> QED BY <1>1, <1>2, <1>3 DEF Sound, ChargedOnBills

\* The table of a live session is its table.
LEMMA LiveTable ==
    ASSUME FloorInv, NEW s \in Sessions, db.session[s].status \in LiveStatus
    PROVE  /\ db.session[s].table \in Tables
           /\ db.table[db.session[s].table].session = s
           /\ db.table[db.session[s].table].shown = db.session[s].status
  <1>1. Sound(db) /\ s # None
    BY FloorFacts DEF Sessions, None
  <1> QED BY <1>1 DEF Sound, TablesShow, LiveAt

\* Session s changes, and its table with it.
LEMMA ShowMoves ==
    ASSUME FloorInv, NEW s \in Sessions, db.session[s].status \in LiveStatus,
           NEW e, NEW b, b = db.session[s].table,
           e.session[s].table = b,
           \A x \in Sessions : x # s => e.session[x] = db.session[x],
           \A y \in Tables : y # b => /\ e.table[y].session = db.table[y].session
                                      /\ e.table[y].shown = db.table[y].shown,
           IF e.session[s].status \in LiveStatus
           THEN e.table[b].session = s /\ e.table[b].shown = e.session[s].status
           ELSE e.table[b].session = None /\ e.table[b].shown = "none"
    PROVE  TablesShow(e)
  <1>1. HasFields(db) /\ TablesShow(db) /\ s # None
    BY FloorFacts DEF Sound, Sessions, None
  <1>2. b \in Tables /\ db.table[b].session = s
    BY LiveTable
  <1>3. \A x \in Sessions : x # s => \A y : LiveAt(e, x, y) <=> LiveAt(db, x, y)
    BY DEF LiveAt
  <1>4. \A y : LiveAt(e, s, y) => y = b
    BY DEF LiveAt
  <1>5. \A y : LiveAt(db, s, y) => y = b
    BY DEF LiveAt
  <1>6. \A y \in Tables : db.table[y].session # None => db.table[y].session \in Sessions
    BY <1>1 DEF HasFields, TableType
  <1>7. ASSUME NEW y \in Tables
        PROVE  LET at == e.table[y].session
               IN  /\ \A x \in Sessions : LiveAt(e, x, y) => x = at
                   /\ IF at = None THEN e.table[y].shown = "none"
                      ELSE LiveAt(e, at, y) /\ e.table[y].shown = e.session[at].status
    <2>1. /\ \A x \in Sessions : LiveAt(db, x, y) => x = db.table[y].session
          /\ IF db.table[y].session = None THEN db.table[y].shown = "none"
             ELSE LiveAt(db, db.table[y].session, y)
                  /\ db.table[y].shown = db.session[db.table[y].session].status
      BY <1>1 DEF TablesShow
    <2>2. CASE y = b
      <3>1. \A x \in Sessions : LiveAt(e, x, b) => x = s
        BY <1>2, <1>3, <2>1, <2>2
      <3>2. LiveAt(e, s, b) <=> e.session[s].status \in LiveStatus
        BY DEF LiveAt
      <3> QED BY <1>1, <2>2, <3>1, <3>2
    <2>3. CASE y # b
      <3>1. db.table[y].session # s
        BY <1>1, <1>5, <2>1, <2>3
      <3> QED BY <1>3, <1>4, <1>6, <2>1, <2>3, <3>1
    <2> QED BY <2>2, <2>3
  <1>8. \A x \in Sessions : e.session[x].status \in LiveStatus => e.session[x].table \in Tables
    BY <1>1, <1>2 DEF TablesShow
  <1> QED BY <1>7, <1>8 DEF TablesShow

LEMMA AskSound ==
    ASSUME FloorInv, NEW a, a.snap = db, a.op \in AskRequests,
           AskAllowed(a), NEW e \in FloorType, e = AskEffect(a)
    PROVE  DifferIn(AskWrites(a), db, e) /\ Sound(e)
  <1> DEFINE s == a.op.session
             b == db.session[s].table
             A == AskedOrders(a)
  <1>1. HasFields(db) /\ HasFields(e) /\ Sound(db)
    BY FloorFacts, FloorFields
  <1>2. s \in Sessions /\ s # None /\ db.session[s].status = "open"
    BY DEF AskRequests, AskAllowed, Sessions, None
  <1>3. b \in Tables /\ db.table[b].session = s
    BY <1>2, LiveTable DEF LiveStatus
  <1>4. AskLeaves(a, e)
    BY <1>2, AskDelta, FloorFacts
  <1>5. /\ e.session[s].status = "bill_requested"
        /\ e.session[s].version = db.session[s].version + 1
        /\ e.session[s].table = b
        /\ \A x \in Sessions : x # s => e.session[x] = db.session[x]
    <2>1. e.session = [db.session EXCEPT ![s] =
             [db.session[s] EXCEPT !.status = "bill_requested", !.version = @ + 1]]
      BY <1>4 DEF AskLeaves
    <2>2. db.session \in [Sessions -> SessionType] /\ db.session[s] \in SessionType
      BY <1>1, <1>2 DEF HasFields
    <2> QED BY <1>2, <2>1, <2>2 DEF SessionType
  <1>6. /\ e.table[b].session = s /\ e.table[b].shown = "bill_requested"
        /\ \A x \in Tables : x # b => e.table[x] = db.table[x]
    <2>1. e.table = [db.table EXCEPT ![b] = [db.table[b] EXCEPT !.shown = "bill_requested"]]
      BY <1>4 DEF AskLeaves
    <2>2. db.table \in [Tables -> TableType] /\ db.table[b] \in TableType
      BY <1>1, <1>3 DEF HasFields
    <2> HIDE DEF b, s
    <2> QED BY <1>3, <2>1, <2>2 DEF TableType
  <1>7. \A o \in Orders :
          /\ o \in A <=> /\ db.order[o].session = s
                         /\ db.order[o].status \notin Dropped \cup {"closed", "billed"}
          /\ e.order[o].session = db.order[o].session
          /\ e.order[o].invoice = db.order[o].invoice
          /\ e.order[o].request = db.order[o].request
          /\ o \in A => e.order[o].status = "bill_requested"
          /\ o \notin A => e.order[o] = db.order[o]
    <2>1. e.order = Marked(db.order, A, "bill_requested")
      BY <1>4 DEF AskLeaves
    <2>2. \A o \in Orders : db.order[o] \in OrderType
      BY <1>1 DEF HasFields
    <2>3. \A o \in Orders : o \in A <=>
             /\ db.order[o].session = s
             /\ db.order[o].status \notin Dropped \cup {"closed", "billed"}
      BY DEF AskedOrders, OrdersOf
    <2> HIDE DEF A, s
    <2> QED BY <2>1, <2>2, <2>3 DEF Marked, OrderType
  <1>8. /\ e.invoice = db.invoice /\ e.token = db.token
        /\ e.opkeys = db.opkeys
        /\ e.lastSession = db.lastSession /\ e.lastOrder = db.lastOrder
        /\ e.lastInvoice = db.lastInvoice /\ e.lastToken = db.lastToken
    BY <1>4 DEF AskLeaves
  <1>9. /\ \A i \in Invoices :
             db.invoice[i].status # "none" => db.invoice[i].session # s
        /\ \A o \in Orders : db.order[o].session = s =>
             /\ db.order[o].invoice = None
             /\ db.order[o].status \notin {"billed", "closed"}
    BY <1>2, Unbilled
  <1>10. DifferIn(AskWrites(a), db, e)
    <2>1. /\ \A x \in Orders : OrderDoc(x) \notin AskWrites(a) => x \notin A
          /\ \A x \in Sessions : SessionDoc(x) \notin AskWrites(a) => x # s
          /\ \A x \in Tables : TableDoc(x) \notin AskWrites(a) => x # b
      BY DEF AskWrites
    <2> HIDE DEF A, s, b
    <2>2. Later(db, e)
      BY <1>7, <1>8 DEF Later, Dropped
    <2>3. \A x \in Sessions : OrdersOf(db, x) = OrdersOf(e, x)
      BY <1>7 DEF OrdersOf
    <2> QED BY <1>5, <1>6, <1>7, <1>8, <2>1, <2>2, <2>3
            DEF DifferIn, SameBranch, SameTable, SameSession, TokensOf
  <1>11. TablesShow(e)
    <2> HIDE DEF s, A
    <2>1. db.session[s].status \in LiveStatus /\ e.session[s].status \in LiveStatus
      BY <1>2, <1>5 DEF LiveStatus
    <2> QED BY <1>2, <1>5, <1>6, <2>1, ShowMoves
  <1> HIDE DEF s, b, A
  <1>12. Numbered(e)
    <2>1. \A x \in Sessions : x > db.lastSession => x # s
      BY <1>1, <1>2 DEF Sound, Numbered, NoSession
    <2>2. \A x \in Orders : x > db.lastOrder => x \notin A
      BY <1>1, <1>2, <1>7 DEF Sound, Numbered, NoOrder
    <2> QED BY <1>1, <1>5, <1>7, <1>8, <2>1, <2>2 DEF Sound, Numbered
  <1>13. AskedStaysAsked(e)
    <2> SUFFICES ASSUME NEW o \in Orders, e.order[o].session # None,
                        e.session[e.order[o].session].status = "bill_requested"
                 PROVE  e.order[o].status \in Dropped \cup {"bill_requested"}
      BY DEF AskedStaysAsked
    <2>1. CASE o \in A
      BY <1>7, <2>1
    <2>2. CASE o \notin A
      <3>1. db.order[o].session \in Sessions
        BY <1>1, <1>7 DEF HasFields, OrderType
      <3>2. CASE db.order[o].session = s
        BY <1>7, <1>9, <2>2, <3>2
      <3>3. CASE db.order[o].session # s
        BY <1>1, <1>5, <1>7, <2>2, <3>1, <3>3 DEF Sound, AskedStaysAsked
      <3> QED BY <3>2, <3>3
    <2> QED BY <2>1, <2>2
  <1>14. ChargedOnBills(e)
    <2>1. \A o \in Orders : o \in A => e.order[o].invoice = None
      BY <1>7, <1>9
    <2> QED BY <1>1, <1>7, <1>8, <2>1 DEF Sound, ChargedOnBills
  <1>15. BillsCover(e)
    <2> SUFFICES ASSUME NEW i \in Invoices, db.invoice[i].status # "none"
                 PROVE  BillCovers(e, i)
      BY <1>8 DEF BillsCover
    <2> DEFINE x == db.invoice[i]
    <2>1. BillCovers(db, i) /\ x.orders \subseteq Orders
          /\ x.session \in Sessions \cup {None}
      BY <1>1 DEF Sound, BillsCover, HasFields, BillType
    <2>2. \A y \in A : y \in Orders => y \notin x.orders
      BY <1>7, <1>9, <2>1 DEF BillCovers, Invoices, None
    <2>3. \A y \in Orders : IsFor(e, x, y) <=> IsFor(db, x, y)
      BY <1>7 DEF IsFor
    <2>4. x.session # None => e.session[x.session] = db.session[x.session]
      BY <1>5, <1>9, <2>1
    <2>5. e.invoice[i] = x
      BY <1>8
    <2>6. \A y \in Orders : e.order[y].status \in Dropped <=> db.order[y].status \in Dropped
      BY <1>7 DEF Dropped
    <2> HIDE DEF x
    <2> QED BY <1>7, <2>1, <2>2, <2>3, <2>4, <2>5, <2>6 DEF BillCovers, x
  <1>16. GuestKeys(e)
    BY <1>1, <1>7, <1>8 DEF Sound, GuestKeys
  <1>17. QuotesShow(e)
    <2>1. \A y \in Orders : e.order[y].status \notin Dropped =>
                              db.order[y].status \notin Dropped
      BY <1>7
    <2> QED BY <1>5, <1>7, <1>8, <2>1, QuotesRaised
  <1> QED BY <1>10, <1>11, <1>12, <1>13, <1>14, <1>15, <1>16, <1>17 DEF Sound

LEMMA CloseSound ==
    ASSUME FloorInv, NEW a, a.snap = db, a.op \in CloseRequests,
           CloseAllowed(a), NEW e \in FloorType, e = CloseEffect(a)
    PROVE  DifferIn(CloseWrites(a), db, e) /\ Sound(e)
  <1> DEFINE s == a.op.session
             b == db.session[s].table
  <1>1. HasFields(db) /\ HasFields(e) /\ Sound(db)
    BY FloorFacts, FloorFields
  <1>2. /\ s \in Sessions /\ s # None /\ db.session[s].status \in LiveStatus
        /\ \A o \in Orders : db.order[o].session = s =>
             db.order[o].status \in Dropped \cup {"closed"}
    BY DEF CloseRequests, CloseAllowed, OrdersOf, Sessions, None
  <1>3. b \in Tables /\ db.table[b].session = s
    BY <1>2, LiveTable
  <1>4. CloseLeaves(a, e)
    BY <1>2, CloseDelta, FloorFacts
  <1>5. /\ e.session[s].status \notin LiveStatus \cup {"none"}
        /\ e.session[s].version = db.session[s].version + 1
        /\ e.session[s].table = b
        /\ \A x \in Sessions : x # s => e.session[x] = db.session[x]
    <2> DEFINE st == IF a.op.cancel THEN "cancelled" ELSE "closed"
    <2>1. e.session = [db.session EXCEPT ![s] =
             [db.session[s] EXCEPT !.status = st, !.version = @ + 1]]
      BY <1>4 DEF CloseLeaves
    <2>2. db.session \in [Sessions -> SessionType] /\ db.session[s] \in SessionType
      BY <1>1, <1>2 DEF HasFields
    <2>3. st \notin LiveStatus \cup {"none"}
      BY DEF LiveStatus
    <2> HIDE DEF st
    <2> QED BY <1>2, <2>1, <2>2, <2>3 DEF SessionType
  <1>6. /\ e.table[b].session = None /\ e.table[b].shown = "none"
        /\ \A x \in Tables : x # b => e.table[x] = db.table[x]
    <2>1. e.table = [db.table EXCEPT ![b] = [db.table[b] EXCEPT
                                               !.session = None, !.shown = "none"]]
      BY <1>4 DEF CloseLeaves
    <2>2. db.table \in [Tables -> TableType] /\ db.table[b] \in TableType
      BY <1>1, <1>3 DEF HasFields
    <2> HIDE DEF b, s
    <2> QED BY <1>3, <2>1, <2>2 DEF TableType
  <1>7. /\ e.order = db.order /\ e.invoice = db.invoice /\ e.token = db.token
        /\ e.opkeys = db.opkeys
        /\ e.lastSession = db.lastSession /\ e.lastOrder = db.lastOrder
        /\ e.lastInvoice = db.lastInvoice /\ e.lastToken = db.lastToken
    BY <1>4 DEF CloseLeaves
  <1>8. ASSUME NEW i \in Invoices, db.invoice[i].status # "none",
               db.invoice[i].session = s
        PROVE  FALSE
    <2>1. BillCovers(db, i) /\ db.invoice[i].orders \subseteq Orders
      BY <1>1, <1>8 DEF Sound, BillsCover, HasFields, BillType
    <2>2. PICK o \in db.invoice[i].orders : o \in Orders
      BY <2>1 DEF BillCovers
    <2>3. /\ db.order[o].session = s /\ db.order[o].status \notin Dropped
          /\ db.order[o].status = db.session[s].status
      BY <1>2, <1>8, <2>1, <2>2 DEF BillCovers, IsFor
    <2> QED BY <1>2, <2>2, <2>3 DEF LiveStatus
  <1>9. DifferIn(CloseWrites(a), db, e)
    <2>1. /\ \A x \in Sessions : SessionDoc(x) \notin CloseWrites(a) => x # s
          /\ \A x \in Tables : TableDoc(x) \notin CloseWrites(a) => x # b
      BY DEF CloseWrites
    <2> HIDE DEF s, b
    <2>2. Later(db, e)
      BY <1>7, LaterSame
    <2> QED BY <1>5, <1>6, <1>7, <2>1, <2>2
            DEF DifferIn, SameBranch, SameTable, SameSession, TokensOf, OrdersOf
  <1>10. TablesShow(e)
    <2> HIDE DEF s
    <2> QED BY <1>2, <1>5, <1>6, ShowMoves
  <1> HIDE DEF s, b
  <1>11. Numbered(e)
    <2>1. \A x \in Sessions : x > db.lastSession => x # s
      BY <1>1, <1>2 DEF Sound, Numbered, NoSession, LiveStatus
    <2> QED BY <1>1, <1>5, <1>7, <2>1 DEF Sound, Numbered
  <1>12. AskedStaysAsked(e)
    <2>1. \A o \in Orders : db.order[o].session \in Sessions \cup {None}
      BY <1>1 DEF HasFields, OrderType
    <2> QED BY <1>1, <1>5, <1>7, <2>1 DEF Sound, AskedStaysAsked, LiveStatus
  <1>13. ChargedOnBills(e)
    BY <1>1, <1>7 DEF Sound, ChargedOnBills
  <1>14. BillsCover(e)
    <2>1. \A i \in Invoices : db.invoice[i].session \in Sessions \cup {None}
      BY <1>1 DEF HasFields, BillType
    <2>2. \A i \in Invoices :
            db.invoice[i].status # "none" /\ db.invoice[i].session # None =>
              e.session[db.invoice[i].session] = db.session[db.invoice[i].session]
      BY <1>5, <1>8, <2>1
    <2> QED BY <1>1, <1>7, <2>2 DEF Sound, BillsCover, BillCovers, IsFor
  <1>15. GuestKeys(e)
    BY <1>1, <1>7 DEF Sound, GuestKeys
  <1>16. QuotesShow(e)
    BY <1>5, <1>7, QuotesRaised
  <1> QED BY <1>9, <1>10, <1>11, <1>12, <1>13, <1>14, <1>15, <1>16 DEF Sound

LEMMA VoidSound ==
    ASSUME FloorInv, NEW a, a.snap = db, a.op \in VoidRequests,
           VoidAllowed(a), NEW e \in FloorType, e = VoidEffect(a)
    PROVE  DifferIn(VoidWrites(a), db, e) /\ Sound(e)
  <1> DEFINE i == a.op.invoice
  <1>1. HasFields(db) /\ HasFields(e) /\ Sound(db)
    BY FloorFacts, FloorFields
  <1>2. i \in Invoices /\ db.invoice[i].status # "none"
    BY DEF VoidRequests, VoidAllowed
  <1>3. VoidLeaves(a, e)
    BY <1>2, VoidDelta, FloorFacts
  <1>4. /\ e.invoice[i].status = "cancelled"
        /\ e.invoice[i].orders = db.invoice[i].orders
        /\ e.invoice[i].session = db.invoice[i].session
        /\ e.invoice[i].order = db.invoice[i].order
        /\ e.invoice[i].version = db.invoice[i].version
        /\ \A x \in Invoices : x # i => e.invoice[x] = db.invoice[x]
    <2>1. e.invoice = [db.invoice EXCEPT ![i] =
             [db.invoice[i] EXCEPT !.status = "cancelled", !.due = 0]]
      BY <1>3 DEF VoidLeaves
    <2>2. db.invoice \in [Invoices -> BillType] /\ db.invoice[i] \in BillType
      BY <1>1, <1>2 DEF HasFields
    <2> HIDE DEF i
    <2> QED BY <1>2, <2>1, <2>2 DEF BillType
  <1>5. /\ e.table = db.table /\ e.session = db.session /\ e.order = db.order
        /\ e.token = db.token /\ db.opkeys \subseteq e.opkeys
        /\ e.lastSession = db.lastSession /\ e.lastOrder = db.lastOrder
        /\ e.lastInvoice = db.lastInvoice /\ e.lastToken = db.lastToken
    BY <1>3 DEF VoidLeaves
  <1>6. DifferIn(VoidWrites(a), db, e)
    <2>1. /\ \A x \in Invoices : InvoiceDoc(x) \notin VoidWrites(a) => x # i
          /\ BranchDoc \in VoidWrites(a)
      BY DEF VoidWrites
    <2> HIDE DEF i
    <2> QED BY <1>4, <1>5, <2>1, LaterSame
            DEF DifferIn, SameTable, SameSession, TokensOf, OrdersOf
  <1> HIDE DEF i
  <1>7. Numbered(e)
    BY <1>1, <1>2, <1>4, <1>5 DEF Sound, Numbered
  <1>8. TablesShow(e)
    BY <1>1, <1>5, SameShow DEF Sound
  <1>9. AskedStaysAsked(e) /\ ChargedOnBills(e) /\ GuestKeys(e)
    <2>1. AskedStaysAsked(e)
      BY <1>1, <1>5 DEF Sound, AskedStaysAsked
    <2>2. ChargedOnBills(e)
      <3>1. \A x \in Invoices : /\ e.invoice[x].orders = db.invoice[x].orders
                                /\ db.invoice[x].status # "none" =>
                                     e.invoice[x].status # "none"
        BY <1>4
      <3>2. \A o \in Orders : db.order[o].invoice \in Invoices \cup {None}
        BY <1>1 DEF HasFields, OrderType
      <3> QED BY <1>1, <1>5, <3>1, <3>2 DEF Sound, ChargedOnBills
    <2>3. GuestKeys(e)
      BY <1>1, <1>5 DEF Sound, GuestKeys
    <2> QED BY <2>1, <2>2, <2>3
  <1>10. BillsCover(e)
    <2>1. \A x \in Invoices : db.invoice[x].status # "none" => BillCovers(db, x)
      BY <1>1 DEF Sound, BillsCover
    <2>2. BillCovers(e, i)
      BY <1>2, <1>4, <1>5, <2>1 DEF BillCovers, IsFor
    <2>3. \A x \in Invoices : x # i /\ e.invoice[x].status # "none" => BillCovers(e, x)
      BY <1>4, <1>5, <2>1 DEF BillCovers, IsFor
    <2> QED BY <2>2, <2>3 DEF BillsCover
  <1>11. QuotesShow(e)
    <2>1. \A x \in Invoices : /\ e.invoice[x].session = db.invoice[x].session
                              /\ e.invoice[x].version = db.invoice[x].version
                              /\ e.invoice[x].orders = db.invoice[x].orders
      BY <1>4
    <2> QED BY <1>5, <2>1, QuotesRaised
  <1> QED BY <1>6, <1>7, <1>8, <1>9, <1>10, <1>11 DEF Sound

\* What touches neither sessions nor orders nor bills, and of a table only its
\* flags.
LEMMA FlagsSound ==
    ASSUME FloorInv, NEW e,
           e.session = db.session, e.order = db.order, e.invoice = db.invoice,
           e.opkeys = db.opkeys, e.lastSession = db.lastSession,
           e.lastOrder = db.lastOrder, e.lastInvoice = db.lastInvoice,
           \A b \in Tables : /\ e.table[b].session = db.table[b].session
                             /\ e.table[b].shown = db.table[b].shown,
           \A k \in Tokens : k > e.lastToken => e.token[k].table = None
    PROVE  Sound(e)
  <1>1. HasFields(db) /\ Sound(db)
    BY FloorFacts
  <1>2. Numbered(e)
    BY <1>1 DEF Sound, Numbered
  <1>3. TablesShow(e)
    BY <1>1, SameShow DEF Sound
  <1>4. AskedStaysAsked(e) /\ ChargedOnBills(e) /\ GuestKeys(e)
    BY <1>1 DEF Sound, AskedStaysAsked, ChargedOnBills, GuestKeys
  <1>5. BillsCover(e)
    BY <1>1 DEF Sound, BillsCover, BillCovers, IsFor
  <1>6. QuotesShow(e)
    BY <1>1 DEF Sound, QuotesShow
  <1> QED BY <1>2, <1>3, <1>4, <1>5, <1>6 DEF Sound

LEMMA EditSound ==
    ASSUME FloorInv, NEW a, a.snap = db, a.op \in EditRequests,
           NEW e \in FloorType, e = EditEffect(a)
    PROVE  DifferIn(EditWrites(a), db, e) /\ Sound(e)
  <1> DEFINE b == a.op.table
  <1>1. HasFields(db) /\ HasFields(e) /\ Sound(db)
    BY FloorFacts, FloorFields
  <1>2. b \in Tables
    BY DEF EditRequests
  <1>3. EditLeaves(a, e)
    BY <1>2, EditDelta, FloorFacts
  <1>4. /\ \A x \in Tables : x # b => e.table[x] = db.table[x]
        /\ e.table[b].session = db.table[b].session
        /\ e.table[b].shown = db.table[b].shown
    <2>1. /\ e.table = [db.table EXCEPT ![b] =
                          [db.table[b] EXCEPT !.is_active = a.op.active]]
          /\ db.table \in [Tables -> TableType] /\ db.table[b] \in TableType
      BY <1>1, <1>2, <1>3 DEF HasFields, EditLeaves
    <2> HIDE DEF b
    <2> QED BY <1>2, <2>1 DEF TableType
  <1>5. Sound(e)
    <2>1. /\ e.session = db.session /\ e.order = db.order /\ e.invoice = db.invoice
          /\ e.opkeys = db.opkeys /\ e.lastSession = db.lastSession
          /\ e.lastOrder = db.lastOrder /\ e.lastInvoice = db.lastInvoice
      BY <1>3 DEF EditLeaves
    <2>2. \A k \in Tokens : k > e.lastToken => e.token[k].table = None
      BY <1>1, <1>3 DEF EditLeaves, Sound, Numbered
    <2> HIDE DEF b
    <2> QED BY <1>4, <2>1, <2>2, FlagsSound
  <1>6. DifferIn(EditWrites(a), db, e)
    <2>1. \A x \in Tables : TableDoc(x) \notin EditWrites(a) => x # b
      BY DEF EditWrites
    <2> HIDE DEF b
    <2> QED BY <1>3, <1>4, <2>1, LaterSame
            DEF EditLeaves, DifferIn, SameBranch, SameTable, SameSession, TokensOf, OrdersOf
  <1> QED BY <1>5, <1>6

\* A revoked token keeps its table.
LEMMA RevokedTokens ==
    ASSUME NEW token \in [Tokens -> TokenType], NEW S, NEW e, e = Revoked(token, S)
    PROVE  \A k \in Tokens : /\ e[k].table = token[k].table
                             /\ k \in S => e[k].status = "revoked"
                             /\ k \notin S => e[k] = token[k]
  BY DEF Revoked, TokenType

\* A table's flags and its tokens change: not its session, nor any other table.
LEMMA TokensSound ==
    ASSUME FloorInv, NEW b \in Tables, NEW W, TableDoc(b) \in W, NEW e,
           e.session = db.session, e.order = db.order, e.invoice = db.invoice,
           e.opkeys = db.opkeys, e.lastSession = db.lastSession,
           e.lastOrder = db.lastOrder, e.lastInvoice = db.lastInvoice,
           TokenCounter \notin W => e.lastToken = db.lastToken,
           e.lastToken \in Nat, db.lastToken <= e.lastToken,
           e.table[b].session = db.table[b].session,
           e.table[b].shown = db.table[b].shown,
           \A x \in Tables : x # b => e.table[x] = db.table[x],
           \A k \in Tokens :
              \/ e.token[k] = db.token[k]
              \/ /\ TokenDoc(k) \in W
                 /\ e.token[k].table = db.token[k].table
                 /\ e.token[k].status # "live"
              \/ /\ TokenDoc(k) \in W
                 /\ db.lastToken < k /\ k <= e.lastToken
                 /\ e.token[k].table = b
    PROVE  DifferIn(W, db, e) /\ Sound(e)
  <1>1. HasFields(db) /\ Sound(db)
    BY FloorFacts
  <1>2. \A k \in Tokens : db.lastToken < k => db.token[k].table = None
    BY <1>1 DEF Sound, Numbered, HasFields, Tokens
  <1>3. \A k \in Tokens : k > e.lastToken => e.token[k].table = None
    <2> SUFFICES ASSUME NEW k \in Tokens, k > e.lastToken
                 PROVE  e.token[k].table = None
      OBVIOUS
    <2>1. db.lastToken < k /\ ~(k <= e.lastToken)
      <3>1. k \in Nat /\ db.lastToken \in Nat
        BY <1>1, FloorAssumption DEF HasFields, Tokens
      <3> QED BY <3>1
    <2> QED BY <1>2, <2>1
  <1>4. Later(db, e)
    BY <1>2 DEF Later
  <1>5. \A x \in Tables : x # b => TokensOf(db, x) = TokensOf(e, x)
    BY <1>2, FloorAssumption DEF TokensOf
  <1>6. Sound(e)
    BY <1>3, FlagsSound
  <1>7. DifferIn(W, db, e)
    BY <1>4, <1>5 DEF DifferIn, SameBranch, SameTable, SameSession, OrdersOf
  <1> QED BY <1>6, <1>7

LEMMA DeactivateSound ==
    ASSUME FloorInv, NEW a, a.snap = db, a.op \in TableRequests,
           NEW e \in FloorType, e = DeactivateEffect(a)
    PROVE  DifferIn(DeactivateWrites(a), db, e) /\ Sound(e)
  <1> DEFINE b == a.op.table
             S == TokensOf(db, b)
             W == DeactivateWrites(a)
  <1>1. HasFields(db) /\ HasFields(e) /\ Sound(db)
    BY FloorFacts, FloorFields
  <1>2. b \in Tables
    BY DEF TableRequests
  <1>3. DeactivateLeaves(a, e)
    BY <1>2, DeactivateDelta, FloorFacts
  <1>4. /\ \A x \in Tables : x # b => e.table[x] = db.table[x]
        /\ e.table[b].session = db.table[b].session
        /\ e.table[b].shown = db.table[b].shown
    <2>1. /\ e.table = [db.table EXCEPT ![b] =
                          [db.table[b] EXCEPT !.is_active = FALSE, !.qr = FALSE]]
          /\ db.table \in [Tables -> TableType] /\ db.table[b] \in TableType
      BY <1>1, <1>2, <1>3 DEF HasFields, DeactivateLeaves
    <2> HIDE DEF b
    <2> QED BY <1>2, <2>1 DEF TableType
  <1>5. \A k \in Tokens : \/ e.token[k] = db.token[k]
                          \/ /\ TokenDoc(k) \in W
                             /\ e.token[k].table = db.token[k].table
                             /\ e.token[k].status # "live"
    <2>1. e.token = Revoked(db.token, S) /\ db.token \in [Tokens -> TokenType]
      BY <1>1, <1>3 DEF HasFields, DeactivateLeaves
    <2>2. \A k \in S : TokenDoc(k) \in W
      BY DEF DeactivateWrites
    <2> HIDE DEF S, W
    <2>3. \A k \in Tokens : /\ e.token[k].table = db.token[k].table
                            /\ k \in S => e.token[k].status = "revoked"
                            /\ k \notin S => e.token[k] = db.token[k]
      BY <2>1, RevokedTokens
    <2> QED BY <2>2, <2>3
  <1>6. TableDoc(b) \in W
    BY DEF DeactivateWrites
  <1>7. /\ e.session = db.session /\ e.order = db.order /\ e.invoice = db.invoice
        /\ e.opkeys = db.opkeys /\ e.lastSession = db.lastSession
        /\ e.lastOrder = db.lastOrder /\ e.lastInvoice = db.lastInvoice
        /\ e.lastToken = db.lastToken /\ e.lastToken \in Nat
        /\ db.lastToken <= e.lastToken
    BY <1>1, <1>3 DEF DeactivateLeaves, HasFields
  <1> HIDE DEF b, S, W
  <1>8. DifferIn(W, db, e) /\ Sound(e)
    BY <1>2, <1>4, <1>5, <1>6, <1>7, TokensSound
  <1> QED BY <1>8 DEF W

LEMMA RevokeSound ==
    ASSUME FloorInv, NEW a, a.snap = db, a.op \in TableRequests,
           NEW e \in FloorType, e = RevokeEffect(a)
    PROVE  DifferIn(RevokeWrites(a), db, e) /\ Sound(e)
  <1> DEFINE b == a.op.table
             S == LiveTokens(db, b)
             W == RevokeWrites(a)
  <1>1. HasFields(db) /\ HasFields(e) /\ Sound(db)
    BY FloorFacts, FloorFields
  <1>2. b \in Tables
    BY DEF TableRequests
  <1>3. RevokeLeaves(a, e)
    BY <1>2, RevokeDelta, FloorFacts
  <1>4. /\ \A x \in Tables : x # b => e.table[x] = db.table[x]
        /\ e.table[b].session = db.table[b].session
        /\ e.table[b].shown = db.table[b].shown
    <2>1. /\ e.table = [db.table EXCEPT ![b] =
                          [db.table[b] EXCEPT !.qr = FALSE]]
          /\ db.table \in [Tables -> TableType] /\ db.table[b] \in TableType
      BY <1>1, <1>2, <1>3 DEF HasFields, RevokeLeaves
    <2> HIDE DEF b
    <2> QED BY <1>2, <2>1 DEF TableType
  <1>5. \A k \in Tokens : \/ e.token[k] = db.token[k]
                          \/ /\ TokenDoc(k) \in W
                             /\ e.token[k].table = db.token[k].table
                             /\ e.token[k].status # "live"
    <2>1. e.token = Revoked(db.token, S) /\ db.token \in [Tokens -> TokenType]
      BY <1>1, <1>3 DEF HasFields, RevokeLeaves
    <2>2. \A k \in S : TokenDoc(k) \in W
      BY DEF RevokeWrites
    <2> HIDE DEF S, W
    <2>3. \A k \in Tokens : /\ e.token[k].table = db.token[k].table
                            /\ k \in S => e.token[k].status = "revoked"
                            /\ k \notin S => e.token[k] = db.token[k]
      BY <2>1, RevokedTokens
    <2> QED BY <2>2, <2>3
  <1>6. TableDoc(b) \in W
    BY DEF RevokeWrites
  <1>7. /\ e.session = db.session /\ e.order = db.order /\ e.invoice = db.invoice
        /\ e.opkeys = db.opkeys /\ e.lastSession = db.lastSession
        /\ e.lastOrder = db.lastOrder /\ e.lastInvoice = db.lastInvoice
        /\ e.lastToken = db.lastToken /\ e.lastToken \in Nat
        /\ db.lastToken <= e.lastToken
    BY <1>1, <1>3 DEF RevokeLeaves, HasFields
  <1> HIDE DEF b, S, W
  <1>8. DifferIn(W, db, e) /\ Sound(e)
    BY <1>2, <1>4, <1>5, <1>6, <1>7, TokensSound
  <1> QED BY <1>8 DEF W

LEMMA RotateSound ==
    ASSUME FloorInv, NEW a, a.snap = db, a.op \in TableRequests, RotateAllowed(a),
           NEW e \in FloorType, e = RotateEffect(a)
    PROVE  DifferIn(RotateWrites(a), db, e) /\ Sound(e)
  <1> DEFINE b == a.op.table
             S == LiveTokens(db, b)
             n == db.lastToken + 1
             W == RotateWrites(a)
  <1>1. HasFields(db) /\ HasFields(e) /\ Sound(db)
    BY FloorFacts, FloorFields
  <1>2. b \in Tables /\ n \in Tokens
    <2>1. db.lastToken \in 0..MaxToken /\ db.lastToken < MaxToken
      BY <1>1 DEF HasFields, RotateAllowed
    <2> QED BY <2>1, FloorAssumption DEF TableRequests, Tokens
  <1>3. RotateLeaves(a, e)
    BY <1>2, RotateDelta, FloorFacts
  <1>4. /\ \A x \in Tables : x # b => e.table[x] = db.table[x]
        /\ e.table[b].session = db.table[b].session
        /\ e.table[b].shown = db.table[b].shown
    <2>1. /\ e.table = [db.table EXCEPT ![b] = [db.table[b] EXCEPT !.qr = TRUE]]
          /\ db.table \in [Tables -> TableType] /\ db.table[b] \in TableType
      BY <1>1, <1>2, <1>3 DEF HasFields, RotateLeaves
    <2> HIDE DEF b
    <2> QED BY <1>2, <2>1 DEF TableType
  <1>5. \A k \in Tokens : \/ e.token[k] = db.token[k]
                          \/ /\ TokenDoc(k) \in W
                             /\ e.token[k].table = db.token[k].table
                             /\ e.token[k].status # "live"
                          \/ /\ TokenDoc(k) \in W /\ k = n
                             /\ e.token[k].table = b
    <2> DEFINE revoked == Revoked(db.token, S)
    <2>1. /\ e.token = [revoked EXCEPT ![n] = [table |-> b, status |-> "live"]]
          /\ db.token \in [Tokens -> TokenType]
      BY <1>1, <1>3 DEF HasFields, RotateLeaves
    <2>2. /\ \A k \in S : TokenDoc(k) \in W
          /\ TokenDoc(n) \in W
      BY DEF RotateWrites
    <2>3. DOMAIN revoked = Tokens
      BY DEF Revoked
    <2> HIDE DEF S, W, n
    <2>4. \A k \in Tokens : /\ revoked[k].table = db.token[k].table
                            /\ k \in S => revoked[k].status = "revoked"
                            /\ k \notin S => revoked[k] = db.token[k]
      BY <2>1, RevokedTokens
    <2> HIDE DEF revoked
    <2>5. /\ e.token[n].table = b
          /\ \A k \in Tokens : k # n => e.token[k] = revoked[k]
      BY <1>2, <2>1, <2>3
    <2> QED BY <2>2, <2>4, <2>5
  <1>6. TableDoc(b) \in W /\ TokenCounter \in W
    BY DEF RotateWrites
  <1>7. /\ e.session = db.session /\ e.order = db.order /\ e.invoice = db.invoice
        /\ e.opkeys = db.opkeys /\ e.lastSession = db.lastSession
        /\ e.lastOrder = db.lastOrder /\ e.lastInvoice = db.lastInvoice
        /\ e.lastToken = n
    BY <1>3 DEF RotateLeaves
  <1>8. e.lastToken \in Nat /\ db.lastToken < e.lastToken /\ db.lastToken <= e.lastToken
    BY <1>1, <1>7 DEF HasFields
  <1> HIDE DEF b, S, W, n
  <1>9. \A k \in Tokens : k = n => db.lastToken < k /\ k <= e.lastToken
    BY <1>7, <1>8
  <1>10. DifferIn(W, db, e) /\ Sound(e)
    BY <1>2, <1>4, <1>5, <1>6, <1>7, <1>8, <1>9, TokensSound
  <1> QED BY <1>10 DEF W

-----------------------------------------------------------------------------
(* finalizeCafeBill, for a bill that is made and for one that is paid.     *)

\* FinalizedLeaves, point by point: the session sits at table b.
FinalPoints(d, S, s, i, due, b, st, e) ==
    /\ \A o \in Orders :
         /\ e.order[o].session = d.order[o].session
         /\ e.order[o].request = d.order[o].request
         /\ o \in S => e.order[o].status = st /\ e.order[o].invoice = i
         /\ o \notin S => e.order[o] = d.order[o]
    /\ \A x \in Sessions : x # s => e.session[x] = d.session[x]
    /\ \A y \in Tables : s = None \/ y # b => e.table[y] = d.table[y]
    /\ s # None =>
         /\ e.session[s].table = b
         /\ e.session[s].status = st
         /\ e.session[s].invoice = i
         /\ e.session[s].version = d.session[s].version + 1
         /\ e.table[b].session = IF due = 0 THEN None ELSE s
         /\ e.table[b].shown = IF due = 0 THEN "none" ELSE "billed"
    /\ e.invoice = d.invoice /\ e.token = d.token /\ e.opkeys = d.opkeys
    /\ e.lastSession = d.lastSession /\ e.lastOrder = d.lastOrder
    /\ e.lastInvoice = d.lastInvoice /\ e.lastToken = d.lastToken

LEMMA FinalizedPoints ==
    ASSUME NEW d \in FloorType, NEW S \in SUBSET Orders,
           NEW s \in Sessions \cup {None}, NEW i \in Invoices, NEW due,
           NEW b, b = d.session[s].table, s # None => b \in Tables,
           NEW st, st = IF due = 0 THEN "closed" ELSE "billed",
           NEW e, e = Finalized(d, S, s, i, due)
    PROVE  FinalPoints(d, S, s, i, due, b, st, e)
  <1>1. HasFields(d) /\ FinalizedLeaves(d, S, s, i, due, e)
    BY FloorFields, FinalizedDelta
  <1>2. \A o \in Orders : /\ e.order[o].session = d.order[o].session
                          /\ e.order[o].request = d.order[o].request
                          /\ o \in S => e.order[o].status = st /\ e.order[o].invoice = i
                          /\ o \notin S => e.order[o] = d.order[o]
    <2>1. e.order = ChargedOn(Marked(d.order, S, st), S, i)
      BY <1>1 DEF FinalizedLeaves
    <2>2. \A o \in Orders : d.order[o] \in OrderType
      BY <1>1 DEF HasFields
    <2>3. \A o \in Orders :
             /\ o \in S => e.order[o] = [[d.order[o] EXCEPT !.status = st] EXCEPT !.invoice = i]
             /\ o \notin S => e.order[o] = d.order[o]
      BY <2>1 DEF ChargedOn, Marked
    <2> QED BY <2>2, <2>3 DEF OrderType
  <1>3. CASE s = None
    <2>1. e.session = d.session /\ e.table = d.table
      BY <1>1, <1>3 DEF FinalizedLeaves
    <2> QED BY <1>1, <1>2, <1>3, <2>1 DEF FinalizedLeaves, FinalPoints
  <1>4. CASE s # None
    <2>1. /\ e.session = [d.session EXCEPT ![s] =
                [d.session[s] EXCEPT !.status = st, !.invoice = i, !.version = @ + 1]]
          /\ e.table = [d.table EXCEPT ![b] =
                [d.table[b] EXCEPT !.session = IF due = 0 THEN None ELSE s,
                                   !.shown = IF due = 0 THEN "none" ELSE "billed"]]
      BY <1>1, <1>4 DEF FinalizedLeaves
    <2>2. /\ d.session \in [Sessions -> SessionType] /\ d.session[s] \in SessionType
          /\ d.table \in [Tables -> TableType] /\ d.table[b] \in TableType
      BY <1>1, <1>4 DEF HasFields
    <2>3. /\ \A x \in Sessions : x # s => e.session[x] = d.session[x]
          /\ e.session[s].table = b
          /\ e.session[s].status = st
          /\ e.session[s].invoice = i
          /\ e.session[s].version = d.session[s].version + 1
      BY <1>4, <2>1, <2>2 DEF SessionType
    <2>4. /\ \A y \in Tables : y # b => e.table[y] = d.table[y]
          /\ e.table[b].session = IF due = 0 THEN None ELSE s
          /\ e.table[b].shown = IF due = 0 THEN "none" ELSE "billed"
      BY <1>4, <2>1, <2>2 DEF TableType
    <2> QED BY <1>1, <1>2, <1>4, <2>3, <2>4 DEF FinalizedLeaves, FinalPoints
  <1> QED BY <1>3, <1>4

\* What finalizeCafeBill counts on when bill number i is to become r, and d is
\* the database with that bill: the orders C of session s are the ones to
\* charge, they are on no other bill, and every quote that has the version of
\* the bill shows them.
Finalizable(i, r, C, s, d, W) ==
    /\ C = r.orders /\ s = r.session
    /\ d.order = db.order /\ d.session = db.session /\ d.table = db.table
    /\ d.token = db.token /\ db.opkeys \subseteq d.opkeys
    /\ d.lastSession = db.lastSession /\ d.lastOrder = db.lastOrder
    /\ d.lastToken = db.lastToken /\ d.lastInvoice \in Nat
    /\ db.lastInvoice <= d.lastInvoice /\ i <= d.lastInvoice
    /\ d.invoice[i] = r
    /\ \A j \in Invoices : j # i => d.invoice[j] = db.invoice[j]
    /\ r.status \in {"paid", "unpaid"}
    /\ C # {} /\ C = BilledOrders(db, s, r.order)
    /\ \A o \in C : /\ db.order[o].session = s
                    /\ db.order[o].status \in Eligible \cup {"billed"}
                    /\ db.order[o].invoice \in {None, i}
    /\ db.invoice[i].orders \subseteq C
    /\ s = None => r.order \in Orders /\ db.order[r.order].session = None
    /\ s # None =>
         /\ db.session[s].status \in LiveStatus
         /\ r.version <= db.session[s].version
         /\ \A j \in Invoices :
              j # i /\ db.invoice[j].status # "none" => db.invoice[j].session # s
         /\ \A q \in quoted[s] : q.version = r.version => C \subseteq q.orders
    /\ FinalWrites(db, s, r.order) \subseteq W
    /\ BranchDoc \in W /\ InvoiceDoc(i) \in W

\* The bill `r', number i, is written and its orders, session and table follow.
LEMMA FinalSound ==
    ASSUME FloorInv, NEW i \in Invoices, NEW r \in BillType, NEW C, NEW s,
           NEW d \in FloorType, NEW W, Finalizable(i, r, C, s, d, W),
           NEW e \in FloorType, e = Finalized(d, C, s, i, r.due)
    PROVE  DifferIn(W, db, e) /\ Sound(e)
  <1>d. /\ d.order = db.order /\ d.session = db.session /\ d.table = db.table
        /\ d.token = db.token /\ db.opkeys \subseteq d.opkeys
        /\ d.lastSession = db.lastSession /\ d.lastOrder = db.lastOrder
        /\ d.lastToken = db.lastToken /\ d.lastInvoice \in Nat
        /\ db.lastInvoice <= d.lastInvoice /\ i <= d.lastInvoice
        /\ d.invoice[i] = r
        /\ \A j \in Invoices : j # i => d.invoice[j] = db.invoice[j]
    BY DEF Finalizable
  <1>r. /\ r.orders = C /\ r.session = s
        /\ r.status # "none" /\ r.status # "cancelled"
    BY DEF Finalizable
  <1>c. /\ C # {} /\ C = BilledOrders(db, s, r.order)
        /\ \A o \in C : /\ db.order[o].session = s
                        /\ db.order[o].status \in Eligible \cup {"billed"}
                        /\ db.order[o].invoice \in {None, i}
        /\ db.invoice[i].orders \subseteq C
        /\ s = None => r.order \in Orders /\ db.order[r.order].session = None
    BY DEF Finalizable
  <1>s. s # None =>
          /\ db.session[s].status \in LiveStatus
          /\ r.version <= db.session[s].version
          /\ \A j \in Invoices :
               j # i /\ db.invoice[j].status # "none" => db.invoice[j].session # s
          /\ \A q \in quoted[s] : q.version = r.version => C \subseteq q.orders
    BY DEF Finalizable
  <1>w. /\ FinalWrites(db, s, r.order) \subseteq W
        /\ BranchDoc \in W /\ InvoiceDoc(i) \in W
    BY DEF Finalizable
  <1> DEFINE st == IF r.due = 0 THEN "closed" ELSE "billed"
             b == db.session[s].table
  <1>1. HasFields(db) /\ Sound(db) /\ C \in SUBSET Orders /\ s \in Sessions \cup {None}
    BY <1>r, FloorFacts DEF BillType
  <1>2. /\ s # None => s \in Sessions
        /\ i # None /\ None \notin Sessions
    BY <1>1 DEF Sessions, Invoices, None
  <1>3. s # None => b \in Tables /\ db.table[b].session = s
    BY <1>2, <1>s, LiveTable
  <1>4. /\ \A o \in Orders :
             /\ e.order[o].session = db.order[o].session
             /\ e.order[o].request = db.order[o].request
             /\ o \in C => e.order[o].status = st /\ e.order[o].invoice = i
             /\ o \notin C => e.order[o] = db.order[o]
        /\ \A x \in Sessions : x # s => e.session[x] = db.session[x]
        /\ \A y \in Tables : s = None \/ y # b => e.table[y] = db.table[y]
        /\ s # None =>
             /\ e.session[s].table = b
             /\ e.session[s].status = st
             /\ e.session[s].invoice = i
             /\ e.session[s].version = db.session[s].version + 1
             /\ e.table[b].session = IF r.due = 0 THEN None ELSE s
             /\ e.table[b].shown = IF r.due = 0 THEN "none" ELSE "billed"
        /\ e.invoice = d.invoice /\ e.token = d.token /\ e.opkeys = d.opkeys
        /\ e.lastSession = d.lastSession /\ e.lastOrder = d.lastOrder
        /\ e.lastInvoice = d.lastInvoice /\ e.lastToken = d.lastToken
    <2>1. b = d.session[s].table
      BY <1>d
    <2> HIDE DEF st, b
    <2>2. st = IF r.due = 0 THEN "closed" ELSE "billed"
      BY DEF st
    <2>3. C \in SUBSET Orders /\ s \in Sessions \cup {None} /\ (s # None => b \in Tables)
      BY <1>1, <1>3
    <2>4. FinalPoints(d, C, s, i, r.due, b, st, e)
      BY <2>1, <2>2, <2>3, FinalizedPoints
    <2> QED BY <1>d, <2>4 DEF FinalPoints
  <1>5. st \in {"closed", "billed"}
    OBVIOUS
  <1>6. /\ e.invoice[i] = r
        /\ \A j \in Invoices : j # i => e.invoice[j] = db.invoice[j]
        /\ e.token = db.token /\ db.opkeys \subseteq e.opkeys
        /\ e.lastSession = db.lastSession /\ e.lastOrder = db.lastOrder
        /\ e.lastToken = db.lastToken
    BY <1>4, <1>d
  <1>7. DifferIn(W, db, e)
    <2>1. /\ \A x \in Orders : OrderDoc(x) \notin W => x \notin C
          /\ s # None => SessionDoc(s) \in W /\ TableDoc(b) \in W
      BY <1>c, <1>w DEF FinalWrites
    <2> HIDE DEF st, b
    <2>2. Later(db, e)
      BY <1>4, <1>5, <1>6, <1>c DEF Later, Eligible, Dropped
    <2>3. \A x \in Sessions : OrdersOf(db, x) = OrdersOf(e, x)
      BY <1>4 DEF OrdersOf
    <2>4. \A x \in Sessions : SessionDoc(x) \notin W => e.session[x] = db.session[x]
      BY <1>2, <1>4, <2>1
    <2>5. \A y \in Tables : TableDoc(y) \notin W => e.table[y] = db.table[y]
      BY <1>2, <1>4, <2>1
    <2> QED BY <1>4, <1>6, <1>w, <2>1, <2>2, <2>3, <2>4, <2>5
            DEF DifferIn, SameTable, SameSession, TokensOf
  <1>8. TablesShow(e)
    <2>1. CASE s = None
      BY <1>1, <1>2, <1>4, <2>1, SameShow DEF Sound
    <2>2. CASE s # None
      <3>1. IF e.session[s].status \in LiveStatus
            THEN e.table[b].session = s /\ e.table[b].shown = e.session[s].status
            ELSE e.table[b].session = None /\ e.table[b].shown = "none"
        BY <1>4, <2>2 DEF LiveStatus
      <3> HIDE DEF st, b
      <3>2. /\ s \in Sessions /\ db.session[s].status \in LiveStatus
            /\ b = db.session[s].table /\ e.session[s].table = b
            /\ \A x \in Sessions : x # s => e.session[x] = db.session[x]
            /\ \A y \in Tables : y # b => /\ e.table[y].session = db.table[y].session
                                         /\ e.table[y].shown = db.table[y].shown
        BY <1>2, <1>4, <1>s, <2>2 DEF b
      <3> QED BY ONLY FloorInv, <3>1, <3>2, ShowMoves
    <2> QED BY <2>1, <2>2
  <1> HIDE DEF st, b
  <1>9. Numbered(e)
    <2>1. \A x \in Sessions : x > db.lastSession => x # s
      BY <1>1, <1>2, <1>s DEF Sound, Numbered, NoSession, LiveStatus
    <2>2. \A x \in Orders : x > db.lastOrder => x \notin C
      BY <1>1, <1>c DEF Sound, Numbered, NoOrder, Eligible
    <2>3. \A j \in Invoices : j > e.lastInvoice => j > db.lastInvoice /\ j # i
      BY <1>1, <1>4, <1>d DEF HasFields, Invoices
    <2>4. \A j \in Invoices : j > e.lastInvoice => e.invoice[j].status = "none"
      BY <1>1, <1>6, <2>3 DEF Sound, Numbered
    <2>5. \A j \in Invoices : e.invoice[j].status = "none" => e.invoice[j] = NoBill
      BY <1>1, <1>6, <1>r DEF Sound, Numbered
    <2>6. \A x \in Sessions : x > db.lastSession => e.session[x] = NoSession
      BY <1>1, <1>4, <2>1 DEF Sound, Numbered
    <2>7. \A x \in Orders : x > db.lastOrder => e.order[x] = NoOrder
      BY <1>1, <1>4, <2>2 DEF Sound, Numbered
    <2> QED BY <1>1, <1>6, <2>4, <2>5, <2>6, <2>7 DEF Sound, Numbered
  <1>10. AskedStaysAsked(e)
    <2> SUFFICES ASSUME NEW o \in Orders, e.order[o].session # None,
                        e.session[e.order[o].session].status = "bill_requested"
                 PROVE  e.order[o].status \in Dropped \cup {"bill_requested"}
      BY DEF AskedStaysAsked
    <2>1. db.order[o].session \in Sessions /\ e.order[o].session = db.order[o].session
      BY <1>1, <1>4 DEF HasFields, OrderType
    <2>2. db.order[o].session # s
      BY <1>4, <1>5, <2>1
    <2>3. o \notin C
      BY <1>c, <2>2
    <2> QED BY <1>1, <1>4, <2>1, <2>2, <2>3 DEF Sound, AskedStaysAsked
  <1>11. ChargedOnBills(e)
    <2> SUFFICES ASSUME NEW o \in Orders
                 PROVE  LET j == e.order[o].invoice
                        IN  /\ j # None <=> e.order[o].status \in {"billed", "closed"}
                            /\ j # None => /\ e.invoice[j].status # "none"
                                           /\ o \in e.invoice[j].orders
      BY DEF ChargedOnBills
    <2>1. CASE o \in C
      <3>1. e.order[o].invoice = i /\ e.order[o].status \in {"billed", "closed"}
        BY <1>4, <1>5, <2>1
      <3>2. e.invoice[i].status # "none" /\ o \in e.invoice[i].orders
        BY <1>6, <1>r, <2>1
      <3> QED BY <1>2, <3>1, <3>2
    <2>2. CASE o \notin C
      <3> DEFINE j == db.order[o].invoice
      <3>1. j \in Invoices \cup {None} /\ e.order[o] = db.order[o]
        BY <1>1, <1>4, <2>2 DEF HasFields, OrderType
      <3>2. /\ j # None <=> db.order[o].status \in {"billed", "closed"}
            /\ j # None => db.invoice[j].status # "none" /\ o \in db.invoice[j].orders
        BY <1>1 DEF Sound, ChargedOnBills
      <3> HIDE DEF j
      <3>3. j # None => j # i
        BY <1>c, <2>2, <3>2
      <3>4. j # None => e.invoice[j] = db.invoice[j]
        BY <1>6, <3>1, <3>3
      <3> QED BY <3>1, <3>2, <3>4 DEF j
    <2> QED BY <2>1, <2>2
  <1>12. BillCovers(e, i)
    <2>1. \A o \in Orders : o \in C <=> IsFor(db, r, o) /\ db.order[o].status \notin Dropped
      BY <1>1, <1>2, <1>c, <1>r DEF BilledOrders, OrdersOf, IsFor
    <2>2. \A o \in Orders : IsFor(e, r, o) <=> IsFor(db, r, o)
      BY <1>4 DEF IsFor
    <2>3. \A o \in Orders : e.order[o].status \in Dropped <=> db.order[o].status \in Dropped
      BY <1>4, <1>5, <1>c DEF Dropped, Eligible
    <2>4. \A o \in C : /\ o \in Orders /\ e.order[o].invoice = i
                       /\ e.order[o].status = IF r.due = 0 THEN "closed" ELSE "billed"
                       /\ s # None => e.order[o].status = e.session[s].status
      BY <1>1, <1>4 DEF st
    <2>5. s # None => /\ e.session[s].invoice = i /\ r.version < e.session[s].version
      <3>1. s # None => db.session[s].version \in Nat /\ r.version \in Nat
        BY <1>1, <1>2 DEF HasFields, SessionType, BillType
      <3> QED BY <1>4, <1>s, <3>1
    <2>6. s = None => r.order \in Orders /\ e.order[r.order].session = None
      BY <1>4, <1>c
    <2>7. BillCovers(e, i) <=>
             /\ C # {}
             /\ \A o \in Orders :
                  o \in C <=> IsFor(e, r, o) /\ e.order[o].status \notin Dropped
             /\ \A o \in C :
                  /\ e.order[o].invoice = i
                  /\ r.status # "cancelled" =>
                       e.order[o].status = IF r.due = 0 THEN "closed" ELSE "billed"
                  /\ s # None => e.order[o].status = e.session[s].status
             /\ s # None => /\ e.session[s].invoice = i
                            /\ r.version < e.session[s].version
             /\ s = None => r.order \in Orders /\ e.order[r.order].session = None
      BY <1>6, <1>r DEF BillCovers
    <2> QED BY <1>c, <1>r, <2>1, <2>2, <2>3, <2>4, <2>5, <2>6, <2>7
  <1>13. ASSUME NEW j \in Invoices, j # i, db.invoice[j].status # "none"
         PROVE  BillCovers(e, j)
    <2> DEFINE x == db.invoice[j]
    <2>1. BillCovers(db, j) /\ x.orders \subseteq Orders
          /\ x.session \in Sessions \cup {None}
      BY <1>1, <1>13 DEF Sound, BillsCover, HasFields, BillType
    <2>2. \A o \in C : o \notin x.orders
      BY <1>1, <1>13, <1>c, <2>1 DEF BillCovers, Invoices, None
    <2>3. \A o \in Orders : IsFor(e, x, o) <=> IsFor(db, x, o)
      BY <1>4 DEF IsFor
    <2>4. x.session # None => e.session[x.session] = db.session[x.session]
      BY <1>4, <1>13, <1>s, <2>1
    <2>5. e.invoice[j] = x
      BY <1>6, <1>13
    <2>6. \A o \in Orders : e.order[o].status \in Dropped <=> db.order[o].status \in Dropped
      BY <1>4, <1>5, <1>c DEF Dropped, Eligible
    <2>7. x.session = None => x.order \in Orders /\ e.order[x.order].session = None
      BY <1>4, <2>1 DEF BillCovers
    <2>8. \A o \in x.orders : e.order[o] = db.order[o]
      BY <1>4, <2>1, <2>2
    <2> HIDE DEF x
    <2> QED BY <2>1, <2>3, <2>4, <2>5, <2>6, <2>7, <2>8 DEF BillCovers, x
  <1>14. BillsCover(e)
    BY <1>6, <1>12, <1>13 DEF BillsCover
  <1>15. GuestKeys(e)
    BY <1>1, <1>4, <1>6 DEF Sound, GuestKeys
  <1>16. QuotesShow(e)
    <2> SUFFICES ASSUME NEW x \in Sessions, NEW q \in quoted[x]
                 PROVE  /\ q.version <= e.session[x].version
                        /\ q.version = e.session[x].version =>
                             \A o \in Orders :
                               e.order[o].session = x /\ e.order[o].status \notin Dropped
                                 => o \in q.orders
                        /\ \A j \in Invoices :
                             e.invoice[j].session = x /\ e.invoice[j].version = q.version
                               => e.invoice[j].orders \subseteq q.orders
      BY DEF QuotesShow
    <2>1. /\ q.version \in Nat /\ db.session[x].version \in Nat
          /\ q.version <= db.session[x].version
          /\ q.version = db.session[x].version =>
               \A o \in Orders :
                 db.order[o].session = x /\ db.order[o].status \notin Dropped => o \in q.orders
          /\ \A j \in Invoices :
               db.invoice[j].session = x /\ db.invoice[j].version = q.version
                 => db.invoice[j].orders \subseteq q.orders
      BY <1>1, FloorFacts DEF Sound, QuotesShow, HasFields, SessionType
    <2>2. \A j \in Invoices :
             e.invoice[j].session = x /\ e.invoice[j].version = q.version
               => e.invoice[j].orders \subseteq q.orders
      <3>1. r.session = x /\ r.version = q.version => r.orders \subseteq q.orders
        BY <1>2, <1>r, <1>s
      <3> QED BY <1>6, <2>1, <3>1
    <2>3. \A o \in Orders : e.order[o].status \notin Dropped =>
             db.order[o].status \notin Dropped
      BY <1>4, <1>c DEF Dropped, Eligible
    <2>4. CASE x = s
      BY <1>2, <1>4, <2>1, <2>2, <2>4
    <2>5. CASE x # s
      BY <1>4, <2>1, <2>2, <2>3, <2>5
    <2> QED BY <2>4, <2>5
  <1> QED BY <1>7, <1>8, <1>9, <1>10, <1>11, <1>14, <1>15, <1>16 DEF Sound

LEMMA BillSound ==
    ASSUME FloorInv, NEW a, a.snap = db, a.op \in BillRequests,
           (a.op.session = None) # (a.op.order = None), BillAllowed(a),
           NEW e \in FloorType, e = BillEffect(a)
    PROVE  DifferIn(BillWrites(a), db, e) /\ Sound(e)
  <1> DEFINE i == db.lastInvoice + 1
             s == a.op.session
             C == Charged(a)
             W == BillWrites(a)
             due == Cardinality(C) - a.op.paid
             r == [status |-> IF due = 0 THEN "paid" ELSE "unpaid",
                   due |-> due, orders |-> C, session |-> s,
                   order |-> a.op.order, request |-> a.op.id,
                   version |-> IF s = None THEN 0 ELSE db.session[s].version]
             d == [db EXCEPT !.lastInvoice = i, !.invoice[i] = r]
  <1>1. HasFields(db) /\ HasFields(e) /\ Sound(db) /\ IsRecord(db) /\ db \in FloorType
    BY FloorFacts, FloorFields
  <1>2. i \in Invoices /\ i \in 0..MaxInvoice /\ db.lastInvoice \in Nat
    <2>1. db.lastInvoice \in 0..MaxInvoice /\ db.lastInvoice < MaxInvoice
      BY <1>1 DEF HasFields, BillAllowed
    <2> QED BY <2>1, FloorAssumption DEF Invoices
  <1>3. /\ s \in Sessions \cup {None} /\ a.op.order \in Orders \cup {None}
        /\ a.op.id \in Nat /\ a.op.paid \in Nat
        /\ s = None => a.op.order \in Orders
        /\ s # None => s \in Sessions
        /\ C \subseteq Orders
    BY ChargedOrders DEF BillRequests, RequestId
  <1>4. r \in BillType
    <2>1. due \in Nat
      BY <1>3, ChargedOrders DEF BillAllowed
    <2>2. (IF s = None THEN 0 ELSE db.session[s].version) \in Nat
      BY <1>1, <1>3 DEF HasFields, SessionType
    <2> HIDE DEF due, C
    <2> QED BY <1>3, <2>1, <2>2 DEF BillType, BillStatus
  <1>5. /\ r.status \in {"paid", "unpaid"} /\ r.due = due /\ r.orders = C
        /\ r.session = s /\ r.order = a.op.order
        /\ s # None => r.version = db.session[s].version
    OBVIOUS
  <1>6. e = Finalized(d, C, s, i, r.due)
    BY DEF BillEffect
  <1>7. /\ C = BilledOrders(db, s, a.op.order) /\ C # {}
        /\ \A o \in C : db.order[o].status \in Eligible /\ db.order[o].invoice = None
        /\ s # None => db.session[s].status \in {"open", "bill_requested"}
        /\ s = None => db.order[a.op.order].session = None
    BY DEF Charged, BillAllowed
  <1>8. \A o \in C : db.order[o].session = s
    BY <1>7 DEF BilledOrders, OrdersOf
  <1>9. /\ FinalWrites(db, s, a.op.order) \subseteq W
        /\ BranchDoc \in W /\ InvoiceDoc(i) \in W
    BY DEF BillWrites
  <1> HIDE DEF r, due, C, W
  <1>10. /\ d.invoice = [db.invoice EXCEPT ![i] = r] /\ d.lastInvoice = i
         /\ d.table = db.table /\ d.session = db.session /\ d.order = db.order
         /\ d.token = db.token /\ d.access = db.access /\ d.opkeys = db.opkeys
         /\ d.lastSession = db.lastSession /\ d.lastOrder = db.lastOrder
         /\ d.lastToken = db.lastToken
         /\ IsRecord(d)
    BY <1>1, IssueDelta
  <1> HIDE DEF d
  <1>11. d \in FloorType
    <2>1. d.invoice \in [Invoices -> BillType]
      <3> HIDE DEF i
      <3> QED BY <1>1, <1>4, <1>10, Updated DEF HasFields
    <2> QED BY <1>1, <1>2, <1>10, <2>1, FloorIntro DEF HasFields
  <1>12. d.invoice[i] = r /\ \A j \in Invoices : j # i => d.invoice[j] = db.invoice[j]
    BY <1>1, <1>2, <1>10 DEF HasFields
  <1>13. db.invoice[i] = NoBill /\ db.lastInvoice <= i /\ i \in Nat
    <2>1. i > db.lastInvoice /\ db.lastInvoice <= i /\ i \in Nat
      BY <1>2
    <2> QED BY <1>1, <1>2, <2>1 DEF Sound, Numbered
  <1> HIDE DEF i, s
  <1>14. s # None =>
           /\ db.session[s].status \in LiveStatus
           /\ r.version <= db.session[s].version
           /\ \A j \in Invoices :
                j # i /\ db.invoice[j].status # "none" => db.invoice[j].session # s
           /\ \A q \in quoted[s] : q.version = r.version => C \subseteq q.orders
    <2> SUFFICES ASSUME s # None
                 PROVE  /\ db.session[s].status \in LiveStatus
                        /\ r.version <= db.session[s].version
                        /\ \A j \in Invoices :
                             j # i /\ db.invoice[j].status # "none"
                               => db.invoice[j].session # s
                        /\ \A q \in quoted[s] : q.version = r.version => C \subseteq q.orders
      OBVIOUS
    <2>1. s \in Sessions /\ db.session[s].version \in Nat
      BY <1>1, <1>3 DEF HasFields, SessionType
    <2>2. \A j \in Invoices : db.invoice[j].status # "none" => db.invoice[j].session # s
      BY <1>7, <2>1, Unbilled
    <2>3. \A o \in C : o \in Orders /\ db.order[o].status \notin Dropped
      BY <1>3, <1>7 DEF Eligible, Dropped
    <2>4. \A q \in quoted[s] : q.version = r.version => C \subseteq q.orders
      BY <1>1, <1>5, <1>8, <2>1, <2>3 DEF Sound, QuotesShow
    <2> QED BY <1>5, <1>7, <2>1, <2>2, <2>4 DEF LiveStatus
  <1>15. \A o \in C : /\ db.order[o].session = s
                      /\ db.order[o].status \in Eligible \cup {"billed"}
                      /\ db.order[o].invoice \in {None, i}
    BY <1>7, <1>8
  <1>16. /\ db.invoice[i].orders \subseteq C
         /\ s = None => r.order \in Orders /\ db.order[r.order].session = None
         /\ C = BilledOrders(db, s, r.order)
         /\ r.status \in {"paid", "unpaid"} /\ C = r.orders /\ s = r.session
         /\ C # {}
         /\ FinalWrites(db, s, r.order) \subseteq W
         /\ BranchDoc \in W /\ InvoiceDoc(i) \in W
         /\ db.opkeys \subseteq d.opkeys /\ d.lastInvoice \in Nat
         /\ db.lastInvoice <= d.lastInvoice /\ i <= d.lastInvoice
    BY <1>3, <1>5, <1>7, <1>9, <1>10, <1>13 DEF NoBill
  <1>17. /\ d.table = db.table /\ d.session = db.session /\ d.order = db.order
         /\ d.token = db.token
         /\ d.lastSession = db.lastSession /\ d.lastOrder = db.lastOrder
         /\ d.lastToken = db.lastToken
    BY <1>10
  <1>18. i \in Invoices
    BY <1>2
  <1>19. Finalizable(i, r, C, s, d, W)
    BY <1>12, <1>14, <1>15, <1>16, <1>17 DEF Finalizable
  <1>20. DifferIn(W, db, e) /\ Sound(e)
    BY <1>4, <1>6, <1>11, <1>18, <1>19, FinalSound
  <1> QED BY <1>20 DEF W

LEMMA CollectSound ==
    ASSUME FloorInv, NEW a, a.snap = db, a.op \in CollectRequests, CollectAllowed(a),
           NEW e \in FloorType, e = CollectEffect(a)
    PROVE  DifferIn(CollectWrites(a), db, e) /\ Sound(e)
  <1> DEFINE i == a.op.invoice
             x == db.invoice[i]
             s == x.session
             C == Collected(a)
             W == CollectWrites(a)
             due == x.due - a.op.amount
             st == IF due = 0 THEN "paid" ELSE "unpaid"
             r == [x EXCEPT !.due = due, !.status = st]
             d == PaidLeaves(i, due, st, OpKey(a.op))
  <1>1. HasFields(db) /\ HasFields(e) /\ Sound(db) /\ db \in FloorType
    BY FloorFacts, FloorFields
  <1>2. i \in Invoices /\ a.op.amount \in Nat \ {0} /\ a.op.id \in RequestId
        /\ a.op.kind = "collect"
    BY DEF CollectRequests
  <1>3. x \in BillType /\ x.due \in Nat /\ x.orders \subseteq Orders
        /\ x.session \in Sessions \cup {None}
    BY <1>1, <1>2 DEF HasFields, BillType
  <1>4. x.status \in {"paid", "unpaid"} /\ due \in Nat /\ x.due # 0
    BY <1>2, <1>3 DEF CollectAllowed
  <1>5. BillCovers(db, i)
    BY <1>1, <1>2, <1>4 DEF Sound, BillsCover
  <1>6. e = Finalized(d, C, s, i, due)
    BY DEF CollectEffect, PaidLeaves
  <1>7. /\ FinalWrites(db, s, x.order) \subseteq W
        /\ BranchDoc \in W /\ InvoiceDoc(i) \in W
        /\ C = BilledOrders(db, s, x.order)
    BY DEF CollectWrites, Collected
  <1>8. C = x.orders
    <2>1. \A o \in Orders : o \in C <=> IsFor(db, x, o) /\ db.order[o].status \notin Dropped
      BY <1>3, <1>5, <1>7 DEF BilledOrders, OrdersOf, IsFor, BillCovers
    <2>2. C \subseteq Orders
      BY <1>3, <1>5, <1>7 DEF BilledOrders, OrdersOf, BillCovers
    <2> HIDE DEF C
    <2> QED BY <1>3, <1>5, <2>1, <2>2 DEF BillCovers
  <1>9. /\ r \in BillType /\ r.status = st /\ r.due = due /\ r.orders = x.orders
        /\ r.session = s /\ r.order = x.order /\ r.version = x.version
    <2> HIDE DEF x, due
    <2> QED BY <1>3, <1>4 DEF BillType, BillStatus, s
  <1>10. st \in {"paid", "unpaid"}
    OBVIOUS
  <1>11. /\ d.invoice[i] = r /\ \A j \in Invoices : j # i => d.invoice[j] = db.invoice[j]
         /\ d.invoice \in [Invoices -> BillType]
         /\ d.opkeys = db.opkeys \cup {OpKey(a.op)}
         /\ d.table = db.table /\ d.session = db.session /\ d.order = db.order
         /\ d.token = db.token /\ d.access = db.access
         /\ d.lastSession = db.lastSession /\ d.lastOrder = db.lastOrder
         /\ d.lastInvoice = db.lastInvoice /\ d.lastToken = db.lastToken
         /\ IsRecord(d)
    <2>1. x = db.invoice[i]
      OBVIOUS
    <2>2. r = [x EXCEPT !.due = due, !.status = st]
      OBVIOUS
    <2> HIDE DEF due, st, i, x, r
    <2>3. db.invoice \in [Invoices -> BillType]
      BY <1>1 DEF HasFields
    <2>4. [db.invoice EXCEPT ![i].due = due, ![i].status = st]
            = [db.invoice EXCEPT ![i] = r]
      BY <1>2, <1>3, <2>1, <2>2, <2>3 DEF BillType
    <2>5. /\ d.invoice = [db.invoice EXCEPT ![i].due = due, ![i].status = st]
          /\ d.opkeys = db.opkeys \cup {OpKey(a.op)}
          /\ d.table = db.table /\ d.session = db.session /\ d.order = db.order
          /\ d.token = db.token /\ d.access = db.access
          /\ d.lastSession = db.lastSession /\ d.lastOrder = db.lastOrder
          /\ d.lastInvoice = db.lastInvoice /\ d.lastToken = db.lastToken
          /\ IsRecord(d)
      BY <1>1, PaidDelta
    <2> HIDE DEF d
    <2>6. d.invoice = [db.invoice EXCEPT ![i] = r]
      BY <2>4, <2>5
    <2> QED BY <1>2, <1>9, <2>3, <2>5, <2>6
  <1> HIDE DEF d, r, due, C, W, st
  <1>12. d \in FloorType
    <2>1. d.opkeys \subseteq ({"order", "collect", "void"} \X RequestId)
      BY <1>1, <1>2, <1>11 DEF HasFields, OpKey
    <2> QED BY <1>1, <1>11, <2>1, FloorIntro DEF HasFields
  <1> HIDE DEF i, x, s
  <1>13. \A o \in C : /\ o \in Orders /\ db.order[o].invoice = i
                      /\ db.order[o].status = "billed"
                      /\ db.order[o].session = s
    <2>1. \A o \in C : o \in Orders
      BY <1>3, <1>8
    <2> QED BY <1>4, <1>5, <1>8, <2>1 DEF BillCovers, IsFor, x, s
  <1>14. C # {}
    BY <1>5, <1>8 DEF BillCovers, x
  <1>15. s = None => r.order \in Orders /\ db.order[r.order].session = None
    BY <1>5, <1>9 DEF BillCovers, x, s
  <1>16. s # None =>
           /\ db.session[s].status \in LiveStatus
           /\ r.version <= db.session[s].version
           /\ \A j \in Invoices :
                j # i /\ db.invoice[j].status # "none" => db.invoice[j].session # s
           /\ \A q \in quoted[s] : q.version = r.version => C \subseteq q.orders
    <2> SUFFICES ASSUME s # None
                 PROVE  /\ db.session[s].status \in LiveStatus
                        /\ r.version <= db.session[s].version
                        /\ \A j \in Invoices :
                             j # i /\ db.invoice[j].status # "none"
                               => db.invoice[j].session # s
                        /\ \A q \in quoted[s] : q.version = r.version => C \subseteq q.orders
      OBVIOUS
    <2>1. s \in Sessions /\ db.session[s].version \in Nat /\ x.version \in Nat
      BY <1>1, <1>3 DEF HasFields, SessionType, BillType, s
    <2>2. db.session[s].invoice = i /\ x.version < db.session[s].version
      BY <1>5 DEF BillCovers, x, s
    <2>3. db.session[s].status \in LiveStatus
      BY <1>2, <1>4, BilledSession DEF LiveStatus, x, s
    <2>4. \A j \in Invoices :
            j # i /\ db.invoice[j].status # "none" => db.invoice[j].session # s
      BY <1>1, <2>2 DEF Sound, BillsCover, BillCovers
    <2>5. \A q \in quoted[s] : q.version = x.version => C \subseteq q.orders
      BY <1>1, <1>2, <1>8, <2>1 DEF Sound, QuotesShow, x, s
    <2> QED BY <1>9, <2>1, <2>2, <2>3, <2>4, <2>5
  <1>17. /\ r.status \in {"paid", "unpaid"} /\ C = r.orders /\ s = r.session
         /\ C = BilledOrders(db, s, r.order) /\ FinalWrites(db, s, r.order) \subseteq W
         /\ e = Finalized(d, C, s, i, r.due)
         /\ db.invoice[i].orders \subseteq C
    BY <1>6, <1>7, <1>8, <1>9, <1>10 DEF x
  <1>18. /\ db.opkeys \subseteq d.opkeys /\ d.lastInvoice \in Nat
         /\ db.lastInvoice <= d.lastInvoice /\ i <= d.lastInvoice
    <2>1. db.lastInvoice \in Nat /\ i \in Nat
      BY <1>1, <1>2 DEF HasFields, Invoices
    <2>2. ~(i > db.lastInvoice)
      BY <1>1, <1>2, <1>4 DEF Sound, Numbered, x
    <2> QED BY <1>11, <2>1, <2>2
  <1>19. \A o \in C : /\ db.order[o].session = s
                      /\ db.order[o].status \in Eligible \cup {"billed"}
                      /\ db.order[o].invoice \in {None, i}
    BY <1>13
  <1>20. Finalizable(i, r, C, s, d, W)
    BY <1>7, <1>11, <1>14, <1>15, <1>16, <1>17, <1>18, <1>19 DEF Finalizable
  <1>21. DifferIn(W, db, e) /\ Sound(e)
    BY <1>2, <1>9, <1>12, <1>17, <1>20, FinalSound
  <1> QED BY <1>21 DEF W

-----------------------------------------------------------------------------
(* Every step keeps the invariant.                                         *)

LEMMA SoundPrimed ==
    ASSUME NEW next, Sound(next), db' = next, quoted' = quoted
    PROVE  Sound(db)'
  BY DEF Sound, Numbered, TablesShow, LiveAt, AskedStaysAsked, ChargedOnBills, BillsCover,
         BillCovers, IsFor, GuestKeys, QuotesShow

LEMMA CommitKeeps ==
    ASSUME FloorInv, NEW h, NEW W, NEW next, Commits(h, W, next),
           DifferIn(W, db, next), Sound(next)
    PROVE  FloorInv'
  <1>1. FloorShape'
    BY CommitShape DEF FloorInv
  <1>2. SeenInv'
    BY SeenKept DEF FloorInv
  <1>3. Sound(db)'
    BY SoundPrimed DEF Commits, CommitTxn
  <1> QED BY <1>1, <1>2, <1>3 DEF FloorInv

\* `Alone(run[h])' is the work of h with db for its snapshot.
LEMMA AloneWork ==
    ASSUME FloorInv, NEW h \in DOMAIN run, NEW a, a = Alone(run[h])
    PROVE  AsAlone(run[h], a) /\ a.op = run[h].op /\ a.op \in Requests /\ a.snap = db
  <1>1. /\ run[h] = [op |-> run[h].op, snap |-> run[h].snap,
                     day |-> run[h].day, missed |-> run[h].missed]
        /\ run[h].op \in Requests
    BY DEF FloorInv, FloorShape, Shape, TypeOK
  <1>2. a.op = run[h].op /\ a.snap = db
    BY <1>1 DEF Alone
  <1> QED BY <1>1, <1>2 DEF AsAlone

LEMMA OpenSolo ==
    ASSUME FloorInv, NEW h, OpenSession(h), NEW a, a = Alone(run[h])
    PROVE  OpenAllowed(a) /\ db' = OpenEffect(a) /\ FloorInv'
  <1>1. /\ Commits(h, OpenWrites(run[h]), OpenEffect(run[h]))
        /\ run[h].op \in OpenRequests /\ OpenAllowed(run[h])
    BY OpenSessionStep DEF FloorInv
  <1>2. AgreeIn(OpenWrites(run[h]), run[h].snap, db)
    BY <1>1, ReadsCurrent DEF FloorInv
  <1>3. AsAlone(run[h], a) /\ a.op = run[h].op /\ a.op \in Requests /\ a.snap = db
    BY <1>1, AloneWork DEF Commits
  <1>4. /\ OpenAllowed(a) /\ OpenWrites(a) = OpenWrites(run[h])
        /\ OpenEffect(a) = OpenEffect(run[h])
    BY <1>1, <1>2, <1>3, OpenAlone
  <1>5. DifferIn(OpenWrites(a), db, OpenEffect(a)) /\ Sound(OpenEffect(a))
    BY <1>1, <1>3, <1>4, OpenSound DEF Commits
  <1> QED BY <1>1, <1>4, <1>5, CommitKeeps DEF Commits, CommitTxn

LEMMA OrderSolo ==
    ASSUME FloorInv, NEW h, PlaceOrder(h), NEW a, a = Alone(run[h])
    PROVE  OrderAllowed(a) /\ db' = OrderEffect(a) /\ FloorInv'
  <1>1. /\ Commits(h, OrderWrites(run[h]), OrderEffect(run[h]))
        /\ run[h].op \in OrderRequests /\ OrderAllowed(run[h])
    BY PlaceOrderStep DEF FloorInv
  <1>2. AgreeIn(OrderWrites(run[h]), run[h].snap, db)
    BY <1>1, ReadsCurrent DEF FloorInv
  <1>3. AsAlone(run[h], a) /\ a.op = run[h].op /\ a.op \in Requests /\ a.snap = db
    BY <1>1, AloneWork DEF Commits
  <1>4. /\ OrderAllowed(a) /\ OrderWrites(a) = OrderWrites(run[h])
        /\ OrderEffect(a) = OrderEffect(run[h])
    BY <1>1, <1>2, <1>3, OrderAlone
  <1>5. DifferIn(OrderWrites(a), db, OrderEffect(a)) /\ Sound(OrderEffect(a))
    BY <1>1, <1>3, <1>4, OrderSound DEF Commits
  <1> QED BY <1>1, <1>4, <1>5, CommitKeeps DEF Commits, CommitTxn

LEMMA MoveSolo ==
    ASSUME FloorInv, NEW h, MoveOrder(h), NEW a, a = Alone(run[h])
    PROVE  MoveAllowed(a) /\ db' = MoveEffect(a) /\ FloorInv'
  <1>1. /\ Commits(h, MoveWrites(run[h]), MoveEffect(run[h]))
        /\ run[h].op \in MoveRequests /\ MoveAllowed(run[h])
    BY MoveOrderStep DEF FloorInv
  <1>2. AgreeIn(MoveWrites(run[h]), run[h].snap, db)
    BY <1>1, ReadsCurrent DEF FloorInv
  <1>3. AsAlone(run[h], a) /\ a.op = run[h].op /\ a.op \in Requests /\ a.snap = db
    BY <1>1, AloneWork DEF Commits
  <1>4. /\ MoveAllowed(a) /\ MoveWrites(a) = MoveWrites(run[h])
        /\ MoveEffect(a) = MoveEffect(run[h])
    BY <1>1, <1>2, <1>3, MoveAlone
  <1>5. DifferIn(MoveWrites(a), db, MoveEffect(a)) /\ Sound(MoveEffect(a))
    BY <1>1, <1>3, <1>4, MoveSound DEF Commits
  <1> QED BY <1>1, <1>4, <1>5, CommitKeeps DEF Commits, CommitTxn

LEMMA AskSolo ==
    ASSUME FloorInv, NEW h, RequestBill(h), NEW a, a = Alone(run[h])
    PROVE  AskAllowed(a) /\ db' = AskEffect(a) /\ FloorInv'
  <1>1. /\ Commits(h, AskWrites(run[h]), AskEffect(run[h]))
        /\ run[h].op \in AskRequests /\ AskAllowed(run[h])
    BY RequestBillStep DEF FloorInv
  <1>2. AgreeIn(AskWrites(run[h]), run[h].snap, db)
    BY <1>1, ReadsCurrent DEF FloorInv
  <1>3. AsAlone(run[h], a) /\ a.op = run[h].op /\ a.op \in Requests /\ a.snap = db
    BY <1>1, AloneWork DEF Commits
  <1>4. /\ AskAllowed(a) /\ AskWrites(a) = AskWrites(run[h])
        /\ AskEffect(a) = AskEffect(run[h])
    BY <1>1, <1>2, <1>3, AskAlone
  <1>5. DifferIn(AskWrites(a), db, AskEffect(a)) /\ Sound(AskEffect(a))
    BY <1>1, <1>3, <1>4, AskSound DEF Commits
  <1> QED BY <1>1, <1>4, <1>5, CommitKeeps DEF Commits, CommitTxn

LEMMA CloseSolo ==
    ASSUME FloorInv, NEW h, CloseSession(h), NEW a, a = Alone(run[h])
    PROVE  CloseAllowed(a) /\ db' = CloseEffect(a) /\ FloorInv'
  <1>1. /\ Commits(h, CloseWrites(run[h]), CloseEffect(run[h]))
        /\ run[h].op \in CloseRequests /\ CloseAllowed(run[h])
    BY CloseSessionStep DEF FloorInv
  <1>2. AgreeIn(CloseWrites(run[h]), run[h].snap, db)
    BY <1>1, ReadsCurrent DEF FloorInv
  <1>3. AsAlone(run[h], a) /\ a.op = run[h].op /\ a.op \in Requests /\ a.snap = db
    BY <1>1, AloneWork DEF Commits
  <1>4. /\ CloseAllowed(a) /\ CloseWrites(a) = CloseWrites(run[h])
        /\ CloseEffect(a) = CloseEffect(run[h])
    BY <1>1, <1>2, <1>3, CloseAlone
  <1>5. DifferIn(CloseWrites(a), db, CloseEffect(a)) /\ Sound(CloseEffect(a))
    BY <1>1, <1>3, <1>4, CloseSound DEF Commits
  <1> QED BY <1>1, <1>4, <1>5, CommitKeeps DEF Commits, CommitTxn

LEMMA BillSolo ==
    ASSUME FloorInv, NEW h, BillSource(h), NEW a, a = Alone(run[h])
    PROVE  BillAllowed(a) /\ db' = BillEffect(a) /\ FloorInv'
  <1>0. h \in DOMAIN run /\ run[h].op \in Requests
    BY DEF BillSource, Execute, FloorInv, FloorShape, TypeOK
  <1>1. /\ Commits(h, BillWrites(run[h]), BillEffect(run[h]))
        /\ run[h].op \in BillRequests /\ BillAllowed(run[h])
        /\ (run[h].op.session = None) # (run[h].op.order = None)
    BY BillSourceStep, FloorRequestAssumption, <1>0 DEF FloorInv, BillRequests
  <1>2. AgreeIn(BillWrites(run[h]), run[h].snap, db)
    BY <1>1, ReadsCurrent DEF FloorInv
  <1>3. AsAlone(run[h], a) /\ a.op = run[h].op /\ a.op \in Requests /\ a.snap = db
    BY <1>1, AloneWork DEF Commits
  <1>4. /\ BillAllowed(a) /\ BillWrites(a) = BillWrites(run[h])
        /\ BillEffect(a) = BillEffect(run[h])
    BY <1>1, <1>2, <1>3, BillAlone
  <1>5. DifferIn(BillWrites(a), db, BillEffect(a)) /\ Sound(BillEffect(a))
    BY <1>1, <1>3, <1>4, BillSound DEF Commits
  <1> QED BY <1>1, <1>4, <1>5, CommitKeeps DEF Commits, CommitTxn

LEMMA CollectSolo ==
    ASSUME FloorInv, NEW h, CollectBill(h), NEW a, a = Alone(run[h])
    PROVE  CollectAllowed(a) /\ db' = CollectEffect(a) /\ FloorInv'
  <1>1. /\ Commits(h, CollectWrites(run[h]), CollectEffect(run[h]))
        /\ run[h].op \in CollectRequests /\ CollectAllowed(run[h])
    BY CollectBillStep DEF FloorInv
  <1>2. AgreeIn(CollectWrites(run[h]), run[h].snap, db)
    BY <1>1, ReadsCurrent DEF FloorInv
  <1>3. AsAlone(run[h], a) /\ a.op = run[h].op /\ a.op \in Requests /\ a.snap = db
    BY <1>1, AloneWork DEF Commits
  <1>4. /\ CollectAllowed(a) /\ CollectWrites(a) = CollectWrites(run[h])
        /\ CollectEffect(a) = CollectEffect(run[h])
    BY <1>1, <1>2, <1>3, CollectAlone, FloorFacts DEF Sound
  <1>5. DifferIn(CollectWrites(a), db, CollectEffect(a)) /\ Sound(CollectEffect(a))
    BY <1>1, <1>3, <1>4, CollectSound DEF Commits
  <1> QED BY <1>1, <1>4, <1>5, CommitKeeps DEF Commits, CommitTxn

LEMMA VoidSolo ==
    ASSUME FloorInv, NEW h, VoidBill(h), NEW a, a = Alone(run[h])
    PROVE  VoidAllowed(a) /\ db' = VoidEffect(a) /\ FloorInv'
  <1>1. /\ Commits(h, VoidWrites(run[h]), VoidEffect(run[h]))
        /\ run[h].op \in VoidRequests /\ VoidAllowed(run[h])
    BY VoidBillStep DEF FloorInv
  <1>2. AgreeIn(VoidWrites(run[h]), run[h].snap, db)
    BY <1>1, ReadsCurrent DEF FloorInv
  <1>3. AsAlone(run[h], a) /\ a.op = run[h].op /\ a.op \in Requests /\ a.snap = db
    BY <1>1, AloneWork DEF Commits
  <1>4. /\ VoidAllowed(a) /\ VoidWrites(a) = VoidWrites(run[h])
        /\ VoidEffect(a) = VoidEffect(run[h])
    BY <1>1, <1>2, <1>3, VoidAlone
  <1>5. DifferIn(VoidWrites(a), db, VoidEffect(a)) /\ Sound(VoidEffect(a))
    BY <1>1, <1>3, <1>4, VoidSound DEF Commits
  <1> QED BY <1>1, <1>4, <1>5, CommitKeeps DEF Commits, CommitTxn

LEMMA EditSolo ==
    ASSUME FloorInv, NEW h, EditTable(h), NEW a, a = Alone(run[h])
    PROVE  EditAllowed(a) /\ db' = EditEffect(a) /\ FloorInv'
  <1>1. /\ Commits(h, EditWrites(run[h]), EditEffect(run[h]))
        /\ run[h].op \in EditRequests /\ EditAllowed(run[h])
    BY EditTableStep DEF FloorInv
  <1>2. AgreeIn(EditWrites(run[h]), run[h].snap, db)
    BY <1>1, ReadsCurrent DEF FloorInv
  <1>3. AsAlone(run[h], a) /\ a.op = run[h].op /\ a.op \in Requests /\ a.snap = db
    BY <1>1, AloneWork DEF Commits
  <1>4. /\ EditAllowed(a) /\ EditWrites(a) = EditWrites(run[h])
        /\ EditEffect(a) = EditEffect(run[h])
    BY <1>1, <1>2, <1>3, EditAlone
  <1>5. DifferIn(EditWrites(a), db, EditEffect(a)) /\ Sound(EditEffect(a))
    BY <1>1, <1>3, <1>4, EditSound DEF Commits
  <1> QED BY <1>1, <1>4, <1>5, CommitKeeps DEF Commits, CommitTxn

LEMMA DeactivateSolo ==
    ASSUME FloorInv, NEW h, DeactivateTable(h), NEW a, a = Alone(run[h])
    PROVE  DeactivateAllowed(a) /\ db' = DeactivateEffect(a) /\ FloorInv'
  <1>1. /\ Commits(h, DeactivateWrites(run[h]), DeactivateEffect(run[h]))
        /\ run[h].op \in TableRequests /\ DeactivateAllowed(run[h])
    BY DeactivateTableStep DEF FloorInv
  <1>2. AgreeIn(DeactivateWrites(run[h]), run[h].snap, db)
    BY <1>1, ReadsCurrent DEF FloorInv
  <1>3. AsAlone(run[h], a) /\ a.op = run[h].op /\ a.op \in Requests /\ a.snap = db
    BY <1>1, AloneWork DEF Commits
  <1>4. /\ DeactivateAllowed(a) /\ DeactivateWrites(a) = DeactivateWrites(run[h])
        /\ DeactivateEffect(a) = DeactivateEffect(run[h])
    BY <1>1, <1>2, <1>3, DeactivateAlone
  <1>5. DifferIn(DeactivateWrites(a), db, DeactivateEffect(a)) /\ Sound(DeactivateEffect(a))
    BY <1>1, <1>3, <1>4, DeactivateSound DEF Commits
  <1> QED BY <1>1, <1>4, <1>5, CommitKeeps DEF Commits, CommitTxn

LEMMA RotateSolo ==
    ASSUME FloorInv, NEW h, RotateQr(h), NEW a, a = Alone(run[h])
    PROVE  RotateAllowed(a) /\ db' = RotateEffect(a) /\ FloorInv'
  <1>1. /\ Commits(h, RotateWrites(run[h]), RotateEffect(run[h]))
        /\ run[h].op \in TableRequests /\ RotateAllowed(run[h])
    BY RotateQrStep DEF FloorInv
  <1>2. AgreeIn(RotateWrites(run[h]), run[h].snap, db)
    BY <1>1, ReadsCurrent DEF FloorInv
  <1>3. AsAlone(run[h], a) /\ a.op = run[h].op /\ a.op \in Requests /\ a.snap = db
    BY <1>1, AloneWork DEF Commits
  <1>4. /\ RotateAllowed(a) /\ RotateWrites(a) = RotateWrites(run[h])
        /\ RotateEffect(a) = RotateEffect(run[h])
    BY <1>1, <1>2, <1>3, RotateAlone
  <1>5. DifferIn(RotateWrites(a), db, RotateEffect(a)) /\ Sound(RotateEffect(a))
    BY <1>1, <1>3, <1>4, RotateSound DEF Commits
  <1> QED BY <1>1, <1>4, <1>5, CommitKeeps DEF Commits, CommitTxn

LEMMA RevokeSolo ==
    ASSUME FloorInv, NEW h, RevokeQr(h), NEW a, a = Alone(run[h])
    PROVE  RevokeAllowed(a) /\ db' = RevokeEffect(a) /\ FloorInv'
  <1>1. /\ Commits(h, RevokeWrites(run[h]), RevokeEffect(run[h]))
        /\ run[h].op \in TableRequests /\ RevokeAllowed(run[h])
    BY RevokeQrStep DEF FloorInv
  <1>2. AgreeIn(RevokeWrites(run[h]), run[h].snap, db)
    BY <1>1, ReadsCurrent DEF FloorInv
  <1>3. AsAlone(run[h], a) /\ a.op = run[h].op /\ a.op \in Requests /\ a.snap = db
    BY <1>1, AloneWork DEF Commits
  <1>4. /\ RevokeAllowed(a) /\ RevokeWrites(a) = RevokeWrites(run[h])
        /\ RevokeEffect(a) = RevokeEffect(run[h])
    BY <1>1, <1>2, <1>3, RevokeAlone
  <1>5. DifferIn(RevokeWrites(a), db, RevokeEffect(a)) /\ Sound(RevokeEffect(a))
    BY <1>1, <1>3, <1>4, RevokeSound DEF Commits
  <1> QED BY <1>1, <1>4, <1>5, CommitKeeps DEF Commits, CommitTxn

LEMMA BeginKeeps ==
    ASSUME FloorInv, NEW h \in Handlers, Begin(h)
    PROVE  FloorInv'
  <1>1. FloorShape'
    BY BeginShape DEF FloorInv
  <1>2. /\ db' = db /\ quoted' = quoted
        /\ DOMAIN run' = DOMAIN run \cup {h}
        /\ run'[h].snap = db
        /\ \A g \in DOMAIN run' : g # h => run'[g] = run[g]
    BY DEF Begin, OpenTxn
  <1>3. DifferIn(run'[h].missed, run'[h].snap, db)
    <2>1. Later(db, db)
      BY LaterSame
    <2> QED BY <1>2, <2>1 DEF DifferIn, SameBranch, SameTable, SameSession
  <1>4. \A g \in DOMAIN run' : DifferIn(run'[g].missed, run'[g].snap, db')
    BY <1>2, <1>3 DEF FloorInv, SeenInv
  <1>5. Sound(db)'
    BY <1>2, SoundPrimed DEF FloorInv
  <1> QED BY <1>1, <1>4, <1>5 DEF FloorInv, SeenInv

\* The database, the quotes and the snapshots stay.
LEMMA IdleKeeps ==
    ASSUME FloorInv, FloorShape', db' = db, quoted' = quoted,
           DOMAIN run' \subseteq DOMAIN run, \A g \in DOMAIN run' : run'[g] = run[g]
    PROVE  FloorInv'
  <1>1. \A g \in DOMAIN run' : DifferIn(run'[g].missed, run'[g].snap, db')
    BY DEF FloorInv, SeenInv
  <1>2. Sound(db)'
    BY SoundPrimed DEF FloorInv
  <1> QED BY <1>1, <1>2 DEF FloorInv, SeenInv

LEMMA ResolveKeeps ==
    ASSUME FloorInv, NEW k \in Tokens, Resolve(k)
    PROVE  FloorInv'
  <1> DEFINE x == <<k, db.table[db.token[k].table].session>>
             d == AccessLeaves(x)
  <1>1. db' = d /\ run' = run /\ quoted' = quoted
    BY DEF Resolve, AccessLeaves
  <1>2. FloorShape'
    BY ResolveShape DEF FloorInv
  <1> HIDE DEF x
  <1>3. /\ d.token = db.token /\ d.lastOrder = db.lastOrder
        /\ d.table = db.table /\ d.session = db.session /\ d.order = db.order
        /\ d.invoice = db.invoice /\ d.opkeys = db.opkeys
        /\ d.lastSession = db.lastSession /\ d.lastInvoice = db.lastInvoice
        /\ d.lastToken = db.lastToken
    BY AccessDelta, FloorFacts
  <1> HIDE DEF d
  <1>4. Sound(d)
    <2>1. \A n \in Tokens : n > d.lastToken => d.token[n].table = None
      BY <1>3, FloorFacts DEF Sound, Numbered
    <2> QED BY <1>3, <2>1, FlagsSound
  <1>5. DifferIn({}, db, d)
    BY <1>3, LaterSame
       DEF DifferIn, SameBranch, SameTable, SameSession, TokensOf, OrdersOf
  <1>6. \A g \in DOMAIN run : DifferIn(run[g].missed, run[g].snap, d)
    <2> SUFFICES ASSUME NEW g \in DOMAIN run
                 PROVE  DifferIn(run[g].missed, run[g].snap, d)
      OBVIOUS
    <2>1. DifferIn(run[g].missed, run[g].snap, db)
      BY DEF FloorInv, SeenInv
    <2>2. DifferIn(run[g].missed \cup {}, run[g].snap, d)
      BY <1>5, <2>1, DifferMore
    <2>3. run[g].missed \cup {} = run[g].missed
      OBVIOUS
    <2> QED BY <2>2, <2>3
  <1>7. SeenInv'
    BY <1>1, <1>6 DEF SeenInv
  <1>8. Sound(db)'
    BY <1>1, <1>4, SoundPrimed
  <1> QED BY <1>2, <1>7, <1>8 DEF FloorInv

\* The quote that is shown has the version and all the orders of its session,
\* which is not billed yet.
LEMMA QuoteKeeps ==
    ASSUME FloorInv, NEW s \in Sessions, Quote(s)
    PROVE  FloorInv'
  <1> DEFINE q == [version |-> db.session[s].version,
                   orders |-> BilledOrders(db, s, None)]
  <1>1. /\ db' = db /\ run' = run
        /\ db.session[s].status \in {"open", "bill_requested"}
        /\ quoted'[s] = quoted[s] \cup {q}
        /\ \A x \in Sessions : x # s => quoted'[x] = quoted[x]
    BY FloorFacts DEF Quote
  <1>2. FloorShape'
    BY QuoteShape DEF FloorInv
  <1>3. HasFields(db) /\ Sound(db) /\ s # None
    BY FloorFacts DEF Sessions, None
  <1>4. \A o \in Orders :
          db.order[o].session = s /\ db.order[o].status \notin Dropped => o \in q.orders
    BY <1>3 DEF BilledOrders, OrdersOf
  <1>5. q.version = db.session[s].version
    OBVIOUS
  <1> HIDE DEF q
  <1>6. \A i \in Invoices : db.invoice[i].session # s
    <2>1. \A i \in Invoices : db.invoice[i].status # "none" => db.invoice[i].session # s
      BY <1>1, Unbilled
    <2>2. \A i \in Invoices : db.invoice[i].status = "none" => db.invoice[i].session = None
      BY <1>3 DEF Sound, Numbered, NoBill
    <2> QED BY <1>3, <2>1, <2>2
  <1>7. QuotesShow(db)'
    <2> SUFFICES ASSUME NEW x \in Sessions, NEW y \in quoted'[x]
                 PROVE  /\ y.version <= db.session[x].version
                        /\ y.version = db.session[x].version =>
                             \A o \in Orders :
                               db.order[o].session = x /\ db.order[o].status \notin Dropped
                                 => o \in y.orders
                        /\ \A i \in Invoices :
                             db.invoice[i].session = x /\ db.invoice[i].version = y.version
                               => db.invoice[i].orders \subseteq y.orders
      BY <1>1 DEF QuotesShow
    <2>1. CASE y \in quoted[x]
      BY <1>3, <2>1 DEF Sound, QuotesShow
    <2>2. CASE y \notin quoted[x]
      <3>1. x = s /\ y = q
        BY <1>1, <2>2
      <3>2. db.session[s].version \in Nat
        BY <1>3 DEF HasFields, SessionType
      <3> QED BY <1>4, <1>5, <1>6, <3>1, <3>2
    <2> QED BY <2>1, <2>2
  <1>8. /\ Numbered(db)' /\ TablesShow(db)' /\ AskedStaysAsked(db)'
        /\ ChargedOnBills(db)' /\ BillsCover(db)' /\ GuestKeys(db)'
    BY <1>1, <1>3
       DEF Sound, Numbered, TablesShow, LiveAt, AskedStaysAsked, ChargedOnBills,
           BillsCover, BillCovers, IsFor, GuestKeys
  <1>9. SeenInv'
    BY <1>1 DEF FloorInv, SeenInv
  <1> QED BY <1>2, <1>7, <1>8, <1>9 DEF FloorInv, Sound

LEMMA InitKeeps ==
    ASSUME Init
    PROVE  FloorInv
  <1>1. FloorShape
    BY InitShape
  <1>2. /\ db = EmptyFloor /\ DOMAIN run = {}
        /\ \A x \in Sessions : quoted[x] = {}
    BY DEF Init
  <1>3. /\ \A x \in Sessions : db.session[x] = NoSession
        /\ \A o \in Orders : db.order[o] = NoOrder
        /\ \A i \in Invoices : db.invoice[i] = NoBill
        /\ \A k \in Tokens : db.token[k].table = None
        /\ \A b \in Tables : db.table[b] = FreeTable
    BY <1>2 DEF EmptyFloor
  <1>4. Numbered(db) /\ AskedStaysAsked(db) /\ ChargedOnBills(db) /\ BillsCover(db)
    <2>1. /\ NoOrder.session = None /\ NoOrder.invoice = None
          /\ NoOrder.status = "none" /\ NoBill.status = "none"
      BY DEF NoOrder, NoBill
    <2>2. Numbered(db)
      BY <1>3, <2>1 DEF Numbered
    <2>3. AskedStaysAsked(db)
      BY <1>3, <2>1 DEF AskedStaysAsked
    <2>4. ChargedOnBills(db)
      BY <1>3, <2>1 DEF ChargedOnBills
    <2>5. BillsCover(db)
      BY <1>3, <2>1 DEF BillsCover
    <2> QED BY <2>2, <2>3, <2>4, <2>5
  <1>5. TablesShow(db)
    BY <1>3 DEF TablesShow, LiveAt, LiveStatus, NoSession, FreeTable
  <1>6. GuestKeys(db)
    <2>1. \A r \in Requests : r.kind = "order" => r.id # 0
      BY KindOf DEF OrderRequests, RequestId
    <2> QED BY <1>3, <2>1 DEF GuestKeys, NoOrder
  <1>7. QuotesShow(db)
    BY <1>2 DEF QuotesShow
  <1> QED BY <1>1, <1>2, <1>4, <1>5, <1>6, <1>7 DEF FloorInv, Sound, SeenInv

LEMMA FloorStep ==
    ASSUME FloorInv, [Next]_vars
    PROVE  FloorInv'
  <1>1. ASSUME NEW h \in Handlers, Arrive(h) PROVE FloorInv'
    BY <1>1, ArriveShape, IdleKeeps DEF Arrive, FloorInv
  <1>2. ASSUME NEW h \in Handlers, Begin(h) PROVE FloorInv'
    BY <1>2, BeginKeeps
  <1>3. ASSUME NEW h \in Handlers, Abandon(h) PROVE FloorInv'
    <2>1. /\ db' = db /\ quoted' = quoted
          /\ DOMAIN run' \subseteq DOMAIN run
          /\ \A g \in DOMAIN run' : run'[g] = run[g]
      BY <1>3 DEF Abandon, AbortTxn
    <2> QED BY <1>3, <2>1, AbandonShape, IdleKeeps DEF FloorInv
  <1>4. ASSUME NEW h \in Handlers, GiveUp(h) PROVE FloorInv'
    <2>1. FloorShape'
      BY <1>4 DEF GiveUp, Forget, FloorInv, FloorShape, TypeOK, Shape, TokensHaveTables
    <2> QED BY <1>4, <2>1, IdleKeeps DEF GiveUp
  <1>5. ASSUME NEW h \in Handlers, OpenSession(h) PROVE FloorInv'
    BY <1>5, OpenSolo
  <1>6. ASSUME NEW h \in Handlers, PlaceOrder(h) PROVE FloorInv'
    BY <1>6, OrderSolo
  <1>7. ASSUME NEW h \in Handlers, MoveOrder(h) PROVE FloorInv'
    BY <1>7, MoveSolo
  <1>8. ASSUME NEW h \in Handlers, RequestBill(h) PROVE FloorInv'
    BY <1>8, AskSolo
  <1>9. ASSUME NEW h \in Handlers, CloseSession(h) PROVE FloorInv'
    BY <1>9, CloseSolo
  <1>10. ASSUME NEW h \in Handlers, BillSource(h) PROVE FloorInv'
    BY <1>10, BillSolo
  <1>11. ASSUME NEW h \in Handlers, CollectBill(h) PROVE FloorInv'
    BY <1>11, CollectSolo
  <1>12. ASSUME NEW h \in Handlers, VoidBill(h) PROVE FloorInv'
    BY <1>12, VoidSolo
  <1>13. ASSUME NEW h \in Handlers, EditTable(h) PROVE FloorInv'
    BY <1>13, EditSolo
  <1>14. ASSUME NEW h \in Handlers, DeactivateTable(h) PROVE FloorInv'
    BY <1>14, DeactivateSolo
  <1>15. ASSUME NEW h \in Handlers, RotateQr(h) PROVE FloorInv'
    BY <1>15, RotateSolo
  <1>16. ASSUME NEW h \in Handlers, RevokeQr(h) PROVE FloorInv'
    BY <1>16, RevokeSolo
  <1>17. ASSUME NEW k \in Tokens, Resolve(k) PROVE FloorInv'
    BY <1>17, ResolveKeeps
  <1>18. ASSUME NEW s \in Sessions, Quote(s) PROVE FloorInv'
    BY <1>18, QuoteKeeps
  <1>19. CASE UNCHANGED vars
    <2>1. FloorShape'
      BY <1>19, FloorShapeStep DEF FloorInv
    <2> QED BY <1>19, <2>1, IdleKeeps DEF vars
  <1> QED
    BY <1>1, <1>2, <1>3, <1>4, <1>5, <1>6, <1>7, <1>8, <1>9, <1>10,
       <1>11, <1>12, <1>13, <1>14, <1>15, <1>16, <1>17, <1>18, <1>19
    DEF Next, Step

\* Whatever handlers interleave, the floor is sound and every open transaction
\* still sees what it read wherever no other has written.
THEOREM FloorInvariant == Spec => []FloorInv
  <1>1. Init => FloorInv
    BY InitKeeps
  <1>2. FloorInv /\ [Next]_vars => FloorInv'
    BY FloorStep
  <1> QED BY <1>1, <1>2, PTL DEF Spec

-----------------------------------------------------------------------------
(* What the runs check.                                                    *)

\* Every commit of the floor does what the handler would have done alone at
\* that moment, for any number of handlers: the documents a handler writes
\* protect what it only reads, as FloorIsSerial says.
THEOREM EveryCommitIsSerial == Spec => FloorIsSerial
  <1>1. FloorInv => \A h \in DOMAIN run : SerialStep(h)
    <2> SUFFICES ASSUME FloorInv, NEW h \in DOMAIN run
                 PROVE  SerialStep(h)
      OBVIOUS
    <2> DEFINE a == Alone(run[h])
    <2>1. OpenSession(h) => OpenAllowed(a) /\ db' = OpenEffect(a)
      BY OpenSolo
    <2>2. PlaceOrder(h) => OrderAllowed(a) /\ db' = OrderEffect(a)
      BY OrderSolo
    <2>3. MoveOrder(h) => MoveAllowed(a) /\ db' = MoveEffect(a)
      BY MoveSolo
    <2>4. RequestBill(h) => AskAllowed(a) /\ db' = AskEffect(a)
      BY AskSolo
    <2>5. CloseSession(h) => CloseAllowed(a) /\ db' = CloseEffect(a)
      BY CloseSolo
    <2>6. BillSource(h) => BillAllowed(a) /\ db' = BillEffect(a)
      BY BillSolo
    <2>7. CollectBill(h) => CollectAllowed(a) /\ db' = CollectEffect(a)
      BY CollectSolo
    <2>8. VoidBill(h) => VoidAllowed(a) /\ db' = VoidEffect(a)
      BY VoidSolo
    <2>9. DeactivateTable(h) => DeactivateAllowed(a) /\ db' = DeactivateEffect(a)
      BY DeactivateSolo
    <2>10. RotateQr(h) => RotateAllowed(a) /\ db' = RotateEffect(a)
      BY RotateSolo
    <2>11. RevokeQr(h) => RevokeAllowed(a) /\ db' = RevokeEffect(a)
      BY RevokeSolo
    <2> QED BY <2>1, <2>2, <2>3, <2>4, <2>5, <2>6, <2>7,
               <2>8, <2>9, <2>10, <2>11 DEF SerialStep
  <1>2. FloorInv /\ [Next]_vars => [\A h \in DOMAIN run : SerialStep(h)]_vars
    BY <1>1
  <1> QED BY <1>2, FloorInvariant, PTL DEF Spec, FloorIsSerial

\* A table points to its one live session and shows its status, and a free
\* table has none, although five handlers rewrite tables from transactions of
\* their own: TableShowsItsSession, for any number of tables and handlers.
THEOREM TablesAlwaysShow == Spec => []TableShowsItsSession
  <1>1. FloorInv => TableShowsItsSession
    <2> SUFFICES ASSUME FloorInv, NEW t \in Tables
                 PROVE  LET live == {s \in Sessions : db.session[s].table = t
                                       /\ db.session[s].status \in LiveStatus}
                        IN  IF db.table[t].session = None
                            THEN live = {} /\ db.table[t].shown = "none"
                            ELSE /\ live = {db.table[t].session}
                                 /\ db.table[t].shown
                                      = db.session[db.table[t].session].status
      BY DEF TableShowsItsSession
    <2>1. TablesShow(db) /\ db.table[t].session \in Sessions \cup {None}
      BY FloorFacts DEF Sound, HasFields, TableType
    <2>2. None \notin Sessions
      BY DEF Sessions, None
    <2> QED BY <2>1, <2>2 DEF TablesShow, LiveAt
  <1> QED BY <1>1, FloorInvariant, PTL

\* Once the bill is asked for no order of the session is still being prepared
\* and none arrives: NothingArrivesAfterTheBillIsAsked, for any requests.
THEOREM AskedSessionsAreFrozen == Spec => []NothingArrivesAfterTheBillIsAsked
  <1>1. FloorInv => NothingArrivesAfterTheBillIsAsked
    BY FloorFacts
       DEF Sound, AskedStaysAsked, NothingArrivesAfterTheBillIsAsked, OrdersOf,
           Sessions, None
  <1> QED BY <1>1, FloorInvariant, PTL

\* A bill charges all the orders of its session that were not dropped, and they,
\* the session and the bill move together from then on: BillCoversItsSession,
\* for any number of sessions, orders and bills.
THEOREM BillsAlwaysCover == Spec => []BillCoversItsSession
  <1>1. FloorInv => BillCoversItsSession
    <2> SUFFICES ASSUME FloorInv, NEW i \in Invoices, db.invoice[i].status # "none"
                 PROVE  LET x == db.invoice[i]
                            s == x.session
                        IN  /\ x.orders = BilledOrders(db, s, x.order)
                            /\ \A o \in x.orders : db.order[o].invoice = i
                            /\ x.status # "cancelled" =>
                                 \A o \in x.orders :
                                    db.order[o].status
                                      = IF x.due = 0 THEN "closed" ELSE "billed"
                            /\ s # None =>
                                 /\ db.session[s].invoice = i
                                 /\ \A o \in x.orders :
                                      db.order[o].status = db.session[s].status
      BY DEF BillCoversItsSession
    <2> DEFINE x == db.invoice[i]
    <2>1. BillCovers(db, i) /\ x.orders \subseteq Orders
      BY FloorFacts DEF Sound, BillsCover, HasFields, BillType
    <2>2. x.orders = BilledOrders(db, x.session, x.order)
      <3>1. \A o \in Orders : o \in BilledOrders(db, x.session, x.order) <=>
                                IsFor(db, x, o) /\ db.order[o].status \notin Dropped
        BY <2>1 DEF BilledOrders, OrdersOf, IsFor, BillCovers
      <3>2. BilledOrders(db, x.session, x.order) \subseteq Orders
        BY <2>1 DEF BilledOrders, OrdersOf, BillCovers
      <3> QED BY <2>1, <3>1, <3>2 DEF BillCovers
    <2> QED BY <2>1, <2>2 DEF BillCovers
  <1> QED BY <1>1, FloorInvariant, PTL

\* Nobody is charged for an order that was not in the quote the cashier billed
\* from: ChargedWithinQuote, for any requests and any number of quotes.
THEOREM ChargesAreWithinQuotes == Spec => []ChargedWithinQuote
  <1>1. FloorInv => ChargedWithinQuote
    BY FloorFacts DEF Sound, QuotesShow, ChargedWithinQuote
  <1> QED BY <1>1, FloorInvariant, PTL

\* A guest's order that is sent again is stored once, however often and from
\* however many handlers: GuestOrdersAreStoredOnce, for any requests.
THEOREM GuestOrdersOnce == Spec => []GuestOrdersAreStoredOnce
  <1>1. FloorInv => GuestOrdersAreStoredOnce
    <2> SUFFICES ASSUME FloorInv, NEW r \in Requests, r.kind = "order", r.token # None
                 PROVE  Cardinality({o \in Orders : db.order[o].request = r.id}) <= 1
      BY DEF GuestOrdersAreStoredOnce
    <2> DEFINE S == {o \in Orders : db.order[o].request = r.id}
    <2>1. \A o, x \in S : x = o
      BY FloorFacts DEF Sound, GuestKeys
    <2> HIDE DEF S
    <2>2. Cardinality(S) <= 1
      <3>1. CASE S = {}
        BY <3>1, FS_EmptySet
      <3>2. CASE S # {}
        <4>1. PICK o \in S : TRUE
          BY <3>2
        <4>2. S = {o}
          BY <2>1, <4>1
        <4>3. Cardinality({o}) = 1
          BY FS_Singleton
        <4> QED BY <4>2, <4>3
      <3> QED BY <3>1, <3>2
    <2> QED BY <2>2 DEF S
  <1> QED BY <1>1, FloorInvariant, PTL
=============================================================================
