----------------------------- MODULE BranchTillProofs -----------------------
(***************************************************************************)
(* The till of a branch, for every set of requests, handlers and           *)
(* customers: types, what a transaction protects, serialisability, the day *)
(* book, and the money, keys, ledger and stock of its invoices.            *)
(***************************************************************************)
EXTENDS BranchTill, Sums, TLAPS

Txn  == [op: Requests, snap: DbType, day: Days, missed: SUBSET Docs]
Work == [op: Requests, snap: DbType, day: Days, stamp: Days]

LEMMA KindOf ==
    ASSUME NEW r \in Requests
    PROVE  /\ r.kind = "sale" => r \in SaleRequests
           /\ r.kind = "draft" => r \in DraftRequests
           /\ r.kind = "cancel" => r \in CancelRequests
           /\ r.kind = "collect" => r \in CollectRequests
           /\ r.kind = "void" => r \in VoidRequests
           /\ r.kind = "account" => r \in AccountRequests
           /\ r.kind = "adjust" => r \in AdjustRequests
           /\ r.kind \in {"open", "submit", "close", "reopen"} => r \in DayRequests
  BY RequestAssumption
  DEF SaleRequests, DraftRequests, CancelRequests, CollectRequests,
      VoidRequests, AccountRequests, AdjustRequests, DayRequests

HasFields(s) ==
    /\ s.closing \in [Days -> [status: DayStatus, count: Nat]]
    /\ s.invoice \in [Invoices -> InvoiceType]
    /\ s.lastInvoice \in 0..MaxInvoice
    /\ s.outstanding \in [Customers -> Int]
    /\ s.stock \in Int
    /\ s.opkeys \subseteq ({"collect", "void"} \X Invoices \X Nat)
    /\ s.booked \in [Days -> Nat]
    /\ s.stray \in [Days -> Nat]
    /\ s.received \in [Invoices -> Nat]
    /\ s.account \in [Customers -> Nat]

IsRecord(d) ==
    d = [closing |-> d.closing, invoice |-> d.invoice,
         lastInvoice |-> d.lastInvoice, outstanding |-> d.outstanding,
         stock |-> d.stock, opkeys |-> d.opkeys, booked |-> d.booked,
         stray |-> d.stray, received |-> d.received, account |-> d.account]

LEMMA DbFields ==
    ASSUME NEW s \in DbType
    PROVE  HasFields(s)
  BY DEF DbType, HasFields

LEMMA DbIntro ==
    ASSUME NEW d, IsRecord(d), HasFields(d)
    PROVE  d \in DbType
  BY DEF DbType, IsRecord, HasFields

LEMMA WorkFields ==
    ASSUME NEW t \in Work
    PROVE  /\ t.op \in Requests
           /\ t.snap \in DbType
           /\ t.day \in Days
           /\ t.stamp \in Days
  BY DEF Work

LEMMA SaleDelta ==
    ASSUME NEW t, db \in DbType, SaleInvoiceId(t) \in Invoices, t.stamp \in Days,
           NEW d, d = SaleEffect(t)
    PROVE  /\ d.closing = db.closing
           /\ d.invoice = [db.invoice EXCEPT ![SaleInvoiceId(t)] = IssuedInvoice(t.op)]
           /\ d.lastInvoice = IF t.op.draft = 0 THEN SaleInvoiceId(t) ELSE db.lastInvoice
           /\ d.outstanding = Posted(db.outstanding, t.snap.outstanding,
                     t.op.customer, t.op.total - t.op.paid)
           /\ d.stock = db.stock - t.op.quantity
           /\ d.opkeys = db.opkeys
           /\ d.booked = IF ChecksItsDay(t) THEN Plus(db.booked, t.stamp, t.op.paid)
                        ELSE db.booked
           /\ d.stray = IF ChecksItsDay(t) THEN db.stray
                       ELSE Plus(db.stray, t.stamp, t.op.paid)
           /\ d.received = Plus(db.received, SaleInvoiceId(t), t.op.paid)
           /\ d.account = db.account
           /\ IsRecord(d)
  BY DEF SaleEffect, IsRecord, DbType

LEMMA DraftDelta ==
    ASSUME NEW t, db \in DbType, t.snap.lastInvoice + 1 \in Invoices,
           NEW d, d = DraftEffect(t)
    PROVE  /\ d.closing = db.closing
           /\ d.invoice = [db.invoice EXCEPT ![t.snap.lastInvoice + 1] =
                     [NoInvoice EXCEPT !.status = "draft"]]
           /\ d.lastInvoice = t.snap.lastInvoice + 1
           /\ d.outstanding = db.outstanding
           /\ d.stock = db.stock
           /\ d.opkeys = db.opkeys
           /\ d.booked = db.booked
           /\ d.stray = db.stray
           /\ d.received = db.received
           /\ d.account = db.account
           /\ IsRecord(d)
  BY DEF DraftEffect, IsRecord, DbType

LEMMA CancelDelta ==
    ASSUME NEW t, db \in DbType, t.op.invoice \in Invoices,
           NEW d, d = CancelEffect(t)
    PROVE  /\ d.closing = db.closing
           /\ d.invoice = [db.invoice EXCEPT ![t.op.invoice] =
                     [t.snap.invoice[t.op.invoice] EXCEPT !.status = "cancelled"]]
           /\ d.lastInvoice = db.lastInvoice
           /\ d.outstanding = db.outstanding
           /\ d.stock = db.stock
           /\ d.opkeys = db.opkeys
           /\ d.booked = db.booked
           /\ d.stray = db.stray
           /\ d.received = db.received
           /\ d.account = db.account
           /\ IsRecord(d)
  BY DEF CancelEffect, IsRecord, DbType

LEMMA CollectDelta ==
    ASSUME NEW t, db \in DbType, t.op.invoice \in Invoices, t.stamp \in Days,
           NEW d, d = CollectEffect(t)
    PROVE  /\ d.closing = db.closing
           /\ d.invoice = [db.invoice EXCEPT ![t.op.invoice] = Collected(t)]
           /\ d.lastInvoice = db.lastInvoice
           /\ d.outstanding = Posted(db.outstanding, t.snap.outstanding,
                     t.snap.invoice[t.op.invoice].customer, -t.op.amount)
           /\ d.stock = db.stock
           /\ d.opkeys = db.opkeys \cup {OpKey(t.op)}
           /\ d.booked = Plus(db.booked, t.stamp, t.op.amount)
           /\ d.stray = db.stray
           /\ d.received = Plus(db.received, t.op.invoice, t.op.amount)
           /\ d.account = db.account
           /\ IsRecord(d)
  BY DEF CollectEffect, IsRecord, DbType, Collected

LEMMA VoidDelta ==
    ASSUME NEW t, db \in DbType, t.op.invoice \in Invoices,
           NEW d, d = VoidEffect(t)
    PROVE  /\ d.closing = db.closing
           /\ d.invoice = [db.invoice EXCEPT ![t.op.invoice] = Voided(t)]
           /\ d.lastInvoice = db.lastInvoice
           /\ d.outstanding = Posted(db.outstanding, t.snap.outstanding,
                     CreditedTo(t.snap.invoice[t.op.invoice]),
                     -t.snap.invoice[t.op.invoice].due)
           /\ d.stock = db.stock
           /\ d.opkeys = db.opkeys \cup {OpKey(t.op)}
           /\ d.booked = db.booked
           /\ d.stray = db.stray
           /\ d.received = db.received
           /\ d.account = db.account
           /\ IsRecord(d)
  BY DEF VoidEffect, IsRecord, DbType, Voided

LEMMA AccountDelta ==
    ASSUME NEW t, db \in DbType, t.op.customer \in Customers, t.stamp \in Days,
           NEW d, d = AccountEffect(t)
    PROVE  /\ d.closing = db.closing
           /\ d.invoice = db.invoice
           /\ d.lastInvoice = db.lastInvoice
           /\ d.outstanding = Posted(db.outstanding, t.snap.outstanding,
                     t.op.customer, -t.op.amount)
           /\ d.stock = db.stock
           /\ d.opkeys = db.opkeys
           /\ d.booked = db.booked
           /\ d.stray = Plus(db.stray, t.stamp, t.op.amount)
           /\ d.received = db.received
           /\ d.account = Plus(db.account, t.op.customer, t.op.amount)
           /\ IsRecord(d)
  BY DEF AccountEffect, IsRecord, DbType

LEMMA AdjustDelta ==
    ASSUME NEW t, db \in DbType,
           NEW d, d = AdjustEffect(t)
    PROVE  /\ d.closing = db.closing
           /\ d.invoice = db.invoice
           /\ d.lastInvoice = db.lastInvoice
           /\ d.outstanding = db.outstanding
           /\ d.stock = db.stock + t.op.change
           /\ d.opkeys = db.opkeys
           /\ d.booked = db.booked
           /\ d.stray = db.stray
           /\ d.received = db.received
           /\ d.account = db.account
           /\ IsRecord(d)
  BY DEF AdjustEffect, IsRecord, DbType

LEMMA DayDelta ==
    ASSUME NEW t, db \in DbType, t.op.date \in Days,
           NEW d, d = DayEffect(t)
    PROVE  /\ d.closing = [db.closing EXCEPT ![t.op.date] = DayRecord(t)]
           /\ d.invoice = db.invoice
           /\ d.lastInvoice = db.lastInvoice
           /\ d.outstanding = db.outstanding
           /\ d.stock = db.stock
           /\ d.opkeys = db.opkeys
           /\ d.booked = db.booked
           /\ d.stray = db.stray
           /\ d.received = db.received
           /\ d.account = db.account
           /\ IsRecord(d)
  BY DEF DayEffect, IsRecord, DbType

-----------------------------------------------------------------------------
(* Types: what an allowed transaction writes has the type of a database.   *)

LEMMA SaleType ==
    ASSUME NEW t \in Work, t.op.kind = "sale", SaleAllowed(t), db \in DbType
    PROVE  /\ SaleInvoiceId(t) \in Invoices
           /\ SaleEffect(t) \in DbType
           /\ SaleWrites(t) \subseteq Docs
  <1>0. HasFields(db) /\ HasFields(t.snap)
    BY WorkFields, DbFields
  <1>1. t.op \in SaleRequests
    BY KindOf, WorkFields
  <1>2. /\ t.op.paid \in Nat /\ t.op.quantity \in Nat /\ t.op.total - t.op.paid \in Int
        /\ t.stamp \in Days
    BY <1>1, WorkFields DEF SaleRequests
  <1>3. SaleInvoiceId(t) \in Invoices
    <2>1. t.snap.lastInvoice \in 0..MaxInvoice
      BY <1>0 DEF HasFields
    <2> QED BY <2>1, <1>1, TillAssumption
            DEF SaleInvoiceId, SaleAllowed, SaleRequests, Invoices
  <1>4. IssuedInvoice(t.op) \in InvoiceType
    BY <1>1
    DEF IssuedInvoice, InvoiceType, InvoiceStatus, SaleRequests, SaleAllowed,
        RequestId
  <1>5. Posted(db.outstanding, t.snap.outstanding, t.op.customer,
               t.op.total - t.op.paid) \in [Customers -> Int]
    BY <1>0, <1>1, <1>2 DEF Posted, SaleRequests, HasFields
  <1> DEFINE d == SaleEffect(t)
  <1>6. /\ d.closing = db.closing
        /\ d.invoice = [db.invoice EXCEPT ![SaleInvoiceId(t)] = IssuedInvoice(t.op)]
        /\ d.lastInvoice \in {db.lastInvoice, SaleInvoiceId(t)}
        /\ d.outstanding = Posted(db.outstanding, t.snap.outstanding,
                                  t.op.customer, t.op.total - t.op.paid)
        /\ d.stock = db.stock - t.op.quantity
        /\ d.opkeys = db.opkeys
        /\ d.booked \in {db.booked, Plus(db.booked, t.stamp, t.op.paid)}
        /\ d.stray \in {db.stray, Plus(db.stray, t.stamp, t.op.paid)}
        /\ d.received = Plus(db.received, SaleInvoiceId(t), t.op.paid)
        /\ d.account = db.account
        /\ IsRecord(d)
    BY <1>2, <1>3, SaleDelta
  <1> HIDE DEF d
  <1>7. d.invoice \in [Invoices -> InvoiceType]
    BY <1>0, <1>3, <1>4, <1>6 DEF HasFields
  <1>8. d.lastInvoice \in 0..MaxInvoice /\ d.stock \in Int
    <2>1. db.lastInvoice \in 0..MaxInvoice /\ db.stock \in Int
      BY <1>0 DEF HasFields
    <2> QED BY <2>1, <1>2, <1>3, <1>6, TillAssumption DEF Invoices
  <1>9. /\ d.booked \in [Days -> Nat]
        /\ d.stray \in [Days -> Nat]
        /\ d.received \in [Invoices -> Nat]
    <2>1. /\ db.booked \in [Days -> Nat]
          /\ db.stray \in [Days -> Nat]
          /\ db.received \in [Invoices -> Nat]
      BY <1>0 DEF HasFields
    <2>2. d.booked \in [Days -> Nat] /\ d.stray \in [Days -> Nat]
      BY <2>1, <1>2, <1>6 DEF Plus
    <2>3. d.received \in [Invoices -> Nat]
      BY <2>1, <1>2, <1>3, <1>6 DEF Plus
    <2> QED BY <2>2, <2>3
  <1>10. d \in DbType
    BY <1>0, <1>5, <1>6, <1>7, <1>8, <1>9, DbIntro DEF HasFields
  <1>11. SaleWrites(t) \subseteq Docs
    BY <1>1, <1>3 DEF SaleWrites, Docs, LedgerDocs, SaleRequests
  <1> QED BY <1>3, <1>10, <1>11 DEF d

LEMMA DraftType ==
    ASSUME NEW t \in Work, DraftAllowed(t), db \in DbType
    PROVE  /\ t.snap.lastInvoice + 1 \in Invoices
           /\ DraftEffect(t) \in DbType
           /\ DraftWrites(t) \subseteq Docs
  <1>0. HasFields(db) /\ HasFields(t.snap)
    BY WorkFields, DbFields
  <1>1. t.snap.lastInvoice + 1 \in Invoices
    <2>1. t.snap.lastInvoice \in 0..MaxInvoice
      BY <1>0 DEF HasFields
    <2>2. t.snap.lastInvoice < MaxInvoice /\ MaxInvoice \in Nat
      BY TillAssumption DEF DraftAllowed
    <2> QED BY <2>1, <2>2 DEF Invoices
  <1>2. [NoInvoice EXCEPT !.status = "draft"] \in InvoiceType
    BY DEF NoInvoice, NoKey, InvoiceType, InvoiceStatus
  <1> DEFINE d == DraftEffect(t)
  <1>3. /\ d.closing = db.closing
        /\ d.invoice = [db.invoice EXCEPT ![t.snap.lastInvoice + 1] =
                          [NoInvoice EXCEPT !.status = "draft"]]
        /\ d.lastInvoice = t.snap.lastInvoice + 1
        /\ d.outstanding = db.outstanding
        /\ d.stock = db.stock
        /\ d.opkeys = db.opkeys
        /\ d.booked = db.booked
        /\ d.stray = db.stray
        /\ d.received = db.received
        /\ d.account = db.account
        /\ IsRecord(d)
    BY <1>1, DraftDelta
  <1> HIDE DEF d
  <1>4. d.invoice \in [Invoices -> InvoiceType]
    BY <1>0, <1>1, <1>2, <1>3 DEF HasFields
  <1>5. d.lastInvoice \in 0..MaxInvoice
    BY <1>1, <1>3, TillAssumption DEF Invoices
  <1>6. d \in DbType
    BY <1>0, <1>3, <1>4, <1>5, DbIntro DEF HasFields
  <1>7. DraftWrites(t) \subseteq Docs
    BY <1>1 DEF DraftWrites, Docs
  <1> QED BY <1>1, <1>6, <1>7 DEF d

LEMMA CancelType ==
    ASSUME NEW t \in Work, t.op.kind = "cancel", db \in DbType
    PROVE  /\ t.op.invoice \in Invoices
           /\ CancelEffect(t) \in DbType
           /\ CancelWrites(t) \subseteq Docs
  <1>0. HasFields(db) /\ HasFields(t.snap)
    BY WorkFields, DbFields
  <1>1. t.op.invoice \in Invoices
    BY KindOf, WorkFields DEF CancelRequests
  <1>2. [t.snap.invoice[t.op.invoice] EXCEPT !.status = "cancelled"] \in InvoiceType
    <2>1. t.snap.invoice[t.op.invoice] \in InvoiceType
      BY <1>0, <1>1 DEF HasFields
    <2> QED BY <2>1 DEF InvoiceType, InvoiceStatus
  <1> DEFINE d == CancelEffect(t)
             e == [t.snap.invoice[t.op.invoice] EXCEPT !.status = "cancelled"]
  <1>3. /\ d.closing = db.closing
        /\ d.invoice = [db.invoice EXCEPT ![t.op.invoice] = e]
        /\ d.lastInvoice = db.lastInvoice
        /\ d.outstanding = db.outstanding
        /\ d.stock = db.stock
        /\ d.opkeys = db.opkeys
        /\ d.booked = db.booked
        /\ d.stray = db.stray
        /\ d.received = db.received
        /\ d.account = db.account
        /\ IsRecord(d)
    BY <1>1, CancelDelta
  <1>4. e \in InvoiceType
    BY <1>2
  <1> HIDE DEF d, e
  <1>5. d.invoice \in [Invoices -> InvoiceType]
    BY <1>0, <1>1, <1>3, <1>4 DEF HasFields
  <1>6. d \in DbType
    BY <1>0, <1>3, <1>5, DbIntro DEF HasFields
  <1>7. CancelWrites(t) \subseteq Docs
    BY <1>1 DEF CancelWrites, Docs
  <1> QED BY <1>1, <1>6, <1>7 DEF d

\* A payment of at most what is due moves it from due to paid.
LEMMA PaidAndDue ==
    ASSUME NEW paid \in Nat, NEW due \in Nat, NEW amount \in Nat, amount <= due
    PROVE  paid + amount \in Nat /\ due - amount \in Nat
  OBVIOUS

LEMMA CollectType ==
    ASSUME NEW t \in Work, t.op.kind = "collect", CollectAllowed(t),
           db \in DbType
    PROVE  /\ t.op.invoice \in Invoices
           /\ CollectEffect(t) \in DbType
           /\ CollectWrites(t) \subseteq Docs
  <1>0. HasFields(db) /\ HasFields(t.snap)
    BY WorkFields, DbFields
  <1>1. t.op \in Requests /\ t.op \in CollectRequests
    BY KindOf, WorkFields
  <1>2. /\ t.op.invoice \in Invoices
        /\ t.op.amount \in Nat /\ t.stamp \in Days
        /\ OpKey(t.op) \in {"collect", "void"} \X Invoices \X Nat
    BY <1>1, WorkFields DEF CollectRequests, OpKey
  <1> DEFINE d == CollectEffect(t)
             bill == t.snap.invoice[t.op.invoice]
  <1>3. /\ d.closing = db.closing
        /\ d.invoice = [db.invoice EXCEPT ![t.op.invoice] = Collected(t)]
        /\ d.lastInvoice = db.lastInvoice
        /\ d.outstanding = Posted(db.outstanding, t.snap.outstanding,
                                  bill.customer, -t.op.amount)
        /\ d.stock = db.stock
        /\ d.opkeys = db.opkeys \cup {OpKey(t.op)}
        /\ d.booked = Plus(db.booked, t.stamp, t.op.amount)
        /\ d.stray = db.stray
        /\ d.received = Plus(db.received, t.op.invoice, t.op.amount)
        /\ d.account = db.account
        /\ IsRecord(d)
    BY <1>2, CollectDelta
  <1>4. bill \in InvoiceType
    BY <1>0, <1>2 DEF HasFields
  <1>5. Collected(t) \in InvoiceType
    <2>1. t.op.amount <= bill.due
      BY DEF CollectAllowed
    <2>2. /\ bill = [status |-> bill.status, key |-> bill.key,
                     request |-> bill.request, customer |-> bill.customer,
                     total |-> bill.total, paid |-> bill.paid, due |-> bill.due]
          /\ bill.status \in InvoiceStatus
          /\ bill.key \in Nat /\ bill.request \in Nat
          /\ bill.customer \in Customers \cup {NoCustomer}
          /\ bill.total \in Nat /\ bill.paid \in Nat /\ bill.due \in Nat
      BY <1>4 DEF InvoiceType
    <2>3. bill.paid + t.op.amount \in Nat /\ bill.due - t.op.amount \in Nat
      BY <1>2, <2>1, <2>2, PaidAndDue
    <2>4. PICK status \in InvoiceStatus :
            Collected(t) = [bill EXCEPT !.paid = bill.paid + t.op.amount,
                                        !.due = bill.due - t.op.amount,
                                        !.status = status]
      BY <2>2 DEF Collected, InvoiceStatus
    <2> HIDE DEF bill
    <2> QED BY <2>2, <2>3, <2>4 DEF InvoiceType
  <1>6. Posted(db.outstanding, t.snap.outstanding, bill.customer, -t.op.amount)
          \in [Customers -> Int]
    BY <1>0, <1>2, <1>4 DEF Posted, HasFields, InvoiceType
  <1>7. CollectWrites(t) \subseteq Docs
    BY <1>1, <1>2, <1>4
    DEF CollectWrites, Docs, LedgerDocs, InvoiceType, CollectRequests
  <1> HIDE DEF d, bill
  <1>8. d.invoice \in [Invoices -> InvoiceType]
    BY <1>0, <1>2, <1>3, <1>5 DEF HasFields
  <1>9. d.booked \in [Days -> Nat] /\ d.received \in [Invoices -> Nat]
    <2>1. db.booked \in [Days -> Nat] /\ db.received \in [Invoices -> Nat]
      BY <1>0 DEF HasFields
    <2> QED BY <2>1, <1>2, <1>3 DEF Plus
  <1>10. d.opkeys \subseteq ({"collect", "void"} \X Invoices \X Nat)
    BY <1>0, <1>2, <1>3 DEF HasFields
  <1>11. d \in DbType
    BY <1>0, <1>3, <1>6, <1>8, <1>9, <1>10, DbIntro DEF HasFields
  <1> QED BY <1>2, <1>7, <1>11 DEF d

LEMMA VoidType ==
    ASSUME NEW t \in Work, t.op.kind = "void", db \in DbType
    PROVE  /\ t.op.invoice \in Invoices
           /\ VoidEffect(t) \in DbType
           /\ VoidWrites(t) \subseteq Docs
  <1>0. HasFields(db) /\ HasFields(t.snap)
    BY WorkFields, DbFields
  <1>1. t.op \in Requests /\ t.op \in VoidRequests
    BY KindOf, WorkFields
  <1>2. /\ t.op.invoice \in Invoices
        /\ OpKey(t.op) \in {"collect", "void"} \X Invoices \X Nat
    BY <1>1 DEF VoidRequests, OpKey
  <1> DEFINE d == VoidEffect(t)
             bill == t.snap.invoice[t.op.invoice]
  <1>3. /\ d.closing = db.closing
        /\ d.invoice = [db.invoice EXCEPT ![t.op.invoice] = Voided(t)]
        /\ d.lastInvoice = db.lastInvoice
        /\ d.outstanding = Posted(db.outstanding, t.snap.outstanding,
                                  CreditedTo(bill), -bill.due)
        /\ d.stock = db.stock
        /\ d.opkeys = db.opkeys \cup {OpKey(t.op)}
        /\ d.booked = db.booked
        /\ d.stray = db.stray
        /\ d.received = db.received
        /\ d.account = db.account
        /\ IsRecord(d)
    BY <1>2, VoidDelta
  <1>4. bill \in InvoiceType
    BY <1>0, <1>2 DEF HasFields
  <1>5. /\ Voided(t) \in InvoiceType
        /\ bill.due \in Nat
        /\ CreditedTo(bill) \in Customers \cup {NoCustomer}
    BY <1>4 DEF Voided, CreditedTo, InvoiceType, InvoiceStatus
  <1>6. Posted(db.outstanding, t.snap.outstanding, CreditedTo(bill), -bill.due)
          \in [Customers -> Int]
    BY <1>0, <1>5 DEF Posted, HasFields
  <1>7. VoidWrites(t) \subseteq Docs
    BY <1>1, <1>2, <1>5 DEF VoidWrites, Docs, LedgerDocs, VoidRequests
  <1> HIDE DEF d, bill
  <1>8. d.invoice \in [Invoices -> InvoiceType]
    BY <1>0, <1>2, <1>3, <1>5 DEF HasFields
  <1>9. d.opkeys \subseteq ({"collect", "void"} \X Invoices \X Nat)
    BY <1>0, <1>2, <1>3 DEF HasFields
  <1>10. d \in DbType
    BY <1>0, <1>3, <1>6, <1>8, <1>9, DbIntro DEF HasFields
  <1> QED BY <1>2, <1>7, <1>10 DEF d

LEMMA AccountType ==
    ASSUME NEW t \in Work, t.op.kind = "account", db \in DbType
    PROVE  /\ t.op.customer \in Customers
           /\ AccountEffect(t) \in DbType
           /\ AccountWrites(t) \subseteq Docs
  <1>0. HasFields(db) /\ HasFields(t.snap)
    BY WorkFields, DbFields
  <1>1. t.op \in AccountRequests
    BY KindOf, WorkFields
  <1>2. t.op.customer \in Customers /\ t.op.amount \in Nat /\ t.stamp \in Days
    BY <1>1, WorkFields DEF AccountRequests
  <1> DEFINE d == AccountEffect(t)
  <1>3. /\ d.closing = db.closing
        /\ d.invoice = db.invoice
        /\ d.lastInvoice = db.lastInvoice
        /\ d.outstanding = Posted(db.outstanding, t.snap.outstanding,
                                  t.op.customer, -t.op.amount)
        /\ d.stock = db.stock
        /\ d.opkeys = db.opkeys
        /\ d.booked = db.booked
        /\ d.stray = Plus(db.stray, t.stamp, t.op.amount)
        /\ d.received = db.received
        /\ d.account = Plus(db.account, t.op.customer, t.op.amount)
        /\ IsRecord(d)
    BY <1>2, AccountDelta
  <1> HIDE DEF d
  <1>4. d.outstanding \in [Customers -> Int]
    BY <1>0, <1>2, <1>3 DEF Posted, HasFields
  <1>5. d.stray \in [Days -> Nat] /\ d.account \in [Customers -> Nat]
    <2>1. db.stray \in [Days -> Nat] /\ db.account \in [Customers -> Nat]
      BY <1>0 DEF HasFields
    <2> QED BY <2>1, <1>2, <1>3 DEF Plus
  <1>6. d \in DbType
    BY <1>0, <1>3, <1>4, <1>5, DbIntro DEF HasFields
  <1>7. AccountWrites(t) \subseteq Docs
    BY <1>2 DEF AccountWrites, Docs, LedgerDocs
  <1> QED BY <1>2, <1>6, <1>7 DEF d

LEMMA AdjustType ==
    ASSUME NEW t \in Work, t.op.kind = "adjust", db \in DbType
    PROVE  /\ AdjustEffect(t) \in DbType
           /\ AdjustWrites(t) \subseteq Docs
  <1>0. HasFields(db)
    BY DbFields
  <1>1. t.op.change \in Int
    BY KindOf, WorkFields DEF AdjustRequests
  <1> DEFINE d == AdjustEffect(t)
  <1>3. /\ d.closing = db.closing
        /\ d.invoice = db.invoice
        /\ d.lastInvoice = db.lastInvoice
        /\ d.outstanding = db.outstanding
        /\ d.stock = db.stock + t.op.change
        /\ d.opkeys = db.opkeys
        /\ d.booked = db.booked
        /\ d.stray = db.stray
        /\ d.received = db.received
        /\ d.account = db.account
        /\ IsRecord(d)
    BY AdjustDelta
  <1> HIDE DEF d
  <1>4. d.stock \in Int
    BY <1>0, <1>1, <1>3 DEF HasFields
  <1>5. d \in DbType
    BY <1>0, <1>3, <1>4, DbIntro DEF HasFields
  <1>6. AdjustWrites(t) \subseteq Docs
    BY DEF AdjustWrites, Docs
  <1> QED BY <1>5, <1>6 DEF d

LEMMA DayType ==
    ASSUME NEW t \in Work, t.op.kind \in {"open", "submit", "close", "reopen"},
           db \in DbType
    PROVE  /\ t.op.date \in Days
           /\ DayRecord(t) \in [status: DayStatus, count: Nat]
           /\ DayEffect(t) \in DbType
           /\ DayWrites(t) \subseteq Docs
  <1>0. HasFields(db) /\ HasFields(t.snap)
    BY WorkFields, DbFields
  <1>1. t.op.date \in Days
    BY KindOf, WorkFields DEF DayRequests
  <1> DEFINE d == DayEffect(t)
  <1>3. /\ d.closing = [db.closing EXCEPT ![t.op.date] = DayRecord(t)]
        /\ d.invoice = db.invoice
        /\ d.lastInvoice = db.lastInvoice
        /\ d.outstanding = db.outstanding
        /\ d.stock = db.stock
        /\ d.opkeys = db.opkeys
        /\ d.booked = db.booked
        /\ d.stray = db.stray
        /\ d.received = db.received
        /\ d.account = db.account
        /\ IsRecord(d)
    BY <1>1, DayDelta
  <1> HIDE DEF d
  <1>4. DayRecord(t) \in [status: DayStatus, count: Nat]
    <2>1. /\ t.snap.closing[t.op.date] \in [status: DayStatus, count: Nat]
          /\ t.snap.booked[t.op.date] \in Nat
          /\ t.snap.stray[t.op.date] \in Nat
      BY <1>0, <1>1 DEF HasFields
    <2> QED BY <2>1 DEF DayRecord, DayStatus
  <1>5. d.closing \in [Days -> [status: DayStatus, count: Nat]]
    BY <1>0, <1>1, <1>3, <1>4 DEF HasFields
  <1>6. d \in DbType
    BY <1>0, <1>3, <1>5, DbIntro DEF HasFields
  <1>7. DayWrites(t) \subseteq Docs
    BY <1>1 DEF DayWrites, Docs
  <1> QED BY <1>1, <1>4, <1>6, <1>7 DEF d

-----------------------------------------------------------------------------
(* What each committing action does, in the terms the proofs below use.    *)

Commits(h, t, W, next) ==
    /\ h \in DOMAIN run
    /\ t \in Work
    /\ t.op = run[h].op /\ t.snap = run[h].snap
    /\ run[h].day <= t.day /\ t.day <= t.stamp /\ t.stamp <= today
    /\ W \subseteq Docs /\ next \in DbType
    /\ CommitTxn(h, W, next)
    /\ Posting(t.op) => applied[t.op] < MaxPosts
    /\ applied' = [applied EXCEPT ![t.op] = IF Posting(t.op) THEN @ + 1 ELSE @]
    /\ today' = today

LEMMA RunsType ==
    ASSUME TypeOK, NEW h \in DOMAIN run, NEW t \in Runs(h)
    PROVE  /\ t \in Work /\ t.op \in Requests
           /\ t.op = run[h].op /\ t.snap = run[h].snap
           /\ run[h].day <= t.day /\ t.day <= t.stamp /\ t.stamp <= today
  BY DEF TypeOK, Runs, Work

LEMMA CheckoutStep ==
    ASSUME TypeOK, NEW h, Checkout(h)
    PROVE  \E t : /\ Commits(h, t, SaleWrites(t), SaleEffect(t))
                 /\ t.op.kind = "sale"
                 /\ SaleAllowed(t)
  <1>1. PICK t \in Runs(h) :
          /\ h \in DOMAIN run
          /\ t.op.kind = "sale"
          /\ SaleAllowed(t)
          /\ Posting(t.op) => applied[t.op] < MaxPosts
          /\ CommitTxn(h, SaleWrites(t), SaleEffect(t))
          /\ applied' = [applied EXCEPT ![t.op] = IF Posting(t.op) THEN @ + 1 ELSE @]
          /\ today' = today
    BY DEF Checkout, Execute
  <1>2. t \in Work /\ db \in DbType
    BY <1>1, RunsType DEF TypeOK
  <1>3. SaleWrites(t) \subseteq Docs /\ SaleEffect(t) \in DbType
    BY <1>1, <1>2, SaleType
  <1> QED BY <1>1, <1>2, <1>3, RunsType DEF Commits

LEMMA CreateDraftStep ==
    ASSUME TypeOK, NEW h, CreateDraft(h)
    PROVE  \E t : /\ Commits(h, t, DraftWrites(t), DraftEffect(t))
                 /\ t.op.kind = "draft"
                 /\ DraftAllowed(t)
  <1>1. PICK t \in Runs(h) :
          /\ h \in DOMAIN run
          /\ t.op.kind = "draft"
          /\ DraftAllowed(t)
          /\ Posting(t.op) => applied[t.op] < MaxPosts
          /\ CommitTxn(h, DraftWrites(t), DraftEffect(t))
          /\ applied' = [applied EXCEPT ![t.op] = IF Posting(t.op) THEN @ + 1 ELSE @]
          /\ today' = today
    BY DEF CreateDraft, Execute
  <1>2. t \in Work /\ db \in DbType
    BY <1>1, RunsType DEF TypeOK
  <1>3. DraftWrites(t) \subseteq Docs /\ DraftEffect(t) \in DbType
    BY <1>1, <1>2, DraftType
  <1> QED BY <1>1, <1>2, <1>3, RunsType DEF Commits

LEMMA CancelDraftStep ==
    ASSUME TypeOK, NEW h, CancelDraft(h)
    PROVE  \E t : /\ Commits(h, t, CancelWrites(t), CancelEffect(t))
                 /\ t.op.kind = "cancel"
                 /\ CancelAllowed(t)
  <1>1. PICK t \in Runs(h) :
          /\ h \in DOMAIN run
          /\ t.op.kind = "cancel"
          /\ CancelAllowed(t)
          /\ Posting(t.op) => applied[t.op] < MaxPosts
          /\ CommitTxn(h, CancelWrites(t), CancelEffect(t))
          /\ applied' = [applied EXCEPT ![t.op] = IF Posting(t.op) THEN @ + 1 ELSE @]
          /\ today' = today
    BY DEF CancelDraft, Execute
  <1>2. t \in Work /\ db \in DbType
    BY <1>1, RunsType DEF TypeOK
  <1>3. CancelWrites(t) \subseteq Docs /\ CancelEffect(t) \in DbType
    BY <1>1, <1>2, CancelType
  <1> QED BY <1>1, <1>2, <1>3, RunsType DEF Commits

LEMMA CollectPaymentStep ==
    ASSUME TypeOK, NEW h, CollectPayment(h)
    PROVE  \E t : /\ Commits(h, t, CollectWrites(t), CollectEffect(t))
                 /\ t.op.kind = "collect"
                 /\ CollectAllowed(t)
  <1>1. PICK t \in Runs(h) :
          /\ h \in DOMAIN run
          /\ t.op.kind = "collect"
          /\ CollectAllowed(t)
          /\ Posting(t.op) => applied[t.op] < MaxPosts
          /\ CommitTxn(h, CollectWrites(t), CollectEffect(t))
          /\ applied' = [applied EXCEPT ![t.op] = IF Posting(t.op) THEN @ + 1 ELSE @]
          /\ today' = today
    BY DEF CollectPayment, Execute
  <1>2. t \in Work /\ db \in DbType
    BY <1>1, RunsType DEF TypeOK
  <1>3. CollectWrites(t) \subseteq Docs /\ CollectEffect(t) \in DbType
    BY <1>1, <1>2, CollectType
  <1> QED BY <1>1, <1>2, <1>3, RunsType DEF Commits

LEMMA VoidInvoiceStep ==
    ASSUME TypeOK, NEW h, VoidInvoice(h)
    PROVE  \E t : /\ Commits(h, t, VoidWrites(t), VoidEffect(t))
                 /\ t.op.kind = "void"
                 /\ VoidAllowed(t)
  <1>1. PICK t \in Runs(h) :
          /\ h \in DOMAIN run
          /\ t.op.kind = "void"
          /\ VoidAllowed(t)
          /\ Posting(t.op) => applied[t.op] < MaxPosts
          /\ CommitTxn(h, VoidWrites(t), VoidEffect(t))
          /\ applied' = [applied EXCEPT ![t.op] = IF Posting(t.op) THEN @ + 1 ELSE @]
          /\ today' = today
    BY DEF VoidInvoice, Execute
  <1>2. t \in Work /\ db \in DbType
    BY <1>1, RunsType DEF TypeOK
  <1>3. VoidWrites(t) \subseteq Docs /\ VoidEffect(t) \in DbType
    BY <1>1, <1>2, VoidType
  <1> QED BY <1>1, <1>2, <1>3, RunsType DEF Commits

LEMMA PayAccountStep ==
    ASSUME TypeOK, NEW h, PayAccount(h)
    PROVE  \E t : /\ Commits(h, t, AccountWrites(t), AccountEffect(t))
                 /\ t.op.kind = "account"
                 /\ AccountAllowed(t)
  <1>1. PICK t \in Runs(h) :
          /\ h \in DOMAIN run
          /\ t.op.kind = "account"
          /\ AccountAllowed(t)
          /\ Posting(t.op) => applied[t.op] < MaxPosts
          /\ CommitTxn(h, AccountWrites(t), AccountEffect(t))
          /\ applied' = [applied EXCEPT ![t.op] = IF Posting(t.op) THEN @ + 1 ELSE @]
          /\ today' = today
    BY DEF PayAccount, Execute
  <1>2. t \in Work /\ db \in DbType
    BY <1>1, RunsType DEF TypeOK
  <1>3. AccountWrites(t) \subseteq Docs /\ AccountEffect(t) \in DbType
    BY <1>1, <1>2, AccountType
  <1> QED BY <1>1, <1>2, <1>3, RunsType DEF Commits

LEMMA AdjustStockStep ==
    ASSUME TypeOK, NEW h, AdjustStock(h)
    PROVE  \E t : /\ Commits(h, t, AdjustWrites(t), AdjustEffect(t))
                 /\ t.op.kind = "adjust"
                 /\ AdjustAllowed(t)
  <1>1. PICK t \in Runs(h) :
          /\ h \in DOMAIN run
          /\ t.op.kind = "adjust"
          /\ AdjustAllowed(t)
          /\ Posting(t.op) => applied[t.op] < MaxPosts
          /\ CommitTxn(h, AdjustWrites(t), AdjustEffect(t))
          /\ applied' = [applied EXCEPT ![t.op] = IF Posting(t.op) THEN @ + 1 ELSE @]
          /\ today' = today
    BY DEF AdjustStock, Execute
  <1>2. t \in Work /\ db \in DbType
    BY <1>1, RunsType DEF TypeOK
  <1>3. AdjustWrites(t) \subseteq Docs /\ AdjustEffect(t) \in DbType
    BY <1>1, <1>2, AdjustType
  <1> QED BY <1>1, <1>2, <1>3, RunsType DEF Commits

LEMMA ClosingStep ==
    ASSUME TypeOK, NEW h, Closing(h)
    PROVE  \E t : /\ Commits(h, t, DayWrites(t), DayEffect(t))
                 /\ t.op.kind \in {"open", "submit", "close", "reopen"}
                 /\ DayAllowed(t)
  <1>1. PICK t \in Runs(h) :
          /\ h \in DOMAIN run
          /\ t.op.kind \in {"open", "submit", "close", "reopen"}
          /\ DayAllowed(t)
          /\ Posting(t.op) => applied[t.op] < MaxPosts
          /\ CommitTxn(h, DayWrites(t), DayEffect(t))
          /\ applied' = [applied EXCEPT ![t.op] = IF Posting(t.op) THEN @ + 1 ELSE @]
          /\ today' = today
    BY DEF Closing, Execute
  <1>2. t \in Work /\ db \in DbType
    BY <1>1, RunsType DEF TypeOK
  <1>3. DayWrites(t) \subseteq Docs /\ DayEffect(t) \in DbType
    BY <1>1, <1>2, DayType
  <1> QED BY <1>1, <1>2, <1>3, RunsType DEF Commits

-----------------------------------------------------------------------------
(* Type correctness.                                                       *)

LEMMA CommitType ==
    ASSUME TypeOK, NEW h, NEW t, NEW W, NEW next, Commits(h, t, W, next)
    PROVE  /\ db' \in DbType
           /\ DOMAIN run' \subseteq Handlers
           /\ \A g \in DOMAIN run' : run'[g] \in Txn
           /\ today' \in Days
           /\ applied' \in [Requests -> Nat]
  <1>1. db' \in DbType /\ today' \in Days /\ applied' \in [Requests -> Nat]
    BY DEF TypeOK, CommitTxn, Commits, Work
  <1>2. /\ DOMAIN run' = DOMAIN run \ {h}
        /\ \A g \in DOMAIN run' :
              run'[g] = [run[g] EXCEPT !.missed = run[g].missed \cup W]
    BY DEF CommitTxn, EndTxn, Commits
  <1>3. ASSUME NEW g \in DOMAIN run'
        PROVE  run'[g] \in Txn
    <2>1. run[g] \in Txn /\ W \subseteq Docs
      BY <1>2 DEF TypeOK, Txn, Commits
    <2> QED BY <1>2, <2>1 DEF Txn
  <1> QED BY <1>1, <1>2, <1>3 DEF TypeOK

\* An invocation that ends without a write leaves the others alone.
LEMMA AbortType ==
    ASSUME TypeOK, NEW h, AbortTxn(h)
    PROVE  /\ DOMAIN run' \subseteq Handlers
           /\ \A g \in DOMAIN run' : run'[g] \in Txn
  BY DEF TypeOK, AbortTxn, Txn

LEMMA InitType ==
    ASSUME Init PROVE TypeOK
  <1>1. NoInvoice \in InvoiceType /\ NoClosing \in [status: DayStatus, count: Nat]
    BY DEF NoInvoice, NoClosing, NoKey, InvoiceType, InvoiceStatus, DayStatus
  <1>2. db \in DbType
    BY <1>1, TillAssumption DEF Init, EmptyDb, DbType
  <1> QED BY <1>2, TillAssumption DEF Init, TypeOK, Days

\* Every state has the shape TypeOK gives it: no counter, balance or count
\* leaves its range, for any set of requests, handlers and customers.
THEOREM TypeCorrect == Spec => []TypeOK
  <1>1. Init => TypeOK
    BY InitType
  <1>2. TypeOK /\ [Next]_vars => TypeOK'
    <2> SUFFICES ASSUME TypeOK, [Next]_vars PROVE TypeOK'
      OBVIOUS
    <2>1. ASSUME NEW h \in Handlers, Begin(h) PROVE TypeOK'
      <3>1. PICK r \in Requests : OpenTxn(h, r, today)
        BY <2>1 DEF Begin
      <3>2. /\ DOMAIN run' \subseteq Handlers
            /\ \A g \in DOMAIN run' : run'[g] \in Txn
        BY <3>1 DEF OpenTxn, TypeOK, Txn
      <3> QED BY <2>1, <3>2 DEF Begin, TypeOK, Txn
    <2>2. ASSUME NEW h \in Handlers, Checkout(h) PROVE TypeOK'
      <3>1. PICK t : /\ Commits(h, t, SaleWrites(t), SaleEffect(t))
                     /\ t.op.kind = "sale"
                     /\ SaleAllowed(t)
        BY <2>2, CheckoutStep
      <3>2. /\ run[h].op.id \in RequestId
            /\ SaleInvoiceId(run[h]) \in Invoices
        <4>1. t \in Work /\ t.op = run[h].op /\ t.snap = run[h].snap /\ db \in DbType
          BY <3>1 DEF Commits, TypeOK
        <4>2. t.op \in SaleRequests /\ SaleInvoiceId(t) \in Invoices
          BY <3>1, <4>1, WorkFields, KindOf, SaleType
        <4> QED BY <4>1, <4>2 DEF SaleRequests, SaleInvoiceId
      <3>3. /\ db' \in DbType
            /\ DOMAIN run' \subseteq Handlers
            /\ \A g \in DOMAIN run' : run'[g] \in Txn
            /\ today' \in Days
            /\ applied' \in [Requests -> Nat]
        BY <3>1, CommitType
      <3>4. replies' \subseteq (RequestId \X Invoices)
        BY <2>2, <3>2 DEF Checkout, TypeOK
      <3> QED BY <3>3, <3>4 DEF TypeOK, Txn
    <2>3. ASSUME NEW h \in Handlers, ReplayCheckout(h) PROVE TypeOK'
      <3>1. run[h].op \in Requests /\ run[h].op.kind = "sale"
        BY <2>3 DEF ReplayCheckout, TypeOK
      <3>2. run[h].op.id \in RequestId
        BY <3>1, KindOf DEF SaleRequests
      <3>3. replies' \subseteq (RequestId \X Invoices)
        BY <2>3, <3>2 DEF ReplayCheckout, ExistingInvoices, TypeOK
      <3>4. /\ DOMAIN run' \subseteq Handlers
            /\ \A g \in DOMAIN run' : run'[g] \in Txn
        BY <2>3, AbortType DEF ReplayCheckout
      <3> QED BY <2>3, <3>3, <3>4 DEF ReplayCheckout, TypeOK, Txn
    <2>4. ASSUME NEW h \in Handlers, CreateDraft(h) PROVE TypeOK'
      <3>1. PICK t : Commits(h, t, DraftWrites(t), DraftEffect(t))
        BY <2>4, CreateDraftStep
      <3>2. /\ db' \in DbType
            /\ DOMAIN run' \subseteq Handlers
            /\ \A g \in DOMAIN run' : run'[g] \in Txn
            /\ today' \in Days
            /\ applied' \in [Requests -> Nat]
        BY <3>1, CommitType
      <3> QED BY <2>4, <3>2 DEF CreateDraft, TypeOK, Txn
    <2>5. ASSUME NEW h \in Handlers, CancelDraft(h) PROVE TypeOK'
      <3>1. PICK t : Commits(h, t, CancelWrites(t), CancelEffect(t))
        BY <2>5, CancelDraftStep
      <3>2. /\ db' \in DbType
            /\ DOMAIN run' \subseteq Handlers
            /\ \A g \in DOMAIN run' : run'[g] \in Txn
            /\ today' \in Days
            /\ applied' \in [Requests -> Nat]
        BY <3>1, CommitType
      <3> QED BY <2>5, <3>2 DEF CancelDraft, TypeOK, Txn
    <2>6. ASSUME NEW h \in Handlers, CollectPayment(h) PROVE TypeOK'
      <3>1. PICK t : Commits(h, t, CollectWrites(t), CollectEffect(t))
        BY <2>6, CollectPaymentStep
      <3>2. /\ db' \in DbType
            /\ DOMAIN run' \subseteq Handlers
            /\ \A g \in DOMAIN run' : run'[g] \in Txn
            /\ today' \in Days
            /\ applied' \in [Requests -> Nat]
        BY <3>1, CommitType
      <3> QED BY <2>6, <3>2 DEF CollectPayment, TypeOK, Txn
    <2>7. ASSUME NEW h \in Handlers, VoidInvoice(h) PROVE TypeOK'
      <3>1. PICK t : Commits(h, t, VoidWrites(t), VoidEffect(t))
        BY <2>7, VoidInvoiceStep
      <3>2. /\ db' \in DbType
            /\ DOMAIN run' \subseteq Handlers
            /\ \A g \in DOMAIN run' : run'[g] \in Txn
            /\ today' \in Days
            /\ applied' \in [Requests -> Nat]
        BY <3>1, CommitType
      <3> QED BY <2>7, <3>2 DEF VoidInvoice, TypeOK, Txn
    <2>8. ASSUME NEW h \in Handlers, PayAccount(h) PROVE TypeOK'
      <3>1. PICK t : Commits(h, t, AccountWrites(t), AccountEffect(t))
        BY <2>8, PayAccountStep
      <3>2. /\ db' \in DbType
            /\ DOMAIN run' \subseteq Handlers
            /\ \A g \in DOMAIN run' : run'[g] \in Txn
            /\ today' \in Days
            /\ applied' \in [Requests -> Nat]
        BY <3>1, CommitType
      <3> QED BY <2>8, <3>2 DEF PayAccount, TypeOK, Txn
    <2>9. ASSUME NEW h \in Handlers, AdjustStock(h) PROVE TypeOK'
      <3>1. PICK t : Commits(h, t, AdjustWrites(t), AdjustEffect(t))
        BY <2>9, AdjustStockStep
      <3>2. /\ db' \in DbType
            /\ DOMAIN run' \subseteq Handlers
            /\ \A g \in DOMAIN run' : run'[g] \in Txn
            /\ today' \in Days
            /\ applied' \in [Requests -> Nat]
        BY <3>1, CommitType
      <3> QED BY <2>9, <3>2 DEF AdjustStock, TypeOK, Txn
    <2>10. ASSUME NEW h \in Handlers, Closing(h) PROVE TypeOK'
      <3>1. PICK t : Commits(h, t, DayWrites(t), DayEffect(t))
        BY <2>10, ClosingStep
      <3>2. /\ db' \in DbType
            /\ DOMAIN run' \subseteq Handlers
            /\ \A g \in DOMAIN run' : run'[g] \in Txn
            /\ today' \in Days
            /\ applied' \in [Requests -> Nat]
        BY <3>1, CommitType
      <3> QED BY <2>10, <3>2 DEF Closing, TypeOK, Txn
    <2>11. ASSUME NEW h \in Handlers, Abandon(h) PROVE TypeOK'
      <3>1. /\ DOMAIN run' \subseteq Handlers
            /\ \A g \in DOMAIN run' : run'[g] \in Txn
        BY <2>11, AbortType DEF Abandon
      <3> QED BY <2>11, <3>1 DEF Abandon, TypeOK, Txn
    <2>12. CASE Midnight
      BY <2>12, TillAssumption DEF Midnight, TypeOK, Days
    <2>13. CASE UNCHANGED vars
      BY <2>13 DEF vars, TypeOK
    <2> QED
      BY <2>1, <2>2, <2>3, <2>4, <2>5, <2>6, <2>7, <2>8, <2>9, <2>10, <2>11,
         <2>12, <2>13
      DEF Next, Step
  <1> QED BY <1>1, <1>2, PTL DEF Spec

-----------------------------------------------------------------------------
(***************************************************************************)
(* Safety of the till, for every set of requests, handlers and customers.  *)
(*                                                                         *)
(* The inductive invariant says what write conflicts buy: the part of an   *)
(* open transaction's snapshot that belongs to a document it has not       *)
(* missed is still the committed state (Seen), because a transaction       *)
(* writes the document of everything it changes (Covers).                  *)
(***************************************************************************)

\* The transaction writes a document for each part of the database that next
\* changes.  BranchDoc stands for all that only its holders change.
Covers(W, next) ==
    /\ BranchDoc \notin W =>
         /\ next.closing = db.closing
         /\ next.booked = db.booked
         /\ next.opkeys = db.opkeys
         /\ \A i \in Invoices : next.invoice[i].key = db.invoice[i].key
    /\ \A i \in Invoices :
         InvoiceDoc(i) \notin W => next.invoice[i] = db.invoice[i]
    /\ InvoiceCounter \notin W => next.lastInvoice = db.lastInvoice
    /\ StockDoc \notin W => next.stock = db.stock
    /\ \A c \in Customers :
         CustomerDoc(c) \notin W => next.outstanding[c] = db.outstanding[c]
    /\ \A d \in Days : next.stray[d] >= db.stray[d]

\* What an open transaction read and has not missed is still so.
Seen(t) ==
    /\ BranchDoc \notin t.missed =>
         /\ t.snap.closing = db.closing
         /\ t.snap.booked = db.booked
         /\ t.snap.opkeys = db.opkeys
         /\ \A i \in Invoices : t.snap.invoice[i].key = db.invoice[i].key
    /\ \A i \in Invoices :
         InvoiceDoc(i) \notin t.missed => t.snap.invoice[i] = db.invoice[i]
    /\ InvoiceCounter \notin t.missed => t.snap.lastInvoice = db.lastInvoice
    /\ StockDoc \notin t.missed => t.snap.stock = db.stock
    /\ \A c \in Customers :
         CustomerDoc(c) \notin t.missed =>
            t.snap.outstanding[c] = db.outstanding[c]
    /\ \A d \in Days : t.snap.stray[d] <= db.stray[d]

SeenInv == \A h \in DOMAIN run : Seen(run[h])

\* Invoice numbers are handed out in order.
NumbersInOrder(s) ==
    \A i \in Invoices : i > s.lastInvoice => s.invoice[i] = NoInvoice

\* No day has a closing record before it begins.
DaysBegun(s, day) == \A d \in Days : s.closing[d].status # "none" => d <= day

CountsCover(s) ==
    \A d \in Days :
        Finalised(s.closing[d]) => s.closing[d].count - s.booked[d] \in 0..s.stray[d]

Sound(s) ==
    /\ NumbersInOrder(s)
    /\ DaysBegun(s, today)
    /\ CountsCover(s)
    /\ s.stock >= 0

ClockInv ==
    \A h \in DOMAIN run :
        run[h].day <= today /\ DaysBegun(run[h].snap, run[h].day)

TillInv == TypeOK /\ Sound(db) /\ SeenInv /\ ClockInv

-----------------------------------------------------------------------------
(* A transaction writes the documents of what it changes.                  *)

LEMMA PostedElsewhere ==
    ASSUME NEW cur \in [Customers -> Int], NEW snap, NEW c, NEW delta,
           NEW x \in Customers, CustomerDoc(x) \notin LedgerDocs(c)
    PROVE  Posted(cur, snap, c, delta)[x] = cur[x]
  BY DEF Posted, LedgerDocs, CustomerDoc

LEMMA Committed ==
    ASSUME TypeOK, NEW h, NEW t, NEW W, NEW next, Commits(h, t, W, next)
    PROVE  /\ h \in DOMAIN run
           /\ t.op \in Requests /\ t.day \in Days /\ t.stamp \in Days
           /\ t.op = run[h].op /\ t.snap = run[h].snap
           /\ run[h].day <= t.day /\ t.day <= t.stamp /\ t.stamp <= today
           /\ HasFields(db) /\ HasFields(t.snap) /\ HasFields(next)
           /\ db' = next
           /\ run[h].missed \cap W = {}
           /\ today' = today
  BY WorkFields, DbFields DEF Commits, CommitTxn, NoConflict, TypeOK

\* What a committing transaction read of the documents it writes is current.
LEMMA ReadsCurrent ==
    ASSUME TypeOK, SeenInv, NEW h, NEW t, NEW W, NEW next,
           Commits(h, t, W, next)
    PROVE  /\ BranchDoc \in W =>
                /\ t.snap.closing = db.closing
                /\ t.snap.booked = db.booked
                /\ t.snap.opkeys = db.opkeys
                /\ \A i \in Invoices : t.snap.invoice[i].key = db.invoice[i].key
           /\ \A i \in Invoices :
                InvoiceDoc(i) \in W => t.snap.invoice[i] = db.invoice[i]
           /\ InvoiceCounter \in W => t.snap.lastInvoice = db.lastInvoice
           /\ StockDoc \in W => t.snap.stock = db.stock
           /\ \A c \in Customers :
                CustomerDoc(c) \in W => t.snap.outstanding[c] = db.outstanding[c]
           /\ \A e \in Days : t.snap.stray[e] <= db.stray[e]
  <1>1. t.snap = run[h].snap /\ Seen(run[h]) /\ run[h].missed \cap W = {}
    BY Committed DEF SeenInv
  <1>2. \A x \in W : x \notin run[h].missed
    BY <1>1
  <1> QED BY <1>1, <1>2 DEF Seen

LEMMA SaleCovers ==
    ASSUME TypeOK, NEW h, NEW t, Commits(h, t, SaleWrites(t), SaleEffect(t)),
           t.op.kind = "sale", SaleAllowed(t)
    PROVE  Covers(SaleWrites(t), SaleEffect(t))
  <1> DEFINE d == SaleEffect(t)
             W == SaleWrites(t)
  <1>1. t \in Work /\ db \in DbType /\ HasFields(db) /\ HasFields(t.snap)
    BY Committed DEF Commits, TypeOK
  <1>2. /\ SaleInvoiceId(t) \in Invoices
        /\ t.stamp \in Days
        /\ t.op \in SaleRequests
    BY <1>1, SaleType, WorkFields, KindOf
  <1>3. /\ d.closing = db.closing
        /\ d.invoice = [db.invoice EXCEPT ![SaleInvoiceId(t)] = IssuedInvoice(t.op)]
        /\ d.lastInvoice = IF t.op.draft = 0 THEN SaleInvoiceId(t) ELSE db.lastInvoice
        /\ d.outstanding = Posted(db.outstanding, t.snap.outstanding,
                                  t.op.customer, t.op.total - t.op.paid)
        /\ d.stock = db.stock - t.op.quantity
        /\ d.stray = IF ChecksItsDay(t) THEN db.stray
                     ELSE Plus(db.stray, t.stamp, t.op.paid)
    BY <1>1, <1>2, SaleDelta
  <1> HIDE DEF d
  <1>4. BranchDoc \in W
    BY DEF SaleWrites
  <1>5. \A i \in Invoices : InvoiceDoc(i) \notin W => d.invoice[i] = db.invoice[i]
    BY <1>1, <1>3 DEF SaleWrites, HasFields
  <1>6. InvoiceCounter \notin W => d.lastInvoice = db.lastInvoice
    BY <1>3 DEF SaleWrites
  <1>7. StockDoc \notin W => d.stock = db.stock
    <2>1. db.stock \in Int /\ t.op.quantity \in Nat
      BY <1>1, <1>2 DEF HasFields, SaleRequests
    <2> QED BY <1>3, <2>1 DEF SaleWrites
  <1>8. \A c \in Customers :
          CustomerDoc(c) \notin W => d.outstanding[c] = db.outstanding[c]
    BY <1>1, <1>3, PostedElsewhere DEF SaleWrites, HasFields
  <1>9. \A e \in Days : d.stray[e] >= db.stray[e]
    <2>1. db.stray \in [Days -> Nat] /\ t.op.paid \in Nat
      BY <1>1, <1>2 DEF HasFields, SaleRequests
    <2> QED BY <1>2, <1>3, <2>1 DEF Plus
  <1> QED BY <1>4, <1>5, <1>6, <1>7, <1>8, <1>9 DEF Covers, d

LEMMA DraftCovers ==
    ASSUME TypeOK, SeenInv, NumbersInOrder(db), NEW h, NEW t,
           Commits(h, t, DraftWrites(t), DraftEffect(t)),
           t.op.kind = "draft", DraftAllowed(t)
    PROVE  Covers(DraftWrites(t), DraftEffect(t))
  <1> DEFINE d == DraftEffect(t)
             n == t.snap.lastInvoice + 1
             W == DraftWrites(t)
  <1>1. t \in Work /\ db \in DbType /\ HasFields(db) /\ HasFields(t.snap)
    BY Committed DEF Commits, TypeOK
  <1>2. n \in Invoices
    BY <1>1, DraftType
  <1>3. /\ d.closing = db.closing
        /\ d.invoice = [db.invoice EXCEPT ![n] = [NoInvoice EXCEPT !.status = "draft"]]
        /\ d.lastInvoice = n
        /\ d.outstanding = db.outstanding
        /\ d.stock = db.stock
        /\ d.opkeys = db.opkeys
        /\ d.booked = db.booked
        /\ d.stray = db.stray
    BY <1>1, <1>2, DraftDelta
  <1> HIDE DEF d
  <1>4. db.invoice[n] = NoInvoice
    <2>1. InvoiceCounter \in W
      BY DEF DraftWrites
    <2>2. t.snap.lastInvoice = db.lastInvoice /\ db.lastInvoice \in 0..MaxInvoice
      BY <1>1, <2>1, ReadsCurrent DEF HasFields
    <2> QED BY <1>2, <2>2, TillAssumption DEF NumbersInOrder
  <1>5. \A i \in Invoices : d.invoice[i].key = db.invoice[i].key
    BY <1>1, <1>3, <1>4 DEF HasFields, NoInvoice
  <1>6. \A i \in Invoices : InvoiceDoc(i) \notin W => d.invoice[i] = db.invoice[i]
    BY <1>1, <1>3 DEF DraftWrites, HasFields
  <1>7. InvoiceCounter \in W
    BY DEF DraftWrites
  <1>8. \A e \in Days : d.stray[e] >= db.stray[e]
    BY <1>1, <1>3 DEF HasFields
  <1> QED BY <1>3, <1>5, <1>6, <1>7, <1>8 DEF Covers, d

LEMMA CancelCovers ==
    ASSUME TypeOK, SeenInv, NEW h, NEW t,
           Commits(h, t, CancelWrites(t), CancelEffect(t)),
           t.op.kind = "cancel"
    PROVE  Covers(CancelWrites(t), CancelEffect(t))
  <1> DEFINE d == CancelEffect(t)
             n == t.op.invoice
             W == CancelWrites(t)
  <1>1. t \in Work /\ db \in DbType /\ HasFields(db) /\ HasFields(t.snap)
    BY Committed DEF Commits, TypeOK
  <1>2. n \in Invoices
    BY <1>1, CancelType
  <1>3. /\ d.closing = db.closing
        /\ d.invoice = [db.invoice EXCEPT ![n] =
                          [t.snap.invoice[n] EXCEPT !.status = "cancelled"]]
        /\ d.lastInvoice = db.lastInvoice
        /\ d.outstanding = db.outstanding
        /\ d.stock = db.stock
        /\ d.opkeys = db.opkeys
        /\ d.booked = db.booked
        /\ d.stray = db.stray
    BY <1>1, <1>2, CancelDelta
  <1> HIDE DEF d
  <1>4. t.snap.invoice[n] = db.invoice[n] /\ db.invoice[n] \in InvoiceType
    <2>1. InvoiceDoc(n) \in W
      BY DEF CancelWrites
    <2> QED BY <1>1, <1>2, <2>1, ReadsCurrent DEF HasFields
  <1>5. \A i \in Invoices : d.invoice[i].key = db.invoice[i].key
    BY <1>1, <1>2, <1>3, <1>4 DEF HasFields, InvoiceType
  <1>6. \A i \in Invoices : InvoiceDoc(i) \notin W => d.invoice[i] = db.invoice[i]
    BY <1>1, <1>3 DEF CancelWrites, HasFields
  <1>8. \A e \in Days : d.stray[e] >= db.stray[e]
    BY <1>1, <1>3 DEF HasFields
  <1> QED BY <1>3, <1>5, <1>6, <1>8 DEF Covers, d

LEMMA CollectCovers ==
    ASSUME TypeOK, NEW h, NEW t,
           Commits(h, t, CollectWrites(t), CollectEffect(t)),
           t.op.kind = "collect", CollectAllowed(t)
    PROVE  Covers(CollectWrites(t), CollectEffect(t))
  <1> DEFINE d == CollectEffect(t)
             n == t.op.invoice
             W == CollectWrites(t)
  <1>1. t \in Work /\ db \in DbType /\ HasFields(db) /\ HasFields(t.snap)
    BY Committed DEF Commits, TypeOK
  <1>2. n \in Invoices /\ t.stamp \in Days
    BY <1>1, CollectType, WorkFields
  <1>3. /\ d.invoice = [db.invoice EXCEPT ![n] = Collected(t)]
        /\ d.lastInvoice = db.lastInvoice
        /\ d.outstanding = Posted(db.outstanding, t.snap.outstanding,
                                  t.snap.invoice[n].customer, -t.op.amount)
        /\ d.stock = db.stock
        /\ d.stray = db.stray
    BY <1>1, <1>2, CollectDelta
  <1> HIDE DEF d
  <1>4. BranchDoc \in W
    BY DEF CollectWrites
  <1>5. \A i \in Invoices : InvoiceDoc(i) \notin W => d.invoice[i] = db.invoice[i]
    BY <1>1, <1>3 DEF CollectWrites, HasFields
  <1>6. \A c \in Customers :
          CustomerDoc(c) \notin W => d.outstanding[c] = db.outstanding[c]
    <2>1. db.outstanding \in [Customers -> Int]
      BY <1>1 DEF HasFields
    <2>2. ASSUME NEW c \in Customers, CustomerDoc(c) \notin W
          PROVE  CustomerDoc(c) \notin LedgerDocs(t.snap.invoice[n].customer)
      BY <2>2 DEF CollectWrites
    <2> HIDE DEF W, n
    <2> QED BY <1>3, <2>1, <2>2, PostedElsewhere
  <1>7. \A e \in Days : d.stray[e] >= db.stray[e]
    BY <1>1, <1>3 DEF HasFields
  <1> QED BY <1>3, <1>4, <1>5, <1>6, <1>7 DEF Covers, d

LEMMA VoidCovers ==
    ASSUME TypeOK, NEW h, NEW t,
           Commits(h, t, VoidWrites(t), VoidEffect(t)), t.op.kind = "void"
    PROVE  Covers(VoidWrites(t), VoidEffect(t))
  <1> DEFINE d == VoidEffect(t)
             n == t.op.invoice
             W == VoidWrites(t)
  <1>1. t \in Work /\ db \in DbType /\ HasFields(db) /\ HasFields(t.snap)
    BY Committed DEF Commits, TypeOK
  <1>2. n \in Invoices
    BY <1>1, VoidType
  <1>3. /\ d.invoice = [db.invoice EXCEPT ![n] = Voided(t)]
        /\ d.lastInvoice = db.lastInvoice
        /\ d.outstanding = Posted(db.outstanding, t.snap.outstanding,
                                  CreditedTo(t.snap.invoice[n]),
                                  -t.snap.invoice[n].due)
        /\ d.stock = db.stock
        /\ d.stray = db.stray
    BY <1>1, <1>2, VoidDelta
  <1> HIDE DEF d
  <1>4. BranchDoc \in W
    BY DEF VoidWrites
  <1>5. \A i \in Invoices : InvoiceDoc(i) \notin W => d.invoice[i] = db.invoice[i]
    BY <1>1, <1>3 DEF VoidWrites, HasFields
  <1>6. \A c \in Customers :
          CustomerDoc(c) \notin W => d.outstanding[c] = db.outstanding[c]
    BY <1>1, <1>3, PostedElsewhere DEF VoidWrites, HasFields
  <1>7. \A e \in Days : d.stray[e] >= db.stray[e]
    BY <1>1, <1>3 DEF HasFields
  <1> QED BY <1>3, <1>4, <1>5, <1>6, <1>7 DEF Covers, d

LEMMA AccountCovers ==
    ASSUME TypeOK, NEW h, NEW t,
           Commits(h, t, AccountWrites(t), AccountEffect(t)),
           t.op.kind = "account"
    PROVE  Covers(AccountWrites(t), AccountEffect(t))
  <1> DEFINE d == AccountEffect(t)
             W == AccountWrites(t)
  <1>1. t \in Work /\ db \in DbType /\ HasFields(db) /\ HasFields(t.snap)
    BY Committed DEF Commits, TypeOK
  <1>2. t.op.customer \in Customers /\ t.stamp \in Days /\ t.op.amount \in Nat
    BY <1>1, WorkFields, KindOf DEF AccountRequests
  <1>3. /\ d.closing = db.closing
        /\ d.invoice = db.invoice
        /\ d.lastInvoice = db.lastInvoice
        /\ d.outstanding = Posted(db.outstanding, t.snap.outstanding,
                                  t.op.customer, -t.op.amount)
        /\ d.stock = db.stock
        /\ d.opkeys = db.opkeys
        /\ d.booked = db.booked
        /\ d.stray = Plus(db.stray, t.stamp, t.op.amount)
    BY <1>1, <1>2, AccountDelta
  <1> HIDE DEF d
  <1>4. \A c \in Customers :
          CustomerDoc(c) \notin W => d.outstanding[c] = db.outstanding[c]
    BY <1>1, <1>3, PostedElsewhere DEF AccountWrites, HasFields
  <1>5. \A e \in Days : d.stray[e] >= db.stray[e]
    <2>1. db.stray \in [Days -> Nat]
      BY <1>1 DEF HasFields
    <2> QED BY <1>2, <1>3, <2>1 DEF Plus
  <1> QED BY <1>3, <1>4, <1>5 DEF Covers, d

LEMMA AdjustCovers ==
    ASSUME TypeOK, NEW h, NEW t,
           Commits(h, t, AdjustWrites(t), AdjustEffect(t))
    PROVE  Covers(AdjustWrites(t), AdjustEffect(t))
  <1> DEFINE d == AdjustEffect(t)
  <1>1. db \in DbType /\ HasFields(db)
    BY Committed DEF TypeOK
  <1>2. /\ d.closing = db.closing
        /\ d.invoice = db.invoice
        /\ d.lastInvoice = db.lastInvoice
        /\ d.outstanding = db.outstanding
        /\ d.opkeys = db.opkeys
        /\ d.booked = db.booked
        /\ d.stray = db.stray
    BY <1>1, AdjustDelta
  <1> HIDE DEF d
  <1>3. \A e \in Days : d.stray[e] >= db.stray[e]
    BY <1>1, <1>2 DEF HasFields
  <1>4. StockDoc \in AdjustWrites(t)
    BY DEF AdjustWrites
  <1> QED BY <1>2, <1>3, <1>4 DEF Covers, d

LEMMA DayCovers ==
    ASSUME TypeOK, NEW h, NEW t, Commits(h, t, DayWrites(t), DayEffect(t)),
           t.op.kind \in {"open", "submit", "close", "reopen"}
    PROVE  Covers(DayWrites(t), DayEffect(t))
  <1> DEFINE d == DayEffect(t)
  <1>1. t \in Work /\ db \in DbType /\ HasFields(db)
    BY Committed DEF Commits, TypeOK
  <1>2. t.op.date \in Days
    BY <1>1, DayType
  <1>3. /\ d.invoice = db.invoice
        /\ d.lastInvoice = db.lastInvoice
        /\ d.outstanding = db.outstanding
        /\ d.stock = db.stock
        /\ d.stray = db.stray
    BY <1>1, <1>2, DayDelta
  <1> HIDE DEF d
  <1>4. \A e \in Days : d.stray[e] >= db.stray[e]
    BY <1>1, <1>3 DEF HasFields
  <1>5. BranchDoc \in DayWrites(t)
    BY DEF DayWrites
  <1> QED BY <1>3, <1>4, <1>5 DEF Covers, d

-----------------------------------------------------------------------------
(* The invariant is inductive.                                             *)

LEMMA SeenKept ==
    ASSUME TypeOK, SeenInv, NEW h, NEW t, NEW W, NEW next,
           Commits(h, t, W, next), Covers(W, next)
    PROVE  SeenInv'
  <1>1. /\ DOMAIN run' \subseteq DOMAIN run
        /\ \A g \in DOMAIN run' :
              run'[g] = [run[g] EXCEPT !.missed = run[g].missed \cup W]
    BY DEF CommitTxn, EndTxn, Commits
  <1>2. SUFFICES ASSUME NEW g \in DOMAIN run'
                 PROVE  Seen(run[g]) => Seen(run[g])'
    BY <1>1 DEF SeenInv
  <1>3. SUFFICES ASSUME Seen(run[g])
                 PROVE  Seen(run[g])'
    OBVIOUS
  <1>4. run[g] \in Txn
    BY <1>1 DEF TypeOK, Txn
  <1>5. /\ run'[g].snap = run[g].snap
        /\ run'[g].missed = run[g].missed \cup W
    BY <1>1, <1>4 DEF Txn
  <1> DEFINE snap == run[g].snap
             missed == run[g].missed
  <1>6. db' = next /\ HasFields(db) /\ HasFields(next) /\ HasFields(snap)
    BY <1>4, Committed, DbFields DEF Txn
  <1>7. /\ BranchDoc \notin missed \cup W =>
             /\ snap.closing = next.closing
             /\ snap.booked = next.booked
             /\ snap.opkeys = next.opkeys
             /\ \A i \in Invoices : snap.invoice[i].key = next.invoice[i].key
        /\ InvoiceCounter \notin missed \cup W => snap.lastInvoice = next.lastInvoice
        /\ StockDoc \notin missed \cup W => snap.stock = next.stock
    BY <1>3 DEF Seen, Covers
  <1>8. \A i \in Invoices :
          InvoiceDoc(i) \notin missed \cup W => snap.invoice[i] = next.invoice[i]
    BY <1>3 DEF Seen, Covers
  <1>9. \A c \in Customers :
          CustomerDoc(c) \notin missed \cup W =>
             snap.outstanding[c] = next.outstanding[c]
    BY <1>3 DEF Seen, Covers
  <1>10. \A d \in Days : snap.stray[d] <= next.stray[d]
    <2>1. \A d \in Days : /\ snap.stray[d] \in Nat /\ db.stray[d] \in Nat
                          /\ next.stray[d] \in Nat
      BY <1>6 DEF HasFields
    <2>2. \A d \in Days : snap.stray[d] <= db.stray[d] /\ next.stray[d] >= db.stray[d]
      BY <1>3 DEF Seen, Covers
    <2> QED BY <2>1, <2>2 DEF Days
  <1> HIDE DEF snap, missed
  <1>11. /\ run'[g].snap = snap /\ run'[g].missed = missed \cup W /\ db' = next
    BY <1>5, <1>6 DEF snap, missed
  <1> QED BY <1>7, <1>8, <1>9, <1>10, <1>11 DEF Seen

LEMMA ClockKept ==
    ASSUME TypeOK, ClockInv, NEW h, NEW t, NEW W, NEW next,
           Commits(h, t, W, next)
    PROVE  ClockInv'
  <1>1. /\ DOMAIN run' \subseteq DOMAIN run
        /\ \A g \in DOMAIN run' :
              run'[g] = [run[g] EXCEPT !.missed = run[g].missed \cup W]
        /\ today' = today
    BY DEF CommitTxn, EndTxn, Commits
  <1>2. ASSUME NEW g \in DOMAIN run'
        PROVE  run'[g].snap = run[g].snap /\ run'[g].day = run[g].day
    <2>1. run[g] \in Txn
      BY <1>1 DEF TypeOK, Txn
    <2> QED BY <1>1, <2>1 DEF Txn
  <1> QED BY <1>1, <1>2 DEF ClockInv, DaysBegun

LEMMA CommitKeeps ==
    ASSUME TillInv, TypeOK', NEW h, NEW t, NEW W, NEW next,
           Commits(h, t, W, next), Covers(W, next), Sound(next)
    PROVE  TillInv'
  <1>1. db' = next /\ today' = today
    BY Committed DEF TillInv
  <1>2. Sound(db)'
    BY <1>1 DEF Sound, NumbersInOrder, DaysBegun, CountsCover
  <1> QED BY <1>2, SeenKept, ClockKept DEF TillInv

\* An invoice that exists has been numbered.
LEMMA Numbered ==
    ASSUME HasFields(db), NumbersInOrder(db), NEW i \in Invoices,
           db.invoice[i].status # "none"
    PROVE  i <= db.lastInvoice
  <1>1. db.invoice[i] # NoInvoice
    BY DEF NoInvoice
  <1>2. i \in Nat /\ db.lastInvoice \in Nat
    BY TillAssumption DEF HasFields, Invoices
  <1> QED BY <1>1, <1>2 DEF NumbersInOrder

\* A closing that a collection looked at, and that is still current, is not
\* finalised on the day the collection is dated.
LEMMA DayStillOpen ==
    ASSUME TillInv, NEW h, NEW t, NEW W, NEW next, Commits(h, t, W, next),
           BranchDoc \in W, ~Finalised(t.snap.closing[t.day])
    PROVE  ~Finalised(db.closing[t.stamp])
  <1>1. t.snap.closing = db.closing
    BY ReadsCurrent DEF TillInv
  <1>2. CASE t.stamp = t.day
    BY <1>1, <1>2
  <1>3. CASE t.stamp # t.day
    <2>1. /\ run[h].day \in Nat /\ t.day \in Nat /\ t.stamp \in Nat /\ t.stamp \in Days
          /\ run[h].day <= t.day /\ t.day <= t.stamp
          /\ h \in DOMAIN run /\ t.snap = run[h].snap
      BY Committed DEF TillInv, TypeOK, Days
    <2>2. ~(t.stamp <= run[h].day)
      BY <1>3, <2>1
    <2>3. t.snap.closing[t.stamp].status = "none"
      BY <2>1, <2>2 DEF TillInv, ClockInv, DaysBegun
    <2> QED BY <1>1, <2>3 DEF Finalised
  <1> QED BY <1>2, <1>3

\* Money collected on a day that is not finalised leaves every count right.
LEMMA BookingKeepsCounts ==
    ASSUME HasFields(db), CountsCover(db), NEW next,
           next.closing = db.closing, next.stray = db.stray,
           NEW day \in Days, NEW amount, ~Finalised(db.closing[day]),
           next.booked = Plus(db.booked, day, amount)
    PROVE  CountsCover(next)
  <1>1. SUFFICES ASSUME NEW d \in Days, Finalised(next.closing[d])
                 PROVE  next.closing[d].count - next.booked[d] \in 0..next.stray[d]
    BY DEF CountsCover
  <1>2. d # day
    BY <1>1
  <1>3. next.booked[d] = db.booked[d]
    BY <1>2 DEF Plus, HasFields
  <1> QED BY <1>1, <1>3 DEF CountsCover

\* Money that was not checked may be in a count or not.
LEMMA StrayKeepsCounts ==
    ASSUME NEW next, HasFields(db), HasFields(next), CountsCover(db),
           next.closing = db.closing, next.booked = db.booked,
           \A d \in Days : next.stray[d] >= db.stray[d]
    PROVE  CountsCover(next)
  <1>1. SUFFICES ASSUME NEW d \in Days, Finalised(next.closing[d])
                 PROVE  next.closing[d].count - next.booked[d] \in 0..next.stray[d]
    BY DEF CountsCover
  <1>2. next.closing[d].count - next.booked[d] \in 0..db.stray[d]
    BY <1>1 DEF CountsCover
  <1>3. db.stray[d] \in Nat /\ next.stray[d] \in Nat /\ next.stray[d] >= db.stray[d]
    BY DEF HasFields
  <1> QED BY <1>2, <1>3

LEMMA SaleSound ==
    ASSUME TillInv, NEW h, NEW t, Commits(h, t, SaleWrites(t), SaleEffect(t)),
           t.op.kind = "sale", SaleAllowed(t)
    PROVE  Sound(SaleEffect(t))
  <1> DEFINE d == SaleEffect(t)
             W == SaleWrites(t)
             n == SaleInvoiceId(t)
  <1>1. /\ t \in Work /\ db \in DbType /\ HasFields(db) /\ HasFields(t.snap)
        /\ HasFields(d)
    <2>1. TypeOK /\ db \in DbType
      BY DEF TillInv, TypeOK
    <2>2. t \in Work
      BY DEF Commits
    <2>3. HasFields(db) /\ HasFields(t.snap) /\ HasFields(SaleEffect(t))
      BY <2>1, Committed
    <2> QED BY <2>1, <2>2, <2>3
  <1>2. n \in Invoices /\ t.stamp \in Days /\ t.day \in Days /\ t.op \in SaleRequests
    BY <1>1, SaleType, WorkFields, KindOf
  <1>3. /\ d.closing = db.closing
        /\ d.invoice = [db.invoice EXCEPT ![n] = IssuedInvoice(t.op)]
        /\ d.lastInvoice = IF t.op.draft = 0 THEN n ELSE db.lastInvoice
        /\ d.stock = db.stock - t.op.quantity
        /\ d.booked = IF ChecksItsDay(t) THEN Plus(db.booked, t.stamp, t.op.paid)
                      ELSE db.booked
        /\ d.stray = IF ChecksItsDay(t) THEN db.stray
                     ELSE Plus(db.stray, t.stamp, t.op.paid)
    BY <1>1, <1>2, SaleDelta
  <1>4. BranchDoc \in W /\ InvoiceDoc(n) \in W
    BY DEF SaleWrites
  <1>5. \A e \in Days : d.stray[e] >= db.stray[e]
    BY SaleCovers DEF TillInv, Covers
  <1> HIDE DEF d
  <1>6. NumbersInOrder(d)
    <2>1. CASE t.op.draft = 0
      <3>1. InvoiceCounter \in W
        BY <2>1 DEF SaleWrites
      <3>2. n = db.lastInvoice + 1
        BY <2>1, <3>1, ReadsCurrent DEF TillInv, SaleInvoiceId
      <3>3. db.lastInvoice \in Nat
        BY <1>1, TillAssumption DEF HasFields
      <3>4. ASSUME NEW i \in Invoices, i > d.lastInvoice
            PROVE  i # n /\ i > db.lastInvoice
        BY <1>3, <2>1, <3>2, <3>3, <3>4 DEF Invoices
      <3> HIDE DEF n
      <3> QED BY <1>1, <1>3, <3>4 DEF NumbersInOrder, TillInv, Sound, HasFields
    <2>2. CASE t.op.draft # 0
      <3>1. n = t.op.draft /\ t.snap.invoice[n].status = "draft"
        BY <2>2 DEF SaleAllowed, SaleInvoiceId
      <3>2. db.invoice[n].status = "draft"
        BY <1>2, <1>4, <3>1, ReadsCurrent DEF TillInv
      <3>3. n <= db.lastInvoice
        BY <1>1, <1>2, <3>2, Numbered DEF TillInv, Sound
      <3>4. ASSUME NEW i \in Invoices, i > d.lastInvoice
            PROVE  i # n /\ i > db.lastInvoice
        <4>1. db.lastInvoice \in Nat /\ i \in Nat
          BY <1>1, TillAssumption DEF HasFields, Invoices
        <4> QED BY <1>3, <2>2, <3>3, <3>4, <4>1
      <3> HIDE DEF n
      <3> QED BY <1>1, <1>3, <3>4 DEF NumbersInOrder, TillInv, Sound, HasFields
    <2> QED BY <2>1, <2>2
  <1>7. DaysBegun(d, today)
    BY <1>3 DEF TillInv, Sound, DaysBegun
  <1>8. CountsCover(d)
    <2>1. CountsCover(db)
      BY DEF TillInv, Sound
    <2>2. CASE ChecksItsDay(t)
      <3>1. ~Finalised(t.snap.closing[t.day])
        BY <2>2 DEF SaleAllowed, ChecksItsDay
      <3>2. ~Finalised(db.closing[t.stamp])
        BY <1>4, <3>1, DayStillOpen
      <3> QED BY <1>1, <1>2, <1>3, <2>1, <2>2, <3>2, BookingKeepsCounts
    <2>3. CASE ~ChecksItsDay(t)
      BY <1>1, <1>3, <1>5, <2>1, <2>3, StrayKeepsCounts DEF d
    <2> QED BY <2>2, <2>3
  <1>9. d.stock >= 0
    <2>1. /\ db.stock \in Int /\ db.stock >= 0
          /\ t.op.quantity \in Nat /\ t.op.quantity <= t.snap.stock
      BY <1>1, <1>2 DEF HasFields, TillInv, Sound, SaleRequests, SaleAllowed
    <2>2. t.op.quantity > 0 => t.snap.stock = db.stock
      <3>1. t.op.quantity > 0 => StockDoc \in W
        BY DEF SaleWrites
      <3> QED BY <3>1, ReadsCurrent DEF TillInv
    <2> QED BY <1>3, <2>1, <2>2
  <1> QED BY <1>6, <1>7, <1>8, <1>9 DEF Sound, d

\* A change to one existing invoice keeps the numbering.
LEMMA InvoiceChangeKeepsNumbers ==
    ASSUME HasFields(db), NumbersInOrder(db), NEW next, NEW n \in Invoices, NEW new,
           next.lastInvoice = db.lastInvoice,
           next.invoice = [db.invoice EXCEPT ![n] = new],
           db.invoice[n].status # "none"
    PROVE  NumbersInOrder(next)
  <1>1. n <= db.lastInvoice /\ n \in Nat /\ db.lastInvoice \in Nat
    BY Numbered, TillAssumption DEF HasFields, Invoices
  <1>2. ASSUME NEW i \in Invoices, i > next.lastInvoice
        PROVE  i # n /\ i > db.lastInvoice
    BY <1>1, <1>2
  <1> QED BY <1>2 DEF NumbersInOrder, HasFields

LEMMA DraftSound ==
    ASSUME TillInv, NEW h, NEW t, Commits(h, t, DraftWrites(t), DraftEffect(t)),
           t.op.kind = "draft", DraftAllowed(t)
    PROVE  Sound(DraftEffect(t))
  <1> DEFINE d == DraftEffect(t)
             n == t.snap.lastInvoice + 1
  <1>1. t \in Work /\ db \in DbType /\ HasFields(db) /\ HasFields(t.snap)
    BY Committed DEF Commits, TypeOK, TillInv
  <1>2. n \in Invoices
    BY <1>1, DraftType
  <1>3. /\ d.closing = db.closing
        /\ d.invoice = [db.invoice EXCEPT ![n] = [NoInvoice EXCEPT !.status = "draft"]]
        /\ d.lastInvoice = n
        /\ d.stock = db.stock
        /\ d.booked = db.booked
        /\ d.stray = db.stray
    BY <1>1, <1>2, DraftDelta
  <1> HIDE DEF d
  <1>4. n = db.lastInvoice + 1 /\ db.lastInvoice \in Nat
    <2>1. InvoiceCounter \in DraftWrites(t)
      BY DEF DraftWrites
    <2> QED BY <1>1, <2>1, ReadsCurrent, TillAssumption DEF TillInv, HasFields
  <1>5. NumbersInOrder(d)
    <2>1. ASSUME NEW i \in Invoices, i > d.lastInvoice
          PROVE  i # n /\ i > db.lastInvoice
      BY <1>3, <1>4, <2>1 DEF Invoices
    <2> HIDE DEF n
    <2> QED BY <1>1, <1>3, <2>1 DEF NumbersInOrder, TillInv, Sound, HasFields
  <1> QED BY <1>3, <1>5 DEF TillInv, Sound, DaysBegun, CountsCover, d

LEMMA CancelSound ==
    ASSUME TillInv, NEW h, NEW t, Commits(h, t, CancelWrites(t), CancelEffect(t)),
           t.op.kind = "cancel", CancelAllowed(t)
    PROVE  Sound(CancelEffect(t))
  <1> DEFINE d == CancelEffect(t)
             n == t.op.invoice
  <1>1. t \in Work /\ db \in DbType /\ HasFields(db) /\ HasFields(t.snap)
    BY Committed DEF Commits, TypeOK, TillInv
  <1>2. n \in Invoices
    BY <1>1, CancelType
  <1>3. /\ d.closing = db.closing
        /\ d.invoice = [db.invoice EXCEPT ![n] =
                          [t.snap.invoice[n] EXCEPT !.status = "cancelled"]]
        /\ d.lastInvoice = db.lastInvoice
        /\ d.stock = db.stock
        /\ d.booked = db.booked
        /\ d.stray = db.stray
    BY <1>1, <1>2, CancelDelta
  <1> HIDE DEF d
  <1>4. db.invoice[n].status # "none"
    <2>1. InvoiceDoc(n) \in CancelWrites(t)
      BY DEF CancelWrites
    <2>2. t.snap.invoice[n] = db.invoice[n]
      BY <1>2, <2>1, ReadsCurrent DEF TillInv
    <2> QED BY <2>2 DEF CancelAllowed
  <1>5. NumbersInOrder(d)
    BY <1>1, <1>2, <1>3, <1>4, InvoiceChangeKeepsNumbers DEF TillInv, Sound
  <1> QED BY <1>3, <1>5 DEF TillInv, Sound, DaysBegun, CountsCover, d

LEMMA CollectSound ==
    ASSUME TillInv, NEW h, NEW t, Commits(h, t, CollectWrites(t), CollectEffect(t)),
           t.op.kind = "collect", CollectAllowed(t)
    PROVE  Sound(CollectEffect(t))
  <1> DEFINE d == CollectEffect(t)
             n == t.op.invoice
  <1>1. t \in Work /\ db \in DbType /\ HasFields(db) /\ HasFields(t.snap)
    BY Committed DEF Commits, TypeOK, TillInv
  <1>2. n \in Invoices /\ t.stamp \in Days
    BY <1>1, CollectType, WorkFields
  <1>3. /\ d.closing = db.closing
        /\ d.invoice = [db.invoice EXCEPT ![n] = Collected(t)]
        /\ d.lastInvoice = db.lastInvoice
        /\ d.stock = db.stock
        /\ d.booked = Plus(db.booked, t.stamp, t.op.amount)
        /\ d.stray = db.stray
    BY <1>1, <1>2, CollectDelta
  <1> HIDE DEF d
  <1>4. BranchDoc \in CollectWrites(t) /\ InvoiceDoc(n) \in CollectWrites(t)
    BY DEF CollectWrites
  <1>5. NumbersInOrder(d)
    <2>1. t.snap.invoice[n] = db.invoice[n]
      BY <1>2, <1>4, ReadsCurrent DEF TillInv
    <2>2. db.invoice[n].status # "none"
      BY <2>1 DEF CollectAllowed
    <2> QED BY <1>1, <1>2, <1>3, <2>2, InvoiceChangeKeepsNumbers DEF TillInv, Sound
  <1>6. CountsCover(d)
    <2>1. ~Finalised(db.closing[t.stamp])
      BY <1>4, DayStillOpen DEF CollectAllowed
    <2>2. CountsCover(db)
      BY DEF TillInv, Sound
    <2> QED BY <1>1, <1>2, <1>3, <2>1, <2>2, BookingKeepsCounts
  <1> QED BY <1>3, <1>5, <1>6 DEF TillInv, Sound, DaysBegun, d

LEMMA VoidSound ==
    ASSUME TillInv, NEW h, NEW t, Commits(h, t, VoidWrites(t), VoidEffect(t)),
           t.op.kind = "void", VoidAllowed(t)
    PROVE  Sound(VoidEffect(t))
  <1> DEFINE d == VoidEffect(t)
             n == t.op.invoice
  <1>1. t \in Work /\ db \in DbType /\ HasFields(db) /\ HasFields(t.snap)
    BY Committed DEF Commits, TypeOK, TillInv
  <1>2. n \in Invoices
    BY <1>1, VoidType
  <1>3. /\ d.closing = db.closing
        /\ d.invoice = [db.invoice EXCEPT ![n] = Voided(t)]
        /\ d.lastInvoice = db.lastInvoice
        /\ d.stock = db.stock
        /\ d.booked = db.booked
        /\ d.stray = db.stray
    BY <1>1, <1>2, VoidDelta
  <1> HIDE DEF d
  <1>4. InvoiceDoc(n) \in VoidWrites(t)
    BY DEF VoidWrites
  <1>5. NumbersInOrder(d)
    <2>1. t.snap.invoice[n] = db.invoice[n]
      BY <1>2, <1>4, ReadsCurrent DEF TillInv
    <2>2. db.invoice[n].status # "none"
      BY <2>1 DEF VoidAllowed
    <2> QED BY <1>1, <1>2, <1>3, <2>2, InvoiceChangeKeepsNumbers DEF TillInv, Sound
  <1> QED BY <1>3, <1>5 DEF TillInv, Sound, DaysBegun, CountsCover, d

LEMMA AccountSound ==
    ASSUME TillInv, NEW h, NEW t, Commits(h, t, AccountWrites(t), AccountEffect(t)),
           t.op.kind = "account"
    PROVE  Sound(AccountEffect(t))
  <1> DEFINE d == AccountEffect(t)
  <1>1. /\ t \in Work /\ db \in DbType /\ HasFields(db) /\ HasFields(d)
    BY Committed DEF Commits, TypeOK, TillInv
  <1>2. t.op.customer \in Customers /\ t.stamp \in Days
    BY <1>1, WorkFields, AccountType
  <1>3. /\ d.closing = db.closing
        /\ d.invoice = db.invoice
        /\ d.lastInvoice = db.lastInvoice
        /\ d.stock = db.stock
        /\ d.booked = db.booked
    BY <1>1, <1>2, AccountDelta
  <1>4. \A e \in Days : d.stray[e] >= db.stray[e]
    BY AccountCovers DEF TillInv, Covers
  <1> HIDE DEF d
  <1>5. CountsCover(d)
    BY <1>1, <1>3, <1>4, StrayKeepsCounts DEF TillInv, Sound
  <1> QED BY <1>3, <1>5 DEF TillInv, Sound, DaysBegun, NumbersInOrder, d

LEMMA AdjustSound ==
    ASSUME TillInv, NEW h, NEW t, Commits(h, t, AdjustWrites(t), AdjustEffect(t)),
           AdjustAllowed(t)
    PROVE  Sound(AdjustEffect(t))
  <1> DEFINE d == AdjustEffect(t)
  <1>1. db \in DbType /\ HasFields(db)
    BY Committed DEF TypeOK, TillInv
  <1>2. /\ d.closing = db.closing
        /\ d.invoice = db.invoice
        /\ d.lastInvoice = db.lastInvoice
        /\ d.stock = db.stock + t.op.change
        /\ d.booked = db.booked
        /\ d.stray = db.stray
    BY <1>1, AdjustDelta
  <1> HIDE DEF d
  <1>3. t.snap.stock = db.stock
    <2>1. StockDoc \in AdjustWrites(t)
      BY DEF AdjustWrites
    <2> QED BY <2>1, ReadsCurrent DEF TillInv
  <1>4. d.stock >= 0
    BY <1>2, <1>3 DEF AdjustAllowed
  <1> QED BY <1>2, <1>4 DEF TillInv, Sound, DaysBegun, NumbersInOrder, CountsCover, d

LEMMA DaySound ==
    ASSUME TillInv, NEW h, NEW t, Commits(h, t, DayWrites(t), DayEffect(t)),
           t.op.kind \in {"open", "submit", "close", "reopen"}, DayAllowed(t)
    PROVE  Sound(DayEffect(t))
  <1> DEFINE d == DayEffect(t)
             e == t.op.date
  <1>1. t \in Work /\ db \in DbType /\ HasFields(db) /\ HasFields(t.snap)
    BY Committed DEF Commits, TypeOK, TillInv
  <1>2. e \in Days
    BY <1>1, DayType
  <1>3. /\ d.closing = [db.closing EXCEPT ![e] = DayRecord(t)]
        /\ d.invoice = db.invoice
        /\ d.lastInvoice = db.lastInvoice
        /\ d.stock = db.stock
        /\ d.booked = db.booked
        /\ d.stray = db.stray
    BY <1>1, <1>2, DayDelta
  <1> HIDE DEF d
  <1>4. /\ t.snap.closing[e] = db.closing[e]
        /\ t.snap.booked[e] = db.booked[e]
        /\ t.snap.stray[e] <= db.stray[e]
    <2>1. BranchDoc \in DayWrites(t)
      BY DEF DayWrites
    <2> QED BY <1>2, <2>1, ReadsCurrent DEF TillInv
  <1>5. /\ db.closing[e] \in [status: DayStatus, count: Nat]
        /\ db.booked[e] \in Nat /\ db.stray[e] \in Nat /\ t.snap.stray[e] \in Nat
    BY <1>1, <1>2 DEF HasFields
  <1>6. DaysBegun(d, today)
    <2>1. e <= today
      <3>1. CASE t.op.kind = "open"
        <4>1. e = t.day
          BY <3>1 DEF DayAllowed
        <4>2. t.day \in Nat /\ t.stamp \in Nat /\ today \in Nat
              /\ t.day <= t.stamp /\ t.stamp <= today
          BY Committed DEF TillInv, TypeOK, Days
        <4> QED BY <4>1, <4>2
      <3>2. CASE t.op.kind # "open"
        <4>1. db.closing[e].status # "none"
          BY <1>4, <3>2 DEF DayAllowed, Finalised
        <4> QED BY <1>2, <4>1 DEF TillInv, Sound, DaysBegun
      <3> QED BY <3>1, <3>2
    <2> HIDE DEF e
    <2> QED BY <1>1, <1>3, <2>1 DEF DaysBegun, TillInv, Sound, HasFields
  <1>7. CountsCover(d)
    <2>1. CountsCover(db)
      BY DEF TillInv, Sound
    <2>2. Finalised(DayRecord(t)) =>
             DayRecord(t).count - db.booked[e] \in 0..db.stray[e]
      <3>1. CASE t.op.kind \in {"open", "reopen"}
        BY <1>4, <1>5, <3>1 DEF DayRecord, Finalised
      <3>2. CASE t.op.kind = "submit"
        BY <1>4, <1>5, <3>2 DEF DayRecord
      <3>3. CASE t.op.kind = "close"
        <4>1. /\ DayRecord(t).count = db.closing[e].count
              /\ Finalised(db.closing[e])
          BY <1>4, <1>5, <3>3 DEF DayRecord, DayAllowed, Finalised
        <4> QED BY <1>2, <2>1, <4>1 DEF CountsCover
      <3> QED BY <3>1, <3>2, <3>3
    <2> HIDE DEF e
    <2> QED BY <1>1, <1>2, <1>3, <2>1, <2>2 DEF CountsCover, HasFields
  <1> QED BY <1>3, <1>6, <1>7 DEF TillInv, Sound, NumbersInOrder, d

\* A transaction that begins has seen all there is.
LEMMA BeginKeeps ==
    ASSUME TillInv, TypeOK', NEW h, Begin(h)
    PROVE  TillInv'
  <1>1. PICK r \in Requests :
          run' = [g \in DOMAIN run \cup {h} |->
                    IF g = h THEN [op |-> r, snap |-> db, day |-> today, missed |-> {}]
                    ELSE run[g]]
    BY DEF Begin, OpenTxn
  <1>2. db' = db /\ today' = today
    BY DEF Begin
  <1>3. HasFields(db)
    BY DbFields DEF TillInv, TypeOK
  <1>4. ASSUME NEW g \in DOMAIN run'
        PROVE  Seen(run[g])'
    <2>1. CASE g = h
      <3>1. run'[g].snap = db'
        BY <1>1, <1>2, <2>1
      <3>2. \A d \in Days : db.stray[d] \in Nat
        BY <1>3 DEF HasFields
      <3> QED BY <1>2, <3>1, <3>2 DEF Seen
    <2>2. CASE g # h
      <3>1. g \in DOMAIN run /\ run'[g] = run[g]
        BY <1>1, <2>2
      <3> QED BY <1>2, <3>1 DEF TillInv, SeenInv, Seen
    <2> QED BY <2>1, <2>2
  <1>5. SeenInv'
    BY <1>4 DEF SeenInv
  <1>6. ClockInv'
    <2>1. today \in Nat /\ DaysBegun(db, today)
      BY DEF TillInv, TypeOK, Days, Sound
    <2> QED BY <1>1, <1>2, <2>1 DEF TillInv, ClockInv, DaysBegun
  <1>7. Sound(db)'
    BY <1>2 DEF TillInv, Sound, NumbersInOrder, DaysBegun, CountsCover
  <1> QED BY <1>5, <1>6, <1>7 DEF TillInv

LEMMA AbortKeeps ==
    ASSUME TillInv, TypeOK', NEW h, AbortTxn(h), db' = db, today' = today
    PROVE  TillInv'
  <1>1. DOMAIN run' \subseteq DOMAIN run /\ \A g \in DOMAIN run' : run'[g] = run[g]
    BY DEF AbortTxn
  <1>2. SeenInv'
    BY <1>1 DEF TillInv, SeenInv, Seen
  <1>3. ClockInv'
    BY <1>1 DEF TillInv, ClockInv, DaysBegun
  <1>4. Sound(db)'
    BY DEF TillInv, Sound, NumbersInOrder, DaysBegun, CountsCover
  <1> QED BY <1>2, <1>3, <1>4 DEF TillInv

LEMMA MidnightKeeps ==
    ASSUME TillInv, TypeOK', Midnight
    PROVE  TillInv'
  <1>1. /\ today \in Nat /\ today' = today + 1 /\ db' = db /\ run' = run
        /\ \A h \in DOMAIN run : run[h].day \in Nat
    BY DEF Midnight, TillInv, TypeOK, Days
  <1>2. SeenInv'
    BY <1>1 DEF TillInv, SeenInv, Seen
  <1>3. ClockInv'
    BY <1>1 DEF TillInv, ClockInv, DaysBegun
  <1>4. DaysBegun(db, today)'
    BY <1>1 DEF TillInv, Sound, DaysBegun, Days
  <1>5. Sound(db)'
    BY <1>1, <1>4 DEF TillInv, Sound, NumbersInOrder, CountsCover
  <1> QED BY <1>2, <1>3, <1>5 DEF TillInv

LEMMA InitSound ==
    ASSUME Init PROVE TillInv
  <1>1. TypeOK
    BY InitType
  <1>2. Sound(db)
    BY TillAssumption
    DEF Init, EmptyDb, Sound, NumbersInOrder, DaysBegun, CountsCover, Finalised,
        NoClosing
  <1>3. SeenInv /\ ClockInv
    BY DEF Init, SeenInv, ClockInv
  <1> QED BY <1>1, <1>2, <1>3 DEF TillInv

\* The invariant the other results rest on.
THEOREM TillInvariant == Spec => []TillInv
  <1>1. Init => TillInv
    BY InitSound
  <1>2. TillInv /\ TypeOK' /\ [Next]_vars => TillInv'
    <2> SUFFICES ASSUME TillInv, TypeOK', [Next]_vars PROVE TillInv'
      OBVIOUS
    <2> USE DEF TillInv
    <2>1. ASSUME NEW h \in Handlers, Begin(h) PROVE TillInv'
      BY <2>1, BeginKeeps
    <2>2. ASSUME NEW h \in Handlers, Checkout(h) PROVE TillInv'
      <3>1. PICK t : /\ Commits(h, t, SaleWrites(t), SaleEffect(t))
                     /\ t.op.kind = "sale"
                     /\ SaleAllowed(t)
        BY <2>2, CheckoutStep
      <3>2. Covers(SaleWrites(t), SaleEffect(t)) /\ Sound(SaleEffect(t))
        BY <3>1, SaleCovers, SaleSound DEF Sound
      <3> QED BY <3>1, <3>2, CommitKeeps
    <2>3. ASSUME NEW h \in Handlers, CreateDraft(h) PROVE TillInv'
      <3>1. PICK t : /\ Commits(h, t, DraftWrites(t), DraftEffect(t))
                     /\ t.op.kind = "draft"
                     /\ DraftAllowed(t)
        BY <2>3, CreateDraftStep
      <3>2. Covers(DraftWrites(t), DraftEffect(t)) /\ Sound(DraftEffect(t))
        BY <3>1, DraftCovers, DraftSound DEF Sound
      <3> QED BY <3>1, <3>2, CommitKeeps
    <2>4. ASSUME NEW h \in Handlers, CancelDraft(h) PROVE TillInv'
      <3>1. PICK t : /\ Commits(h, t, CancelWrites(t), CancelEffect(t))
                     /\ t.op.kind = "cancel"
                     /\ CancelAllowed(t)
        BY <2>4, CancelDraftStep
      <3>2. Covers(CancelWrites(t), CancelEffect(t)) /\ Sound(CancelEffect(t))
        BY <3>1, CancelCovers, CancelSound DEF Sound
      <3> QED BY <3>1, <3>2, CommitKeeps
    <2>5. ASSUME NEW h \in Handlers, CollectPayment(h) PROVE TillInv'
      <3>1. PICK t : /\ Commits(h, t, CollectWrites(t), CollectEffect(t))
                     /\ t.op.kind = "collect"
                     /\ CollectAllowed(t)
        BY <2>5, CollectPaymentStep
      <3>2. Covers(CollectWrites(t), CollectEffect(t)) /\ Sound(CollectEffect(t))
        BY <3>1, CollectCovers, CollectSound DEF Sound
      <3> QED BY <3>1, <3>2, CommitKeeps
    <2>6. ASSUME NEW h \in Handlers, VoidInvoice(h) PROVE TillInv'
      <3>1. PICK t : /\ Commits(h, t, VoidWrites(t), VoidEffect(t))
                     /\ t.op.kind = "void"
                     /\ VoidAllowed(t)
        BY <2>6, VoidInvoiceStep
      <3>2. Covers(VoidWrites(t), VoidEffect(t)) /\ Sound(VoidEffect(t))
        BY <3>1, VoidCovers, VoidSound DEF Sound
      <3> QED BY <3>1, <3>2, CommitKeeps
    <2>7. ASSUME NEW h \in Handlers, PayAccount(h) PROVE TillInv'
      <3>1. PICK t : /\ Commits(h, t, AccountWrites(t), AccountEffect(t))
                     /\ t.op.kind = "account"
                     /\ AccountAllowed(t)
        BY <2>7, PayAccountStep
      <3>2. Covers(AccountWrites(t), AccountEffect(t)) /\ Sound(AccountEffect(t))
        BY <3>1, AccountCovers, AccountSound DEF Sound
      <3> QED BY <3>1, <3>2, CommitKeeps
    <2>8. ASSUME NEW h \in Handlers, AdjustStock(h) PROVE TillInv'
      <3>1. PICK t : /\ Commits(h, t, AdjustWrites(t), AdjustEffect(t))
                     /\ t.op.kind = "adjust"
                     /\ AdjustAllowed(t)
        BY <2>8, AdjustStockStep
      <3>2. Covers(AdjustWrites(t), AdjustEffect(t)) /\ Sound(AdjustEffect(t))
        BY <3>1, AdjustCovers, AdjustSound DEF Sound
      <3> QED BY <3>1, <3>2, CommitKeeps
    <2>9. ASSUME NEW h \in Handlers, Closing(h) PROVE TillInv'
      <3>1. PICK t : /\ Commits(h, t, DayWrites(t), DayEffect(t))
                     /\ t.op.kind \in {"open", "submit", "close", "reopen"}
                     /\ DayAllowed(t)
        BY <2>9, ClosingStep
      <3>2. Covers(DayWrites(t), DayEffect(t)) /\ Sound(DayEffect(t))
        BY <3>1, DayCovers, DaySound DEF Sound
      <3> QED BY <3>1, <3>2, CommitKeeps
    <2>10. ASSUME NEW h \in Handlers, ReplayCheckout(h) PROVE TillInv'
      BY <2>10, AbortKeeps DEF ReplayCheckout
    <2>11. ASSUME NEW h \in Handlers, Abandon(h) PROVE TillInv'
      BY <2>11, AbortKeeps DEF Abandon
    <2>12. CASE Midnight
      BY <2>12, MidnightKeeps
    <2>13. CASE UNCHANGED vars
      BY <2>13
      DEF vars, SeenInv, Seen, ClockInv, Sound, NumbersInOrder, DaysBegun, CountsCover
    <2> QED
      BY <2>1, <2>2, <2>3, <2>4, <2>5, <2>6, <2>7, <2>8, <2>9, <2>10, <2>11,
         <2>12, <2>13
      DEF Next, Step
  <1> QED BY <1>1, <1>2, TypeCorrect, PTL DEF Spec

\* No locked collection lands in a day after its count: a submitted or closed
\* day's count is its booked money, plus at most what slipped in unchecked.
THEOREM FinalisedCountsHold == Spec => []FinalisedCountCoversBooked
  <1>1. TillInv => FinalisedCountCoversBooked
    BY DEF TillInv, Sound, CountsCover, FinalisedCountCoversBooked
  <1> QED BY <1>1, TillInvariant, PTL

\* Stock on hand never goes below zero.
THEOREM NeverOversold == Spec => []NoOverselling
  <1>1. TillInv => NoOverselling
    BY DEF TillInv, Sound, NoOverselling
  <1> QED BY <1>1, TillInvariant, PTL

-----------------------------------------------------------------------------
(***************************************************************************)
(* Serialisability of the till, and the closing as a DayBook.              *)
(*                                                                         *)
(* Snapshot transactions alone do not give either: a transaction could     *)
(* commit on a document it read and nobody wrote.  By ReadsCurrent the     *)
(* documents a handler writes cover what its checks and its effect read.   *)
(***************************************************************************)

LEMMA SameRecord ==
    ASSUME NEW d, NEW e, IsRecord(d), IsRecord(e),
           d.closing = e.closing, d.invoice = e.invoice,
           d.lastInvoice = e.lastInvoice, d.outstanding = e.outstanding,
           d.stock = e.stock, d.opkeys = e.opkeys, d.booked = e.booked,
           d.stray = e.stray, d.received = e.received, d.account = e.account
    PROVE  d = e
  BY DEF IsRecord

LEMMA AloneFields ==
    ASSUME NEW t \in Work
    PROVE  /\ Alone(t).op = t.op /\ Alone(t).snap = db
           /\ Alone(t).day = t.day /\ Alone(t).stamp = t.stamp
  BY DEF Alone, Work

LEMMA CommitRuns ==
    ASSUME NEW h, NEW t, NEW W, NEW next, Commits(h, t, W, next)
    PROVE  h \in DOMAIN run /\ t \in Runs(h) /\ db' = next
  BY DEF Commits, CommitTxn, Runs, Work

\* A posting of a balance that is current is a posting of the balance.
LEMMA PostedCurrent ==
    ASSUME NEW cur, NEW snap, NEW c, NEW delta,
           c # NoCustomer => snap[c] = cur[c]
    PROVE  Posted(cur, snap, c, delta) = Posted(cur, cur, c, delta)
  BY DEF Posted

LEMMA SaleAlone ==
    ASSUME TillInv, NEW h, NEW t, Commits(h, t, SaleWrites(t), SaleEffect(t)),
           t.op.kind = "sale", SaleAllowed(t)
    PROVE  SaleAllowed(Alone(t)) /\ SaleEffect(t) = SaleEffect(Alone(t))
  <1> DEFINE s == Alone(t)
             W == SaleWrites(t)
             r == t.op
  <1>1. /\ t \in Work /\ db \in DbType /\ HasFields(db) /\ HasFields(t.snap)
    BY Committed DEF Commits, TypeOK, TillInv
  <1>2. /\ SaleInvoiceId(t) \in Invoices /\ t.stamp \in Days
        /\ r \in SaleRequests
    BY <1>1, SaleType, WorkFields, KindOf
  <1>3. s.op = r /\ s.snap = db /\ s.day = t.day /\ s.stamp = t.stamp
    BY <1>1, AloneFields
  <1>4. /\ t.snap.closing = db.closing
        /\ \A i \in Invoices : t.snap.invoice[i].key = db.invoice[i].key
    <2>1. BranchDoc \in W
      BY DEF SaleWrites
    <2> QED BY <2>1, ReadsCurrent DEF TillInv
  <1>5. t.snap.invoice[SaleInvoiceId(t)] = db.invoice[SaleInvoiceId(t)]
    <2>1. InvoiceDoc(SaleInvoiceId(t)) \in W
      BY DEF SaleWrites
    <2> QED BY <1>2, <2>1, ReadsCurrent DEF TillInv
  <1>6. r.draft = 0 => t.snap.lastInvoice = db.lastInvoice
    <2>1. r.draft = 0 => InvoiceCounter \in W
      BY DEF SaleWrites
    <2> QED BY <2>1, ReadsCurrent DEF TillInv
  <1>7. r.customer # NoCustomer =>
          t.snap.outstanding[r.customer] = db.outstanding[r.customer]
    <2>1. r.customer # NoCustomer =>
             r.customer \in Customers /\ CustomerDoc(r.customer) \in W
      BY <1>2 DEF SaleWrites, LedgerDocs, SaleRequests
    <2> QED BY <2>1, ReadsCurrent DEF TillInv
  <1>8. r.quantity <= db.stock
    <2>1. r.quantity \in Nat /\ db.stock \in Int /\ db.stock >= 0
      BY <1>1, <1>2 DEF SaleRequests, HasFields, TillInv, Sound
    <2>2. r.quantity > 0 => StockDoc \in W
      BY DEF SaleWrites
    <2>3. r.quantity > 0 => t.snap.stock = db.stock
      BY <2>2, ReadsCurrent DEF TillInv
    <2> QED BY <2>1, <2>3 DEF SaleAllowed
  <1> HIDE DEF s, W
  <1>9. SaleInvoiceId(s) = SaleInvoiceId(t)
    BY <1>3, <1>6 DEF SaleInvoiceId
  <1>10. SaleAllowed(s)
    <2>1. ExistingInvoices(s) = {}
      BY <1>3, <1>4 DEF SaleAllowed, ExistingInvoices
    <2>2. r.draft # 0 => db.invoice[r.draft].status = "draft"
      BY <1>5 DEF SaleAllowed, SaleInvoiceId
    <2>3. LockDate(s) = LockDate(t)
      BY <1>3 DEF LockDate
    <2>4. WithinCredit(s)
      BY <1>3, <1>7 DEF SaleAllowed, WithinCredit
    <2> QED BY <1>3, <1>4, <1>6, <1>8, <2>1, <2>2, <2>3, <2>4 DEF SaleAllowed
  <1>11. SaleEffect(t) = SaleEffect(s)
    <2> DEFINE d == SaleEffect(t)
               e == SaleEffect(s)
    <2>1. /\ d.closing = db.closing
          /\ d.invoice = [db.invoice EXCEPT ![SaleInvoiceId(t)] = IssuedInvoice(t.op)]
          /\ d.lastInvoice = IF t.op.draft = 0 THEN SaleInvoiceId(t) ELSE db.lastInvoice
          /\ d.outstanding = Posted(db.outstanding, t.snap.outstanding,
                    t.op.customer, t.op.total - t.op.paid)
          /\ d.stock = db.stock - t.op.quantity
          /\ d.opkeys = db.opkeys
          /\ d.booked = IF ChecksItsDay(t) THEN Plus(db.booked, t.stamp, t.op.paid)
                       ELSE db.booked
          /\ d.stray = IF ChecksItsDay(t) THEN db.stray
                      ELSE Plus(db.stray, t.stamp, t.op.paid)
          /\ d.received = Plus(db.received, SaleInvoiceId(t), t.op.paid)
          /\ d.account = db.account
          /\ IsRecord(d)
      BY <1>1, <1>2, SaleDelta
    <2>2. SaleInvoiceId(s) \in Invoices /\ s.stamp \in Days
      BY <1>2, <1>3, <1>9
    <2>3. /\ e.closing = db.closing
          /\ e.invoice = [db.invoice EXCEPT ![SaleInvoiceId(s)] = IssuedInvoice(s.op)]
          /\ e.lastInvoice = IF s.op.draft = 0 THEN SaleInvoiceId(s) ELSE db.lastInvoice
          /\ e.outstanding = Posted(db.outstanding, s.snap.outstanding,
                    s.op.customer, s.op.total - s.op.paid)
          /\ e.stock = db.stock - s.op.quantity
          /\ e.opkeys = db.opkeys
          /\ e.booked = IF ChecksItsDay(s) THEN Plus(db.booked, s.stamp, s.op.paid)
                       ELSE db.booked
          /\ e.stray = IF ChecksItsDay(s) THEN db.stray
                      ELSE Plus(db.stray, s.stamp, s.op.paid)
          /\ e.received = Plus(db.received, SaleInvoiceId(s), s.op.paid)
          /\ e.account = db.account
          /\ IsRecord(e)
      BY <1>1, <2>2, SaleDelta
    <2> HIDE DEF d, e
    <2>4. ChecksItsDay(s) <=> ChecksItsDay(t)
      BY <1>3 DEF ChecksItsDay, LockDate
    <2>5. Posted(db.outstanding, t.snap.outstanding, r.customer, r.total - r.paid)
            = Posted(db.outstanding, db.outstanding, r.customer, r.total - r.paid)
      BY <1>7, PostedCurrent
    <2>6. /\ d.closing = e.closing /\ d.invoice = e.invoice
          /\ d.lastInvoice = e.lastInvoice /\ d.outstanding = e.outstanding
          /\ d.stock = e.stock /\ d.opkeys = e.opkeys
          /\ d.received = e.received /\ d.account = e.account
      BY <1>3, <1>9, <2>1, <2>3, <2>5
    <2>7. d.booked = e.booked /\ d.stray = e.stray
      BY <1>3, <2>1, <2>3, <2>4
    <2> QED BY <2>1, <2>3, <2>6, <2>7, SameRecord DEF d, e
  <1> QED BY <1>10, <1>11 DEF s

LEMMA CollectAlone ==
    ASSUME TillInv, NEW h, NEW t, Commits(h, t, CollectWrites(t), CollectEffect(t)),
           t.op.kind = "collect", CollectAllowed(t)
    PROVE  CollectAllowed(Alone(t)) /\ CollectEffect(t) = CollectEffect(Alone(t))
  <1> DEFINE s == Alone(t)
             W == CollectWrites(t)
             n == t.op.invoice
             c == t.snap.invoice[n].customer
  <1>1. /\ t \in Work /\ db \in DbType /\ HasFields(db) /\ HasFields(t.snap)
    BY Committed DEF Commits, TypeOK, TillInv
  <1>2. n \in Invoices /\ t.stamp \in Days
    BY <1>1, CollectType, WorkFields
  <1>3. s.op = t.op /\ s.snap = db /\ s.day = t.day /\ s.stamp = t.stamp
    BY <1>1, AloneFields
  <1>4. t.snap.closing = db.closing /\ t.snap.opkeys = db.opkeys
    <2>1. BranchDoc \in W
      BY DEF CollectWrites
    <2> QED BY <2>1, ReadsCurrent DEF TillInv
  <1>5. t.snap.invoice[n] = db.invoice[n] /\ db.invoice[n] \in InvoiceType
    <2>1. InvoiceDoc(n) \in W
      BY DEF CollectWrites
    <2> QED BY <1>1, <1>2, <2>1, ReadsCurrent DEF TillInv, HasFields
  <1>6. c # NoCustomer => t.snap.outstanding[c] = db.outstanding[c]
    <2>1. c \in Customers \cup {NoCustomer}
      BY <1>5 DEF InvoiceType
    <2>2. c # NoCustomer => c \in Customers /\ CustomerDoc(c) \in W
      BY <2>1 DEF CollectWrites, LedgerDocs
    <2> HIDE DEF c
    <2> QED BY <2>2, ReadsCurrent DEF TillInv
  <1> HIDE DEF s
  <1>7. CollectAllowed(s)
    BY <1>3, <1>4, <1>5 DEF CollectAllowed, Replayed
  <1>8. Collected(s) = Collected(t)
    BY <1>3, <1>5 DEF Collected
  <1>9. CollectEffect(t) = CollectEffect(s)
    <2> DEFINE d == CollectEffect(t)
               e == CollectEffect(s)
    <2>1. /\ d.closing = db.closing
          /\ d.invoice = [db.invoice EXCEPT ![n] = Collected(t)]
          /\ d.lastInvoice = db.lastInvoice
          /\ d.outstanding = Posted(db.outstanding, t.snap.outstanding,
                                    c, -t.op.amount)
          /\ d.stock = db.stock
          /\ d.opkeys = db.opkeys \cup {OpKey(t.op)}
          /\ d.booked = Plus(db.booked, t.stamp, t.op.amount)
          /\ d.stray = db.stray
          /\ d.received = Plus(db.received, n, t.op.amount)
          /\ d.account = db.account
          /\ IsRecord(d)
      BY <1>1, <1>2, CollectDelta
    <2>2. s.op.invoice \in Invoices /\ s.stamp \in Days
      BY <1>2, <1>3
    <2>3. /\ e.closing = db.closing
          /\ e.invoice = [db.invoice EXCEPT ![s.op.invoice] = Collected(s)]
          /\ e.lastInvoice = db.lastInvoice
          /\ e.outstanding = Posted(db.outstanding, s.snap.outstanding,
                                    s.snap.invoice[s.op.invoice].customer,
                                    -s.op.amount)
          /\ e.stock = db.stock
          /\ e.opkeys = db.opkeys \cup {OpKey(s.op)}
          /\ e.booked = Plus(db.booked, s.stamp, s.op.amount)
          /\ e.stray = db.stray
          /\ e.received = Plus(db.received, s.op.invoice, s.op.amount)
          /\ e.account = db.account
          /\ IsRecord(e)
      BY <1>1, <2>2, CollectDelta
    <2>4. c = db.invoice[n].customer
      BY <1>5
    <2> HIDE DEF d, e, c
    <2>5. Posted(db.outstanding, t.snap.outstanding, c, -t.op.amount)
            = Posted(db.outstanding, db.outstanding, c, -t.op.amount)
      BY <1>6, PostedCurrent
    <2>6. d.outstanding = e.outstanding
      BY <1>3, <2>1, <2>3, <2>4, <2>5
    <2>7. /\ d.closing = e.closing /\ d.invoice = e.invoice
          /\ d.lastInvoice = e.lastInvoice
          /\ d.stock = e.stock /\ d.opkeys = e.opkeys
          /\ d.booked = e.booked /\ d.stray = e.stray
          /\ d.received = e.received /\ d.account = e.account
      BY <1>3, <1>8, <2>1, <2>3
    <2> QED BY <2>1, <2>3, <2>6, <2>7, SameRecord DEF d, e
  <1> QED BY <1>7, <1>9 DEF s

LEMMA VoidAlone ==
    ASSUME TillInv, NEW h, NEW t, Commits(h, t, VoidWrites(t), VoidEffect(t)),
           t.op.kind = "void", VoidAllowed(t)
    PROVE  VoidAllowed(Alone(t)) /\ VoidEffect(t) = VoidEffect(Alone(t))
  <1> DEFINE s == Alone(t)
             W == VoidWrites(t)
             n == t.op.invoice
             c == CreditedTo(t.snap.invoice[n])
  <1>1. /\ t \in Work /\ db \in DbType /\ HasFields(db) /\ HasFields(t.snap)
    BY Committed DEF Commits, TypeOK, TillInv
  <1>2. n \in Invoices
    BY <1>1, VoidType
  <1>3. s.op = t.op /\ s.snap = db /\ s.day = t.day
    BY <1>1, AloneFields
  <1>4. t.snap.closing = db.closing /\ t.snap.opkeys = db.opkeys
    <2>1. BranchDoc \in W
      BY DEF VoidWrites
    <2> QED BY <2>1, ReadsCurrent DEF TillInv
  <1>5. t.snap.invoice[n] = db.invoice[n] /\ db.invoice[n] \in InvoiceType
    <2>1. InvoiceDoc(n) \in W
      BY DEF VoidWrites
    <2> QED BY <1>1, <1>2, <2>1, ReadsCurrent DEF TillInv, HasFields
  <1>6. c # NoCustomer => t.snap.outstanding[c] = db.outstanding[c]
    <2>1. c \in Customers \cup {NoCustomer}
      BY <1>5 DEF InvoiceType, CreditedTo
    <2>2. c # NoCustomer => c \in Customers /\ CustomerDoc(c) \in W
      BY <2>1 DEF VoidWrites, LedgerDocs
    <2> HIDE DEF c
    <2> QED BY <2>2, ReadsCurrent DEF TillInv
  <1> HIDE DEF s
  <1>7. VoidAllowed(s)
    BY <1>3, <1>4, <1>5 DEF VoidAllowed, Replayed
  <1>8. Voided(s) = Voided(t)
    BY <1>3, <1>5 DEF Voided
  <1>9. VoidEffect(t) = VoidEffect(s)
    <2> DEFINE d == VoidEffect(t)
               e == VoidEffect(s)
    <2>1. /\ d.closing = db.closing
          /\ d.invoice = [db.invoice EXCEPT ![n] = Voided(t)]
          /\ d.lastInvoice = db.lastInvoice
          /\ d.outstanding = Posted(db.outstanding, t.snap.outstanding, c,
                                    -t.snap.invoice[n].due)
          /\ d.stock = db.stock
          /\ d.opkeys = db.opkeys \cup {OpKey(t.op)}
          /\ d.booked = db.booked
          /\ d.stray = db.stray
          /\ d.received = db.received
          /\ d.account = db.account
          /\ IsRecord(d)
      BY <1>1, <1>2, VoidDelta
    <2>2. s.op.invoice \in Invoices
      BY <1>2, <1>3
    <2>3. /\ e.closing = db.closing
          /\ e.invoice = [db.invoice EXCEPT ![s.op.invoice] = Voided(s)]
          /\ e.lastInvoice = db.lastInvoice
          /\ e.outstanding = Posted(db.outstanding, s.snap.outstanding,
                                    CreditedTo(s.snap.invoice[s.op.invoice]),
                                    -s.snap.invoice[s.op.invoice].due)
          /\ e.stock = db.stock
          /\ e.opkeys = db.opkeys \cup {OpKey(s.op)}
          /\ e.booked = db.booked
          /\ e.stray = db.stray
          /\ e.received = db.received
          /\ e.account = db.account
          /\ IsRecord(e)
      BY <1>1, <2>2, VoidDelta
    <2>4. c = CreditedTo(db.invoice[n]) /\ t.snap.invoice[n].due = db.invoice[n].due
      BY <1>5
    <2> HIDE DEF d, e, c
    <2>5. Posted(db.outstanding, t.snap.outstanding, c, -db.invoice[n].due)
            = Posted(db.outstanding, db.outstanding, c, -db.invoice[n].due)
      BY <1>6, PostedCurrent
    <2>6. d.outstanding = e.outstanding
      BY <1>3, <2>1, <2>3, <2>4, <2>5
    <2>7. /\ d.closing = e.closing /\ d.invoice = e.invoice
          /\ d.lastInvoice = e.lastInvoice
          /\ d.stock = e.stock /\ d.opkeys = e.opkeys
          /\ d.booked = e.booked /\ d.stray = e.stray
          /\ d.received = e.received /\ d.account = e.account
      BY <1>3, <1>8, <2>1, <2>3
    <2> QED BY <2>1, <2>3, <2>6, <2>7, SameRecord DEF d, e
  <1> QED BY <1>7, <1>9 DEF s

LEMMA DraftAlone ==
    ASSUME TillInv, NEW h, NEW t, Commits(h, t, DraftWrites(t), DraftEffect(t)),
           DraftAllowed(t)
    PROVE  DraftAllowed(Alone(t)) /\ DraftEffect(t) = DraftEffect(Alone(t))
  <1>1. t.snap.lastInvoice = db.lastInvoice
    <2>1. InvoiceCounter \in DraftWrites(t)
      BY DEF DraftWrites
    <2> QED BY <2>1, ReadsCurrent DEF TillInv
  <1>2. Alone(t).snap = db
    BY AloneFields DEF Commits
  <1> QED BY <1>1, <1>2 DEF DraftAllowed, DraftEffect

LEMMA CancelAlone ==
    ASSUME TillInv, NEW h, NEW t, Commits(h, t, CancelWrites(t), CancelEffect(t)),
           t.op.kind = "cancel", CancelAllowed(t)
    PROVE  CancelAllowed(Alone(t)) /\ CancelEffect(t) = CancelEffect(Alone(t))
  <1>1. t.op.invoice \in Invoices
    BY CancelType DEF Commits, TillInv, TypeOK
  <1>2. t.snap.invoice[t.op.invoice] = db.invoice[t.op.invoice]
    <2>1. InvoiceDoc(t.op.invoice) \in CancelWrites(t)
      BY DEF CancelWrites
    <2> QED BY <1>1, <2>1, ReadsCurrent DEF TillInv
  <1>3. Alone(t).snap = db /\ Alone(t).op = t.op
    BY AloneFields DEF Commits
  <1> QED BY <1>2, <1>3 DEF CancelAllowed, CancelEffect

LEMMA AccountAlone ==
    ASSUME TillInv, NEW h, NEW t, Commits(h, t, AccountWrites(t), AccountEffect(t)),
           t.op.kind = "account"
    PROVE  AccountAllowed(Alone(t)) /\ AccountEffect(t) = AccountEffect(Alone(t))
  <1> DEFINE c == t.op.customer
  <1>1. c \in Customers /\ t \in Work
    BY AccountType DEF Commits, TillInv, TypeOK
  <1>2. t.snap.outstanding[c] = db.outstanding[c]
    <2>1. CustomerDoc(c) \in AccountWrites(t)
      BY <1>1, TillAssumption DEF AccountWrites, LedgerDocs
    <2> QED BY <1>1, <2>1, ReadsCurrent DEF TillInv
  <1>3. Alone(t).snap = db /\ Alone(t).op = t.op /\ Alone(t).stamp = t.stamp
    BY <1>1, AloneFields
  <1>4. Posted(db.outstanding, t.snap.outstanding, c, -t.op.amount)
          = Posted(db.outstanding, db.outstanding, c, -t.op.amount)
    BY <1>2, PostedCurrent
  <1>5. AccountEffect(t) = AccountEffect(Alone(t))
    BY <1>3, <1>4 DEF AccountEffect
  <1> QED BY <1>5 DEF AccountAllowed

LEMMA AdjustAlone ==
    ASSUME TillInv, NEW h, NEW t, Commits(h, t, AdjustWrites(t), AdjustEffect(t)),
           AdjustAllowed(t)
    PROVE  AdjustAllowed(Alone(t)) /\ AdjustEffect(t) = AdjustEffect(Alone(t))
  <1>1. t.snap.stock = db.stock
    <2>1. StockDoc \in AdjustWrites(t)
      BY DEF AdjustWrites
    <2> QED BY <2>1, ReadsCurrent DEF TillInv
  <1>2. Alone(t).snap = db /\ Alone(t).op = t.op
    BY AloneFields DEF Commits
  <1> QED BY <1>1, <1>2 DEF AdjustAllowed, AdjustEffect

LEMMA DayAlone ==
    ASSUME TillInv, NEW h, NEW t, Commits(h, t, DayWrites(t), DayEffect(t)),
           DayAllowed(t)
    PROVE  DayAllowed(Alone(t))
  <1>1. t.snap.closing = db.closing
    <2>1. BranchDoc \in DayWrites(t)
      BY DEF DayWrites
    <2> QED BY <2>1, ReadsCurrent DEF TillInv
  <1>2. Alone(t).snap = db /\ Alone(t).op = t.op /\ Alone(t).day = t.day
    BY AloneFields DEF Commits
  <1> QED BY <1>1, <1>2 DEF DayAllowed

\* Every commit does what its handler would have done alone, on the database
\* as it is at that moment: the documents the handlers write are enough to
\* protect the ones they only read.
THEOREM Serialisable == Spec => CommitsAreSerial
  <1>1. TillInv /\ [Next]_vars => [\A h \in DOMAIN run : SerialStep(h)]_vars
    <2> SUFFICES ASSUME TillInv, NEW h \in DOMAIN run
                 PROVE  SerialStep(h)
      OBVIOUS
    <2>0. TypeOK
      BY DEF TillInv
    <2>1. ASSUME Checkout(h) PROVE Serial(h, SaleAllowed, SaleEffect)
      <3>1. PICK t : /\ Commits(h, t, SaleWrites(t), SaleEffect(t))
                     /\ t.op.kind = "sale"
                     /\ SaleAllowed(t)
        BY <2>0, <2>1, CheckoutStep
      <3>2. SaleAllowed(Alone(t)) /\ SaleEffect(t) = SaleEffect(Alone(t))
        BY <3>1, SaleAlone
      <3> QED BY <3>1, <3>2, CommitRuns DEF Serial
    <2>2. ASSUME CollectPayment(h) PROVE Serial(h, CollectAllowed, CollectEffect)
      <3>1. PICK t : /\ Commits(h, t, CollectWrites(t), CollectEffect(t))
                     /\ t.op.kind = "collect"
                     /\ CollectAllowed(t)
        BY <2>0, <2>2, CollectPaymentStep
      <3>2. CollectAllowed(Alone(t)) /\ CollectEffect(t) = CollectEffect(Alone(t))
        BY <3>1, CollectAlone
      <3> QED BY <3>1, <3>2, CommitRuns DEF Serial
    <2>3. ASSUME VoidInvoice(h) PROVE Serial(h, VoidAllowed, VoidEffect)
      <3>1. PICK t : /\ Commits(h, t, VoidWrites(t), VoidEffect(t))
                     /\ t.op.kind = "void"
                     /\ VoidAllowed(t)
        BY <2>0, <2>3, VoidInvoiceStep
      <3>2. VoidAllowed(Alone(t)) /\ VoidEffect(t) = VoidEffect(Alone(t))
        BY <3>1, VoidAlone
      <3> QED BY <3>1, <3>2, CommitRuns DEF Serial
    <2>4. ASSUME CreateDraft(h) PROVE Serial(h, DraftAllowed, DraftEffect)
      <3>1. PICK t : /\ Commits(h, t, DraftWrites(t), DraftEffect(t))
                     /\ t.op.kind = "draft"
                     /\ DraftAllowed(t)
        BY <2>0, <2>4, CreateDraftStep
      <3>2. DraftAllowed(Alone(t)) /\ DraftEffect(t) = DraftEffect(Alone(t))
        BY <3>1, DraftAlone
      <3> QED BY <3>1, <3>2, CommitRuns DEF Serial
    <2>5. ASSUME CancelDraft(h) PROVE Serial(h, CancelAllowed, CancelEffect)
      <3>1. PICK t : /\ Commits(h, t, CancelWrites(t), CancelEffect(t))
                     /\ t.op.kind = "cancel"
                     /\ CancelAllowed(t)
        BY <2>0, <2>5, CancelDraftStep
      <3>2. CancelAllowed(Alone(t)) /\ CancelEffect(t) = CancelEffect(Alone(t))
        BY <3>1, CancelAlone
      <3> QED BY <3>1, <3>2, CommitRuns DEF Serial
    <2>6. ASSUME PayAccount(h) PROVE Serial(h, AccountAllowed, AccountEffect)
      <3>1. PICK t : /\ Commits(h, t, AccountWrites(t), AccountEffect(t))
                     /\ t.op.kind = "account"
                     /\ AccountAllowed(t)
        BY <2>0, <2>6, PayAccountStep
      <3>2. AccountAllowed(Alone(t)) /\ AccountEffect(t) = AccountEffect(Alone(t))
        BY <3>1, AccountAlone
      <3> QED BY <3>1, <3>2, CommitRuns DEF Serial
    <2>7. ASSUME AdjustStock(h) PROVE Serial(h, AdjustAllowed, AdjustEffect)
      <3>1. PICK t : /\ Commits(h, t, AdjustWrites(t), AdjustEffect(t))
                     /\ t.op.kind = "adjust"
                     /\ AdjustAllowed(t)
        BY <2>0, <2>7, AdjustStockStep
      <3>2. AdjustAllowed(Alone(t)) /\ AdjustEffect(t) = AdjustEffect(Alone(t))
        BY <3>1, AdjustAlone
      <3> QED BY <3>1, <3>2, CommitRuns DEF Serial
    <2>8. ASSUME Closing(h) PROVE \E t \in Runs(h) : DayAllowed(Alone(t))
      <3>1. PICK t : Commits(h, t, DayWrites(t), DayEffect(t)) /\ DayAllowed(t)
        BY <2>0, <2>8, ClosingStep
      <3> QED BY <3>1, DayAlone, CommitRuns
    <2> QED BY <2>1, <2>2, <2>3, <2>4, <2>5, <2>6, <2>7, <2>8 DEF SerialStep
  <1> QED BY <1>1, TillInvariant, PTL DEF Spec, CommitsAreSerial

-----------------------------------------------------------------------------
(* The closing implements the DayBook.                                     *)

LEMMA PlusGrows ==
    ASSUME NEW f \in [Days -> Nat], NEW d \in Days, NEW n \in Nat
    PROVE  Book!Grows(f, Plus(f, d, n), d)
  BY DEF Book!Grows, Plus

\* A commit that books money into a day that is not finalised.
LEMMA BooksMoney ==
    ASSUME TillInv, NEW h, NEW t, NEW W, NEW next, Commits(h, t, W, next),
           ~Finalised(db.closing[t.stamp]), NEW n \in Nat,
           next.closing = db.closing, next.stray = db.stray,
           next.booked = Plus(db.booked, t.stamp, n)
    PROVE  Book!Next
  <1>1. /\ t.stamp \in Days /\ t.stamp <= today /\ today' = today
        /\ db' = next /\ HasFields(db)
    BY Committed DEF TillInv
  <1>2. Book!Collect(t.stamp)
    BY <1>1, PlusGrows DEF Book!Collect, Book!Settled, Finalised, HasFields
  <1> QED BY <1>1, <1>2 DEF Book!Next, Book!BookDays, Days

LEMMA StraysMoney ==
    ASSUME TillInv, NEW h, NEW t, NEW W, NEW next, Commits(h, t, W, next),
           NEW n \in Nat,
           next.closing = db.closing, next.booked = db.booked,
           next.stray = Plus(db.stray, t.stamp, n)
    PROVE  Book!Next
  <1>1. /\ t.stamp \in Days /\ t.stamp <= today /\ today' = today
        /\ db' = next /\ HasFields(db)
    BY Committed DEF TillInv
  <1>2. Book!CollectUnchecked(t.stamp)
    BY <1>1, PlusGrows DEF Book!CollectUnchecked, HasFields
  <1> QED BY <1>1, <1>2 DEF Book!Next, Book!BookDays, Days

LEMMA ClosingStepsBook ==
    ASSUME TillInv, NEW h, NEW t, Commits(h, t, DayWrites(t), DayEffect(t)),
           t.op.kind \in {"open", "submit", "close", "reopen"}, DayAllowed(t)
    PROVE  Book!Next
  <1> DEFINE e == t.op.date
  <1>0. t \in Work /\ db \in DbType /\ TypeOK
    BY DEF Commits, TypeOK, TillInv
  <1>1. /\ HasFields(db) /\ HasFields(t.snap)
        /\ db' = DayEffect(t) /\ today' = today
        /\ t.day <= t.stamp /\ t.stamp <= today
        /\ t.day \in Days /\ t.stamp \in Days
    BY <1>0, Committed
  <1>2. e \in Days
    BY <1>0, DayType
  <1>3. /\ db'.closing = [db.closing EXCEPT ![e] = DayRecord(t)]
        /\ db'.booked = db.booked
        /\ db'.stray = db.stray
    BY <1>0, <1>1, <1>2, DayDelta
  <1>4. t.snap.closing = db.closing /\ t.snap.booked = db.booked
    <2>1. BranchDoc \in DayWrites(t)
      BY DEF DayWrites
    <2> QED BY <2>1, ReadsCurrent DEF TillInv
  <1>5. \/ Book!Open(e) \/ Book!Submit(e) \/ Book!Close(e) \/ Book!Reopen(e)
    <2>1. CASE t.op.kind = "open"
      <3>1. e <= today
        <4>1. e = t.day
          BY <2>1 DEF DayAllowed
        <4> QED BY <1>1, <4>1 DEF TillInv, TypeOK, Days
      <3> QED BY <1>1, <1>3, <1>4, <2>1, <3>1 DEF DayAllowed, DayRecord, Book!Open
    <2>2. CASE t.op.kind = "submit"
      <3>1. t.snap.stray[e] \in 0..db.stray[e]
        <4>1. t.snap.stray[e] \in Nat /\ db.stray[e] \in Nat
          BY <1>1, <1>2 DEF HasFields
        <4>2. t.snap.stray[e] <= db.stray[e]
          BY <1>2, ReadsCurrent DEF TillInv
        <4> QED BY <4>1, <4>2
      <3>2. DayRecord(t) = [status |-> "submitted",
                            count |-> db.booked[e] + t.snap.stray[e]]
        BY <1>4, <2>2 DEF DayRecord
      <3>3. db.closing[e].status \in {"open", "reopened"}
        BY <1>4, <2>2 DEF DayAllowed
      <3> QED BY <1>1, <1>3, <3>1, <3>2, <3>3 DEF Book!Submit
    <2>3. CASE t.op.kind = "close"
      <3>1. DayRecord(t) = [db.closing[e] EXCEPT !.status = "closed"]
        BY <1>4, <2>3 DEF DayRecord
      <3>2. db.closing[e].status = "submitted"
        BY <1>4, <2>3 DEF DayAllowed
      <3> QED BY <1>1, <1>3, <3>1, <3>2 DEF Book!Close
    <2>4. CASE t.op.kind = "reopen"
      <3>1. DayRecord(t) = [db.closing[e] EXCEPT !.status = "reopened"]
        BY <1>4, <2>4 DEF DayRecord
      <3>2. Finalised(db.closing[e])
        BY <1>4, <2>4 DEF DayAllowed
      <3> QED BY <1>1, <1>3, <3>1, <3>2 DEF Book!Reopen, Book!Settled, Finalised
    <2> QED BY <2>1, <2>2, <2>3, <2>4
  <1> QED BY <1>2, <1>5 DEF Book!Next, Book!BookDays, Days

\* The closings, counts and collections of the till behave as a DayBook:
\* locked money only enters a day that is not finalised, and a count is taken
\* of all of it.
THEOREM ImplementsDayBook == Spec => DayBookSpec
  <1>1. Init => Book!Init
    BY DEF Init, EmptyDb, NoClosing, Days, Book!Init, Book!BookDays
  <1>2. TillInv /\ [Next]_vars => [Book!Next]_(Book!bookVars)
    <2> SUFFICES ASSUME TillInv, [Next]_vars
                 PROVE  Book!Next \/ UNCHANGED Book!bookVars
      OBVIOUS
    <2>0. TypeOK /\ db \in DbType
      BY DEF TillInv, TypeOK
    <2>1. ASSUME NEW h \in Handlers, Checkout(h) PROVE Book!Next
      <3>1. PICK t : /\ Commits(h, t, SaleWrites(t), SaleEffect(t))
                     /\ t.op.kind = "sale"
                     /\ SaleAllowed(t)
        BY <2>0, <2>1, CheckoutStep
      <3> DEFINE d == SaleEffect(t)
      <3>2. /\ t \in Work /\ SaleInvoiceId(t) \in Invoices
            /\ t.stamp \in Days /\ t.op.paid \in Nat
        BY <2>0, <3>1, SaleType, WorkFields, KindOf DEF Commits, SaleRequests
      <3>3. /\ d.closing = db.closing
            /\ d.booked = IF ChecksItsDay(t) THEN Plus(db.booked, t.stamp, t.op.paid)
                          ELSE db.booked
            /\ d.stray = IF ChecksItsDay(t) THEN db.stray
                         ELSE Plus(db.stray, t.stamp, t.op.paid)
        BY <2>0, <3>2, SaleDelta
      <3> HIDE DEF d
      <3>4. CASE ChecksItsDay(t)
        <4>1. ~Finalised(t.snap.closing[t.day])
          BY <3>1, <3>4 DEF SaleAllowed, ChecksItsDay
        <4>2. BranchDoc \in SaleWrites(t)
          BY DEF SaleWrites
        <4>3. ~Finalised(db.closing[t.stamp])
          BY <3>1, <4>1, <4>2, DayStillOpen
        <4> QED BY <3>1, <3>2, <3>3, <3>4, <4>3, BooksMoney DEF d
      <3>5. CASE ~ChecksItsDay(t)
        BY <3>1, <3>2, <3>3, <3>5, StraysMoney DEF d
      <3> QED BY <3>4, <3>5
    <2>2. ASSUME NEW h \in Handlers, CollectPayment(h) PROVE Book!Next
      <3>1. PICK t : /\ Commits(h, t, CollectWrites(t), CollectEffect(t))
                     /\ t.op.kind = "collect"
                     /\ CollectAllowed(t)
        BY <2>0, <2>2, CollectPaymentStep
      <3> DEFINE d == CollectEffect(t)
      <3>2. /\ t \in Work /\ t.op.invoice \in Invoices
            /\ t.stamp \in Days /\ t.op.amount \in Nat
        BY <2>0, <3>1, WorkFields, KindOf DEF Commits, CollectRequests
      <3>3. /\ d.closing = db.closing
            /\ d.booked = Plus(db.booked, t.stamp, t.op.amount)
            /\ d.stray = db.stray
        BY <2>0, <3>2, CollectDelta
      <3> HIDE DEF d
      <3>4. BranchDoc \in CollectWrites(t)
        BY DEF CollectWrites
      <3>5. ~Finalised(db.closing[t.stamp])
        BY <3>1, <3>4, DayStillOpen DEF CollectAllowed
      <3> QED BY <3>1, <3>2, <3>3, <3>5, BooksMoney DEF d
    <2>3. ASSUME NEW h \in Handlers, PayAccount(h) PROVE Book!Next
      <3>1. PICK t : /\ Commits(h, t, AccountWrites(t), AccountEffect(t))
                     /\ t.op.kind = "account"
        BY <2>0, <2>3, PayAccountStep
      <3> DEFINE d == AccountEffect(t)
      <3>2. /\ t \in Work /\ t.op.customer \in Customers
            /\ t.stamp \in Days /\ t.op.amount \in Nat
        BY <2>0, <3>1, WorkFields, KindOf DEF Commits, AccountRequests
      <3>3. /\ d.closing = db.closing
            /\ d.booked = db.booked
            /\ d.stray = Plus(db.stray, t.stamp, t.op.amount)
        BY <2>0, <3>2, AccountDelta
      <3> HIDE DEF d
      <3> QED BY <3>1, <3>2, <3>3, StraysMoney DEF d
    <2>4. ASSUME NEW h \in Handlers, Closing(h) PROVE Book!Next
      BY <2>0, <2>4, ClosingStep, ClosingStepsBook
    <2>5. ASSUME NEW h \in Handlers, CreateDraft(h) PROVE UNCHANGED Book!bookVars
      <3>1. PICK t : /\ Commits(h, t, DraftWrites(t), DraftEffect(t))
                     /\ DraftAllowed(t)
        BY <2>0, <2>5, CreateDraftStep
      <3>2. t.snap.lastInvoice + 1 \in Invoices
        BY <2>0, <3>1, DraftType DEF Commits
      <3> QED BY <2>0, <3>1, <3>2, DraftDelta DEF Commits, CommitTxn, Book!bookVars
    <2>6. ASSUME NEW h \in Handlers, CancelDraft(h) PROVE UNCHANGED Book!bookVars
      <3>1. PICK t : /\ Commits(h, t, CancelWrites(t), CancelEffect(t))
                     /\ t.op.kind = "cancel"
        BY <2>0, <2>6, CancelDraftStep
      <3>2. t.op.invoice \in Invoices
        <4>1. t \in Work
          BY <3>1 DEF Commits
        <4> QED BY <2>0, <3>1, <4>1, CancelType
      <3>3. db' = CancelEffect(t) /\ today' = today
        BY <3>1 DEF Commits, CommitTxn
      <3>4. /\ db'.closing = db.closing /\ db'.booked = db.booked
            /\ db'.stray = db.stray
        BY <2>0, <3>2, <3>3, CancelDelta
      <3> QED BY <3>3, <3>4 DEF Book!bookVars
    <2>7. ASSUME NEW h \in Handlers, VoidInvoice(h) PROVE UNCHANGED Book!bookVars
      <3>1. PICK t : /\ Commits(h, t, VoidWrites(t), VoidEffect(t))
                     /\ t.op.kind = "void"
        BY <2>0, <2>7, VoidInvoiceStep
      <3>2. t.op.invoice \in Invoices
        BY <2>0, <3>1, VoidType DEF Commits
      <3> QED BY <2>0, <3>1, <3>2, VoidDelta DEF Commits, CommitTxn, Book!bookVars
    <2>8. ASSUME NEW h \in Handlers, AdjustStock(h) PROVE UNCHANGED Book!bookVars
      <3>1. PICK t : Commits(h, t, AdjustWrites(t), AdjustEffect(t))
        BY <2>0, <2>8, AdjustStockStep
      <3> QED BY <2>0, <3>1, AdjustDelta DEF Commits, CommitTxn, Book!bookVars
    <2>9. CASE Midnight
      BY <2>9 DEF Midnight, Book!Midnight, Book!Next
    <2>10. ASSUME NEW h \in Handlers, Begin(h) \/ ReplayCheckout(h) \/ Abandon(h)
           PROVE  UNCHANGED Book!bookVars
      BY <2>10 DEF Begin, ReplayCheckout, Abandon, Book!bookVars
    <2>11. CASE UNCHANGED vars
      BY <2>11 DEF vars, Book!bookVars
    <2> QED
      BY <2>1, <2>2, <2>3, <2>4, <2>5, <2>6, <2>7, <2>8, <2>9, <2>10, <2>11
      DEF Next, Step
  <1> QED BY <1>1, <1>2, TillInvariant, PTL DEF Spec, DayBookSpec, Book!Spec

-----------------------------------------------------------------------------
(***************************************************************************)
(* Invoices, credit and request keys.  The till is serialisable: what a    *)
(* handler commits is what it does alone on the current database.  The     *)
(* ...Run lemmas restate every commit in these terms, and the proofs below *)
(* them need not look at transactions again.                               *)
(***************************************************************************)
\* The other transactions keep their snapshots.
SnapsStay ==
    /\ DOMAIN run' \subseteq DOMAIN run
    /\ \A g \in DOMAIN run' : run'[g].snap = run[g].snap

\* The commit of h, told as a step t of one handler alone.
Solo(h, t) ==
    /\ t \in Work /\ t.snap = db /\ t.op = run[h].op
    /\ db \in DbType /\ HasFields(db) /\ Sound(db)
    /\ applied \in [Requests -> Nat]
    /\ applied' = [applied EXCEPT ![t.op] = IF Posting(t.op) THEN @ + 1 ELSE @]
    /\ SnapsStay

LEMMA CommitSnaps ==
    ASSUME TypeOK, NEW h, NEW t, NEW W, NEW next, Commits(h, t, W, next)
    PROVE  SnapsStay
  <1>1. /\ DOMAIN run' = DOMAIN run \ {h}
        /\ \A g \in DOMAIN run' :
              run'[g] = [run[g] EXCEPT !.missed = run[g].missed \cup W]
    BY DEF CommitTxn, EndTxn, Commits
  <1>2. ASSUME NEW g \in DOMAIN run' PROVE run'[g].snap = run[g].snap
    <2>1. run[g] \in Txn
      BY <1>1 DEF TypeOK, Txn
    <2> QED BY <1>1, <2>1 DEF Txn
  <1> QED BY <1>1, <1>2 DEF SnapsStay

LEMMA CommitSolo ==
    ASSUME TillInv, NEW h, NEW t, NEW W, NEW next, Commits(h, t, W, next)
    PROVE  /\ Solo(h, Alone(t)) /\ db' = next
           /\ Alone(t).op = t.op
  <1>1. t \in Work /\ db \in DbType /\ HasFields(db)
    BY Committed DEF Commits, TillInv, TypeOK
  <1>2. Alone(t) \in Work
    BY <1>1 DEF Alone, Work
  <1>3. Alone(t).op = t.op /\ Alone(t).snap = db
    BY <1>1, AloneFields
  <1>4. SnapsStay
    BY CommitSnaps DEF TillInv
  <1> QED BY <1>1, <1>2, <1>3, <1>4 DEF Solo, Commits, CommitTxn, TillInv, TypeOK

LEMMA SaleRun ==
    ASSUME TillInv, NEW h, Checkout(h)
    PROVE  \E t : /\ Solo(h, t) /\ t.op.kind = "sale" /\ SaleAllowed(t)
                  /\ db' = SaleEffect(t)
                  /\ replies' = replies \cup {<<t.op.id, SaleInvoiceId(t)>>}
  <1>1. PICK t : /\ Commits(h, t, SaleWrites(t), SaleEffect(t))
                 /\ t.op.kind = "sale"
                 /\ SaleAllowed(t)
    BY CheckoutStep DEF TillInv
  <1>2. /\ Solo(h, Alone(t)) /\ db' = SaleEffect(Alone(t))
        /\ Alone(t).op = t.op /\ SaleAllowed(Alone(t))
    BY <1>1, CommitSolo, SaleAlone
  <1>3. SaleInvoiceId(run[h]) = SaleInvoiceId(Alone(t))
    <2>1. run[h].op = t.op /\ run[h].snap = t.snap
      BY <1>1 DEF Commits
    <2>2. CASE t.op.draft = 0
      <3>1. InvoiceCounter \in SaleWrites(t)
        BY <2>2 DEF SaleWrites
      <3>2. t.snap.lastInvoice = db.lastInvoice
        BY <1>1, <3>1, ReadsCurrent DEF TillInv
      <3> QED BY <1>2, <2>1, <3>2 DEF SaleInvoiceId, Solo
    <2>3. CASE t.op.draft # 0
      BY <1>2, <2>1, <2>3 DEF SaleInvoiceId
    <2> QED BY <2>2, <2>3
  <1>4. run[h].op = t.op
    BY <1>1 DEF Commits
  <1> QED BY <1>1, <1>2, <1>3, <1>4 DEF Checkout

LEMMA CollectRun ==
    ASSUME TillInv, NEW h, CollectPayment(h)
    PROVE  \E t : /\ Solo(h, t) /\ t.op.kind = "collect" /\ CollectAllowed(t)
                  /\ db' = CollectEffect(t) /\ replies' = replies
  <1>1. PICK t : /\ Commits(h, t, CollectWrites(t), CollectEffect(t))
                 /\ t.op.kind = "collect"
                 /\ CollectAllowed(t)
    BY CollectPaymentStep DEF TillInv
  <1> QED BY <1>1, CommitSolo, CollectAlone DEF CollectPayment

LEMMA VoidRun ==
    ASSUME TillInv, NEW h, VoidInvoice(h)
    PROVE  \E t : /\ Solo(h, t) /\ t.op.kind = "void" /\ VoidAllowed(t)
                  /\ db' = VoidEffect(t) /\ replies' = replies
  <1>1. PICK t : /\ Commits(h, t, VoidWrites(t), VoidEffect(t))
                 /\ t.op.kind = "void"
                 /\ VoidAllowed(t)
    BY VoidInvoiceStep DEF TillInv
  <1> QED BY <1>1, CommitSolo, VoidAlone DEF VoidInvoice

LEMMA DraftRun ==
    ASSUME TillInv, NEW h, CreateDraft(h)
    PROVE  \E t : /\ Solo(h, t) /\ t.op.kind = "draft" /\ DraftAllowed(t)
                  /\ db' = DraftEffect(t) /\ replies' = replies
  <1>1. PICK t : /\ Commits(h, t, DraftWrites(t), DraftEffect(t))
                 /\ t.op.kind = "draft"
                 /\ DraftAllowed(t)
    BY CreateDraftStep DEF TillInv
  <1> QED BY <1>1, CommitSolo, DraftAlone DEF CreateDraft

LEMMA CancelRun ==
    ASSUME TillInv, NEW h, CancelDraft(h)
    PROVE  \E t : /\ Solo(h, t) /\ t.op.kind = "cancel" /\ CancelAllowed(t)
                  /\ db' = CancelEffect(t) /\ replies' = replies
  <1>1. PICK t : /\ Commits(h, t, CancelWrites(t), CancelEffect(t))
                 /\ t.op.kind = "cancel"
                 /\ CancelAllowed(t)
    BY CancelDraftStep DEF TillInv
  <1> QED BY <1>1, CommitSolo, CancelAlone DEF CancelDraft

LEMMA AccountRun ==
    ASSUME TillInv, NEW h, PayAccount(h)
    PROVE  \E t : /\ Solo(h, t) /\ t.op.kind = "account"
                  /\ db' = AccountEffect(t) /\ replies' = replies
  <1>1. PICK t : /\ Commits(h, t, AccountWrites(t), AccountEffect(t))
                 /\ t.op.kind = "account"
                 /\ AccountAllowed(t)
    BY PayAccountStep DEF TillInv
  <1> QED BY <1>1, CommitSolo, AccountAlone DEF PayAccount

-----------------------------------------------------------------------------
(***************************************************************************)
(* The invariant.  A draft, unlike an issued invoice, has taken no money   *)
(* and no key, so that issuing it starts the sums from zero.               *)
(***************************************************************************)
SumsRight(invoice, received) ==
    /\ invoice.paid = received
    /\ Issued(invoice) =>
         /\ invoice.paid + invoice.due = invoice.total
         /\ invoice.status = "paid" <=> invoice.due = 0
         /\ invoice.status = "credit" <=> invoice.paid = 0
    /\ invoice.status \in {"none", "draft", "cancelled"} => invoice.due = 0
    /\ invoice.status \in {"none", "draft"} => invoice.paid = 0

BooksInv ==
    /\ \A i \in Invoices : SumsRight(db.invoice[i], db.received[i])
    /\ \A c \in Customers : db.outstanding[c] <= CreditLimit

\* A posting with the balance that is current changes the customer's only.
LEMMA PostedBalance ==
    ASSUME NEW bal \in [Customers -> Int], NEW c, NEW delta, NEW x \in Customers
    PROVE  Posted(bal, bal, c, delta)[x] =
              IF c # NoCustomer /\ x = c THEN bal[x] + delta ELSE bal[x]
  BY TillAssumption DEF Posted

\* The invoice a checkout issues is new or a draft.
LEMMA NewOrDraft ==
    ASSUME NEW h, NEW t, Solo(h, t), SaleAllowed(t), SaleInvoiceId(t) \in Invoices
    PROVE  db.invoice[SaleInvoiceId(t)].status \in {"none", "draft"}
  <1> DEFINE n == SaleInvoiceId(t)
  <1>1. HasFields(db) /\ t.snap = db
    BY DEF Solo
  <1>2. CASE t.op.draft = 0
    <2>1. n = db.lastInvoice + 1 /\ db.lastInvoice \in Nat
      BY <1>1, <1>2, TillAssumption DEF SaleInvoiceId, HasFields
    <2>2. n > db.lastInvoice
      BY <2>1
    <2>3. db.invoice[n] = NoInvoice
      BY <2>2 DEF Solo, Sound, NumbersInOrder
    <2> QED BY <2>3 DEF NoInvoice
  <1>3. CASE t.op.draft # 0
    BY <1>1, <1>3 DEF SaleInvoiceId, SaleAllowed
  <1> QED BY <1>2, <1>3

LEMMA SaleBooks ==
    ASSUME BooksInv, NEW h, NEW t, Solo(h, t), t.op.kind = "sale",
           SaleAllowed(t), db' = SaleEffect(t)
    PROVE  BooksInv'
  <1> DEFINE n == SaleInvoiceId(t)
             r == t.op
  <1>1. /\ n \in Invoices /\ t.stamp \in Days /\ HasFields(db) /\ t.snap = db
        /\ r \in SaleRequests
    BY SaleType, WorkFields, KindOf DEF Solo
  <1>2. /\ r.paid \in Nat /\ r.total \in Nat \ {0} /\ r.paid <= r.total
        /\ r.customer \in Customers \cup {NoCustomer}
    BY <1>1 DEF SaleRequests, SaleAllowed
  <1>3. /\ db'.invoice = [db.invoice EXCEPT ![n] = IssuedInvoice(r)]
        /\ db'.outstanding = Posted(db.outstanding, db.outstanding, r.customer,
                                    r.total - r.paid)
        /\ db'.received = Plus(db.received, n, r.paid)
    BY <1>1, SaleDelta DEF Solo
  <1>4. db.invoice[n].status \in {"none", "draft"}
    BY <1>1, NewOrDraft
  <1>5. ASSUME NEW i \in Invoices
        PROVE  SumsRight(db'.invoice[i], db'.received[i])
    <2>1. SumsRight(db.invoice[i], db.received[i])
      BY DEF BooksInv
    <2>2. CASE i # n
      <3>1. db'.invoice[i] = db.invoice[i] /\ db'.received[i] = db.received[i]
        BY <1>1, <1>3, <2>2 DEF Plus, HasFields
      <3> QED BY <2>1, <3>1
    <2>3. CASE i = n
      <3>1. db.received[n] = 0
        BY <1>4, <2>1, <2>3 DEF SumsRight
      <3>2. db'.invoice[n] = IssuedInvoice(r) /\ db'.received[n] = r.paid
        BY <1>1, <1>2, <1>3, <3>1 DEF Plus, HasFields
      <3>3. SumsRight(IssuedInvoice(r), r.paid)
        BY <1>2 DEF SumsRight, IssuedInvoice, Issued
      <3> QED BY <2>3, <3>2, <3>3
    <2> QED BY <2>2, <2>3
  <1>6. ASSUME NEW c \in Customers
        PROVE  db'.outstanding[c] <= CreditLimit
    <2>1. db.outstanding[c] <= CreditLimit /\ db.outstanding[c] \in Int
      BY <1>1 DEF BooksInv, HasFields
    <2>2. db'.outstanding[c] = IF r.customer # NoCustomer /\ c = r.customer
                               THEN db.outstanding[c] + (r.total - r.paid)
                               ELSE db.outstanding[c]
      BY <1>1, <1>3, PostedBalance DEF HasFields
    <2>3. CASE c = r.customer /\ r.paid < r.total
      <3>1. db.outstanding[c] + r.total - r.paid <= CreditLimit
        BY <1>1, <2>3 DEF SaleAllowed, WithinCredit
      <3> QED BY <1>2, <2>1, <2>2, <2>3, <3>1
    <2>4. CASE ~(c = r.customer /\ r.paid < r.total)
      BY <1>2, <2>1, <2>2, <2>4
    <2> QED BY <2>3, <2>4
  <1> QED BY <1>5, <1>6 DEF BooksInv

LEMMA CollectBooks ==
    ASSUME BooksInv, NEW h, NEW t, Solo(h, t), t.op.kind = "collect",
           CollectAllowed(t), db' = CollectEffect(t)
    PROVE  BooksInv'
  <1> DEFINE n == t.op.invoice
             r == t.op
             v == db.invoice[n]
  <1>1. /\ n \in Invoices /\ t.stamp \in Days /\ HasFields(db) /\ t.snap = db
        /\ r \in CollectRequests /\ r.amount \in Nat \ {0}
    BY CollectType, WorkFields, KindOf DEF Solo, CollectRequests
  <1>2. /\ db'.invoice = [db.invoice EXCEPT ![n] = Collected(t)]
        /\ db'.outstanding = Posted(db.outstanding, db.outstanding, v.customer,
                                    -r.amount)
        /\ db'.received = Plus(db.received, n, r.amount)
    BY <1>1, CollectDelta DEF Solo
  <1>3. v \in InvoiceType /\ Issued(v) /\ r.amount <= v.due
    BY <1>1 DEF HasFields, CollectAllowed, InvoiceType, InvoiceStatus, Issued
  <1>4. ASSUME NEW i \in Invoices
        PROVE  SumsRight(db'.invoice[i], db'.received[i])
    <2>1. SumsRight(db.invoice[i], db.received[i])
      BY DEF BooksInv
    <2>2. CASE i # n
      <3>1. db'.invoice[i] = db.invoice[i] /\ db'.received[i] = db.received[i]
        BY <1>1, <1>2, <2>2 DEF Plus, HasFields
      <3> QED BY <2>1, <3>1
    <2>3. CASE i = n
      <3>1. /\ db'.invoice[n] = Collected(t)
            /\ db'.received[n] = db.received[n] + r.amount
        BY <1>1, <1>2 DEF Plus, HasFields
      <3>2. /\ v.paid \in Nat /\ v.due \in Nat /\ v.total \in Nat
            /\ v.paid = db.received[n] /\ v.paid + v.due = v.total
        BY <1>3, <2>1, <2>3 DEF SumsRight, InvoiceType
      <3>3. /\ Collected(t).paid = v.paid + r.amount
            /\ Collected(t).due = v.due - r.amount
            /\ Collected(t).total = v.total
            /\ Collected(t).status = IF v.due > r.amount THEN "partial_paid" ELSE "paid"
        BY <1>1, <1>3 DEF Collected, InvoiceType
      <3>4. SumsRight(Collected(t), db.received[n] + r.amount)
        BY <1>1, <1>3, <3>2, <3>3 DEF SumsRight, Issued
      <3> QED BY <2>3, <3>1, <3>4
    <2> QED BY <2>2, <2>3
  <1>5. ASSUME NEW c \in Customers
        PROVE  db'.outstanding[c] <= CreditLimit
    <2>1. db.outstanding[c] <= CreditLimit /\ db.outstanding[c] \in Int
      BY <1>1 DEF BooksInv, HasFields
    <2>2. \/ db'.outstanding[c] = db.outstanding[c] + (-r.amount)
          \/ db'.outstanding[c] = db.outstanding[c]
      BY <1>1, <1>2, PostedBalance DEF HasFields
    <2> QED BY <1>1, <2>1, <2>2, TillAssumption
  <1> QED BY <1>4, <1>5 DEF BooksInv

LEMMA VoidBooks ==
    ASSUME BooksInv, NEW h, NEW t, Solo(h, t), t.op.kind = "void",
           VoidAllowed(t), db' = VoidEffect(t)
    PROVE  BooksInv'
  <1> DEFINE n == t.op.invoice
             v == db.invoice[n]
  <1>1. n \in Invoices /\ HasFields(db) /\ t.snap = db
    BY VoidType DEF Solo
  <1>2. /\ db'.invoice = [db.invoice EXCEPT ![n] = Voided(t)]
        /\ db'.outstanding = Posted(db.outstanding, db.outstanding, CreditedTo(v),
                                    -v.due)
        /\ db'.received = db.received
    BY <1>1, VoidDelta DEF Solo
  <1>3. v \in InvoiceType /\ v.due \in Nat
    BY <1>1 DEF HasFields, InvoiceType
  <1>4. ASSUME NEW i \in Invoices
        PROVE  SumsRight(db'.invoice[i], db'.received[i])
    <2>1. SumsRight(db.invoice[i], db.received[i])
      BY DEF BooksInv
    <2>2. CASE i # n
      BY <1>1, <1>2, <2>1, <2>2 DEF HasFields
    <2>3. CASE i = n
      <3>1. db'.invoice[n] = Voided(t)
        BY <1>1, <1>2 DEF HasFields
      <3>2. /\ Voided(t).paid = v.paid /\ Voided(t).due = 0
            /\ Voided(t).status = "cancelled"
        BY <1>1, <1>3 DEF Voided, InvoiceType
      <3> QED BY <1>2, <2>1, <2>3, <3>1, <3>2 DEF SumsRight, Issued
    <2> QED BY <2>2, <2>3
  <1>5. ASSUME NEW c \in Customers
        PROVE  db'.outstanding[c] <= CreditLimit
    <2>1. db.outstanding[c] <= CreditLimit /\ db.outstanding[c] \in Int
      BY <1>1 DEF BooksInv, HasFields
    <2>2. \/ db'.outstanding[c] = db.outstanding[c] + (-v.due)
          \/ db'.outstanding[c] = db.outstanding[c]
      BY <1>1, <1>2, PostedBalance DEF HasFields
    <2> QED BY <1>3, <2>1, <2>2, TillAssumption
  <1> QED BY <1>4, <1>5 DEF BooksInv

LEMMA DraftBooks ==
    ASSUME BooksInv, NEW h, NEW t, Solo(h, t), DraftAllowed(t),
           db' = DraftEffect(t)
    PROVE  BooksInv'
  <1> DEFINE n == t.snap.lastInvoice + 1
  <1>1. n \in Invoices /\ HasFields(db) /\ t.snap = db
    BY DraftType DEF Solo
  <1>2. /\ db'.invoice = [db.invoice EXCEPT ![n] = [NoInvoice EXCEPT !.status = "draft"]]
        /\ db'.outstanding = db.outstanding
        /\ db'.received = db.received
    <2>1. db \in DbType /\ t.snap.lastInvoice + 1 \in Invoices
      BY <1>1 DEF Solo
    <2> QED BY <2>1, DraftDelta
  <1>3. db.invoice[n] = NoInvoice
    <2>1. db.lastInvoice \in Nat
      BY <1>1, TillAssumption DEF HasFields
    <2> QED BY <1>1, <2>1 DEF Solo, Sound, NumbersInOrder
  <1>4. ASSUME NEW i \in Invoices
        PROVE  SumsRight(db'.invoice[i], db'.received[i])
    <2>1. SumsRight(db.invoice[i], db.received[i])
      BY DEF BooksInv
    <2>2. CASE i # n
      BY <1>1, <1>2, <2>1, <2>2 DEF HasFields
    <2>3. CASE i = n
      <3>1. db'.invoice[n] = [NoInvoice EXCEPT !.status = "draft"]
        BY <1>1, <1>2 DEF HasFields
      <3> QED BY <1>2, <1>3, <2>1, <2>3, <3>1 DEF SumsRight, Issued, NoInvoice
    <2> QED BY <2>2, <2>3
  <1> QED BY <1>2, <1>4 DEF BooksInv

LEMMA CancelBooks ==
    ASSUME BooksInv, NEW h, NEW t, Solo(h, t), t.op.kind = "cancel",
           CancelAllowed(t), db' = CancelEffect(t)
    PROVE  BooksInv'
  <1> DEFINE n == t.op.invoice
  <1>1. n \in Invoices /\ HasFields(db) /\ t.snap = db
    BY CancelType DEF Solo
  <1>2. /\ db'.invoice = [db.invoice EXCEPT ![n] = [db.invoice[n] EXCEPT !.status = "cancelled"]]
        /\ db'.outstanding = db.outstanding
        /\ db'.received = db.received
    BY <1>1, CancelDelta DEF Solo
  <1>3. db.invoice[n].status = "draft" /\ db.invoice[n] \in InvoiceType
    BY <1>1 DEF CancelAllowed, HasFields
  <1>4. ASSUME NEW i \in Invoices
        PROVE  SumsRight(db'.invoice[i], db'.received[i])
    <2>1. SumsRight(db.invoice[i], db.received[i])
      BY DEF BooksInv
    <2>2. CASE i # n
      BY <1>1, <1>2, <2>1, <2>2 DEF HasFields
    <2>3. CASE i = n
      <3>1. db'.invoice[n] = [db.invoice[n] EXCEPT !.status = "cancelled"]
        BY <1>1, <1>2 DEF HasFields
      <3>2. /\ db'.invoice[n].paid = db.invoice[n].paid
            /\ db'.invoice[n].due = db.invoice[n].due
            /\ db'.invoice[n].status = "cancelled"
        BY <1>3, <3>1 DEF InvoiceType
      <3> QED BY <1>2, <1>3, <2>1, <2>3, <3>2 DEF SumsRight, Issued
    <2> QED BY <2>2, <2>3
  <1> QED BY <1>2, <1>4 DEF BooksInv

LEMMA AccountBooks ==
    ASSUME BooksInv, NEW h, NEW t, Solo(h, t), t.op.kind = "account",
           db' = AccountEffect(t)
    PROVE  BooksInv'
  <1>1. /\ t.op.customer \in Customers /\ t.stamp \in Days /\ HasFields(db)
        /\ t.snap = db /\ t.op.amount \in Nat
    BY AccountType, WorkFields, KindOf DEF Solo, AccountRequests
  <1>2. /\ db'.invoice = db.invoice
        /\ db'.outstanding = Posted(db.outstanding, db.outstanding, t.op.customer,
                                    -t.op.amount)
        /\ db'.received = db.received
    BY <1>1, AccountDelta DEF Solo
  <1>3. ASSUME NEW c \in Customers
        PROVE  db'.outstanding[c] <= CreditLimit
    <2>1. db.outstanding[c] <= CreditLimit /\ db.outstanding[c] \in Int
      BY <1>1 DEF BooksInv, HasFields
    <2>2. \/ db'.outstanding[c] = db.outstanding[c] + (-t.op.amount)
          \/ db'.outstanding[c] = db.outstanding[c]
      BY <1>1, <1>2, PostedBalance DEF HasFields
    <2> QED BY <1>1, <2>1, <2>2, TillAssumption
  <1> QED BY <1>2, <1>3 DEF BooksInv

LEMMA InitBooks ==
    ASSUME Init PROVE BooksInv
  <1>1. /\ \A i \in Invoices : db.invoice[i] = NoInvoice /\ db.received[i] = 0
        /\ \A c \in Customers : db.outstanding[c] = 0
    BY DEF Init, EmptyDb
  <1>2. SumsRight(NoInvoice, 0)
    BY DEF SumsRight, Issued, NoInvoice
  <1> QED BY <1>1, <1>2, TillAssumption DEF BooksInv

\* Stock, the closing and everything that ends without a write leave the
\* invoices, balances and keys alone.
Aside ==
    /\ db'.invoice = db.invoice /\ db'.received = db.received
    /\ db'.outstanding = db.outstanding /\ db'.opkeys = db.opkeys

LEMMA AdjustAside ==
    ASSUME TillInv, NEW h, AdjustStock(h)
    PROVE  Aside
  <1>1. PICK t : /\ Commits(h, t, AdjustWrites(t), AdjustEffect(t))
                 /\ t.op.kind = "adjust"
                 /\ AdjustAllowed(t)
    BY AdjustStockStep DEF TillInv
  <1>2. db' = AdjustEffect(t) /\ db \in DbType
    BY <1>1 DEF Commits, CommitTxn, TillInv, TypeOK
  <1> QED BY <1>2, AdjustDelta DEF Aside

LEMMA ClosingAside ==
    ASSUME TillInv, NEW h, Closing(h)
    PROVE  Aside
  <1>1. PICK t : /\ Commits(h, t, DayWrites(t), DayEffect(t))
                 /\ t.op.kind \in {"open", "submit", "close", "reopen"}
                 /\ DayAllowed(t)
    BY ClosingStep DEF TillInv
  <1>2. db' = DayEffect(t) /\ db \in DbType /\ t \in Work
    BY <1>1 DEF Commits, CommitTxn, TillInv, TypeOK
  <1>3. t.op.date \in Days
    BY <1>1, <1>2, DayType
  <1> QED BY <1>2, <1>3, DayDelta DEF Aside

LEMMA AsideKeepsBooks ==
    ASSUME BooksInv, Aside
    PROVE  BooksInv'
  BY DEF BooksInv, Aside

\* Sums and limits hold in every state.
THEOREM BooksHold == Spec => []BooksInv
  <1>1. Init => BooksInv
    BY InitBooks
  <1>2. BooksInv /\ TillInv /\ [Next]_vars => BooksInv'
    <2> SUFFICES ASSUME BooksInv, TillInv, [Next]_vars PROVE BooksInv'
      OBVIOUS
    <2>1. ASSUME NEW h \in Handlers, Checkout(h) PROVE BooksInv'
      BY <2>1, SaleRun, SaleBooks
    <2>2. ASSUME NEW h \in Handlers, CollectPayment(h) PROVE BooksInv'
      BY <2>2, CollectRun, CollectBooks
    <2>3. ASSUME NEW h \in Handlers, VoidInvoice(h) PROVE BooksInv'
      BY <2>3, VoidRun, VoidBooks
    <2>4. ASSUME NEW h \in Handlers, CreateDraft(h) PROVE BooksInv'
      BY <2>4, DraftRun, DraftBooks
    <2>5. ASSUME NEW h \in Handlers, CancelDraft(h) PROVE BooksInv'
      BY <2>5, CancelRun, CancelBooks
    <2>6. ASSUME NEW h \in Handlers, PayAccount(h) PROVE BooksInv'
      BY <2>6, AccountRun, AccountBooks
    <2>7. ASSUME NEW h \in Handlers, AdjustStock(h) PROVE BooksInv'
      BY <2>7, AdjustAside, AsideKeepsBooks
    <2>8. ASSUME NEW h \in Handlers, Closing(h) PROVE BooksInv'
      BY <2>8, ClosingAside, AsideKeepsBooks
    <2>9. ASSUME NEW h \in Handlers, Begin(h) \/ ReplayCheckout(h) \/ Abandon(h)
          PROVE BooksInv'
      BY <2>9, AsideKeepsBooks DEF Begin, ReplayCheckout, Abandon, Aside
    <2>10. CASE Midnight \/ UNCHANGED vars
      BY <2>10, AsideKeepsBooks DEF Midnight, vars, Aside
    <2> QED
      BY <2>1, <2>2, <2>3, <2>4, <2>5, <2>6, <2>7, <2>8, <2>9, <2>10
      DEF Next, Step
  <1> QED BY <1>1, <1>2, TillInvariant, PTL DEF Spec

\* An invoice's paid_amount is the sum of its payments, paid and due add up to
\* the total, and its status says which of them is zero.
THEOREM InvoicesBalance == Spec => []InvoicesReconcile
  <1>1. BooksInv => InvoicesReconcile
    BY DEF BooksInv, SumsRight, InvoicesReconcile
  <1> QED BY <1>1, BooksHold, PTL

\* No customer is ever given more credit than the limit.
THEOREM CreditNeverExceeded == Spec => []CreditLimitHolds
  <1>1. BooksInv => CreditLimitHolds
    BY DEF BooksInv, CreditLimitHolds
  <1> QED BY <1>1, BooksHold, PTL

-----------------------------------------------------------------------------
(***************************************************************************)
(* Request keys.  An invoice that has a key keeps it, so a key found in an *)
(* old snapshot still names the same invoice.                              *)
(***************************************************************************)
HasKey(invoice) == invoice.key # NoKey

InvoiceKeys ==
    /\ \A i \in Invoices : db.invoice[i].status \in {"none", "draft"} =>
                              ~HasKey(db.invoice[i])
    /\ \A i \in Invoices : HasKey(db.invoice[i]) =>
          \E r \in Requests : /\ r.kind = "sale"
                              /\ r.id = db.invoice[i].request
                              /\ r.key = db.invoice[i].key
    /\ \A i, j \in Invoices :
          HasKey(db.invoice[i]) /\ db.invoice[i].key = db.invoice[j].key => i = j

AppliedKeys ==
    \A r \in Requests :
        /\ Keyed(r) => applied[r] <= 1
        /\ r.kind = "sale" /\ applied[r] > 0 =>
              \E i \in Invoices : db.invoice[i].key = r.key
        /\ r.kind \in {"collect", "void"} /\ applied[r] > 0 =>
              OpKey(r) \in db.opkeys

ToldKeys ==
    \A p \in replies : /\ HasKey(db.invoice[p[2]])
                       /\ db.invoice[p[2]].request = p[1]

SnapKeys ==
    \A h \in DOMAIN run : \A i \in Invoices :
        HasKey(run[h].snap.invoice[i]) =>
            /\ db.invoice[i].key = run[h].snap.invoice[i].key
            /\ db.invoice[i].request = run[h].snap.invoice[i].request

KeysInv == InvoiceKeys /\ AppliedKeys /\ ToldKeys /\ SnapKeys

\* A step that hands out no key.
KeysStay ==
    /\ \A i \in Invoices :
          /\ db'.invoice[i].key = db.invoice[i].key
          /\ db'.invoice[i].request = db.invoice[i].request
          /\ db'.invoice[i].status \in {"none", "draft"} => ~HasKey(db.invoice[i])
    /\ db.opkeys \subseteq db'.opkeys

\* Only a request that is not known yet is counted.
CountsOnce ==
    \A r \in Requests :
        Keyed(r) => \/ applied'[r] = applied[r]
                    \/ /\ r.kind \in {"collect", "void"}
                       /\ OpKey(r) \notin db.opkeys /\ OpKey(r) \in db'.opkeys
                       /\ applied'[r] = applied[r] + 1

LEMMA StayKeepsKeys ==
    ASSUME TypeOK, KeysInv, KeysStay, CountsOnce
    PROVE  InvoiceKeys' /\ AppliedKeys'
  <1>1. InvoiceKeys'
    BY DEF KeysInv, InvoiceKeys, KeysStay, HasKey
  <1>2. ASSUME NEW r \in Requests
        PROVE  /\ Keyed(r) => applied'[r] <= 1
               /\ r.kind = "sale" /\ applied'[r] > 0 =>
                     \E i \in Invoices : db'.invoice[i].key = r.key
               /\ r.kind \in {"collect", "void"} /\ applied'[r] > 0 =>
                     OpKey(r) \in db'.opkeys
    <2>1. applied[r] \in Nat
      BY DEF TypeOK
    <2>2. CASE Keyed(r) /\ applied'[r] = applied[r]
      BY <2>2 DEF KeysInv, AppliedKeys, KeysStay
    <2>3. CASE /\ r.kind \in {"collect", "void"}
               /\ OpKey(r) \notin db.opkeys /\ OpKey(r) \in db'.opkeys
               /\ applied'[r] = applied[r] + 1
      <3>1. ~(applied[r] > 0)
        BY <2>3 DEF KeysInv, AppliedKeys
      <3>2. applied'[r] = 1
        BY <2>1, <2>3, <3>1
      <3> QED BY <2>3, <3>2
    <2>4. CASE ~Keyed(r)
      BY <2>4 DEF Keyed
    <2> QED BY <2>2, <2>3, <2>4 DEF CountsOnce
  <1> QED BY <1>1, <1>2 DEF AppliedKeys

LEMMA StayKeepsTold ==
    ASSUME TypeOK, KeysInv, KeysStay, SnapsStay, replies' = replies
    PROVE  ToldKeys' /\ SnapKeys'
  <1>1. ToldKeys'
    <2>1. \A p \in replies : p[2] \in Invoices
      BY DEF TypeOK
    <2> QED BY <2>1 DEF KeysInv, ToldKeys, KeysStay, HasKey
  <1>2. SnapKeys'
    BY DEF KeysInv, SnapKeys, KeysStay, SnapsStay, HasKey
  <1> QED BY <1>1, <1>2

LEMMA SaleKeys ==
    ASSUME TypeOK, KeysInv, NEW h, NEW t, Solo(h, t), t.op.kind = "sale",
           SaleAllowed(t), db' = SaleEffect(t),
           replies' = replies \cup {<<t.op.id, SaleInvoiceId(t)>>}
    PROVE  KeysInv'
  <1> DEFINE n == SaleInvoiceId(t)
             r == t.op
  <1>1. /\ n \in Invoices /\ t.stamp \in Days /\ HasFields(db) /\ t.snap = db
        /\ r \in SaleRequests /\ r \in Requests /\ r.key \in Nat \ {0}
    BY SaleType, WorkFields, KindOf DEF Solo, SaleRequests
  <1>2. /\ db'.invoice = [db.invoice EXCEPT ![n] = IssuedInvoice(r)]
        /\ db'.opkeys = db.opkeys
    BY <1>1, SaleDelta DEF Solo
  <1>3. \A i \in Invoices : db.invoice[i].key # r.key
    BY <1>1 DEF SaleAllowed, ExistingInvoices
  <1>4. ~HasKey(db.invoice[n])
    <2>1. CASE r.draft = 0
      <3>1. n = db.lastInvoice + 1 /\ db.lastInvoice \in Nat
        BY <1>1, <2>1, TillAssumption DEF SaleInvoiceId, HasFields
      <3>2. n > db.lastInvoice
        BY <3>1
      <3>3. db.invoice[n] = NoInvoice
        BY <1>1, <3>2 DEF Solo, Sound, NumbersInOrder
      <3> QED BY <3>3 DEF NoInvoice, HasKey
    <2>2. CASE r.draft # 0
      <3>1. db.invoice[n].status = "draft"
        BY <1>1, <2>2 DEF SaleInvoiceId, SaleAllowed
      <3> QED BY <1>1, <3>1 DEF KeysInv, InvoiceKeys
    <2> QED BY <2>1, <2>2
  <1>5. /\ db'.invoice[n].key = r.key /\ db'.invoice[n].request = r.id
        /\ db'.invoice[n].status \notin {"none", "draft"}
        /\ \A i \in Invoices : i # n => db'.invoice[i] = db.invoice[i]
    BY <1>1, <1>2 DEF HasFields, IssuedInvoice
  <1>6. r.key # NoKey
    BY <1>1 DEF NoKey
  <1> HIDE DEF n
  <1>7. InvoiceKeys'
    <2>1. \A i \in Invoices : db'.invoice[i].status \in {"none", "draft"} =>
                                 ~HasKey(db'.invoice[i])
      BY <1>1, <1>5 DEF KeysInv, InvoiceKeys
    <2>2. ASSUME NEW i \in Invoices, HasKey(db'.invoice[i])
          PROVE  \E q \in Requests : /\ q.kind = "sale"
                                     /\ q.id = db'.invoice[i].request
                                     /\ q.key = db'.invoice[i].key
      BY <1>1, <1>5, <2>2 DEF KeysInv, InvoiceKeys
    <2>3. ASSUME NEW i \in Invoices, NEW j \in Invoices, HasKey(db'.invoice[i]),
                 db'.invoice[i].key = db'.invoice[j].key
          PROVE  i = j
      BY <1>1, <1>3, <1>5, <2>3 DEF KeysInv, InvoiceKeys
    <2> QED BY <2>1, <2>2, <2>3 DEF InvoiceKeys
  <1>8. applied[r] = 0 /\ applied' = [applied EXCEPT ![r] = @ + 1]
    <2>1. ~(applied[r] > 0) /\ applied[r] \in Nat
      BY <1>1, <1>3 DEF KeysInv, AppliedKeys, TypeOK
    <2> QED BY <2>1 DEF Solo, Posting
  <1>9. AppliedKeys'
    <2>1. ASSUME NEW q \in Requests
          PROVE  /\ Keyed(q) => applied'[q] <= 1
                 /\ q.kind = "sale" /\ applied'[q] > 0 =>
                       \E i \in Invoices : db'.invoice[i].key = q.key
                 /\ q.kind \in {"collect", "void"} /\ applied'[q] > 0 =>
                       OpKey(q) \in db'.opkeys
      <3>1. CASE q = r
        BY <1>1, <1>5, <1>8, <3>1 DEF TypeOK
      <3>2. CASE q # r
        <4>1. applied'[q] = applied[q]
          BY <1>1, <1>8, <3>2 DEF TypeOK
        <4>2. ASSUME q.kind = "sale", applied[q] > 0
              PROVE  \E i \in Invoices : db'.invoice[i].key = q.key
          <5>1. PICK i \in Invoices : db.invoice[i].key = q.key
            BY <4>2 DEF KeysInv, AppliedKeys
          <5>2. q.key # NoKey
            BY <4>2, KindOf DEF SaleRequests, NoKey
          <5>3. i # n
            BY <1>4, <5>1, <5>2 DEF HasKey
          <5> QED BY <1>5, <5>1, <5>3
        <4> QED BY <1>2, <4>1, <4>2 DEF KeysInv, AppliedKeys
      <3> QED BY <3>1, <3>2
    <2> QED BY <2>1 DEF AppliedKeys
  <1>10. ToldKeys'
    <2>1. ASSUME NEW p \in replies
          PROVE  HasKey(db'.invoice[p[2]]) /\ db'.invoice[p[2]].request = p[1]
      <3>1. p[2] \in Invoices /\ HasKey(db.invoice[p[2]]) /\ db.invoice[p[2]].request = p[1]
        BY DEF TypeOK, KeysInv, ToldKeys
      <3> QED BY <1>4, <1>5, <3>1
    <2>2. HasKey(db'.invoice[n]) /\ db'.invoice[n].request = r.id
      BY <1>5, <1>6 DEF HasKey
    <2>3. replies' = replies \cup {<<r.id, n>>}
      BY DEF n
    <2> QED BY <2>1, <2>2, <2>3 DEF ToldKeys
  <1>11. SnapKeys'
    <2>1. ASSUME NEW g \in DOMAIN run', NEW i \in Invoices,
                 HasKey(run'[g].snap.invoice[i])
          PROVE  /\ db'.invoice[i].key = run'[g].snap.invoice[i].key
                 /\ db'.invoice[i].request = run'[g].snap.invoice[i].request
      <3>1. g \in DOMAIN run /\ run'[g].snap = run[g].snap
        BY DEF Solo, SnapsStay
      <3>2. /\ db.invoice[i].key = run[g].snap.invoice[i].key
            /\ db.invoice[i].request = run[g].snap.invoice[i].request
        BY <2>1, <3>1 DEF KeysInv, SnapKeys
      <3>3. i # n
        BY <1>4, <2>1, <3>1, <3>2 DEF HasKey
      <3> QED BY <1>5, <3>1, <3>2, <3>3
    <2> QED BY <2>1 DEF SnapKeys
  <1> QED BY <1>7, <1>9, <1>10, <1>11 DEF KeysInv

\* A commit that changes no key and is counted as it should be.
LEMMA SoloKeepsKeys ==
    ASSUME TypeOK, KeysInv, NEW h, NEW t, Solo(h, t), KeysStay,
           replies' = replies,
           Keyed(t.op) => /\ t.op.kind \in {"collect", "void"}
                          /\ OpKey(t.op) \notin db.opkeys
                          /\ OpKey(t.op) \in db'.opkeys
    PROVE  KeysInv'
  <1>1. CountsOnce
    <2>1. ASSUME NEW r \in Requests, Keyed(r), r # t.op
          PROVE  applied'[r] = applied[r]
      BY <2>1 DEF Solo
    <2>2. ASSUME Keyed(t.op)
          PROVE  applied'[t.op] = applied[t.op] + 1
      <3>1. Posting(t.op) /\ t.op \in Requests
        BY <2>2, WorkFields DEF Keyed, Posting, Solo
      <3> QED BY <3>1 DEF Solo
    <2> QED BY <2>1, <2>2 DEF CountsOnce
  <1>2. SnapsStay
    BY DEF Solo
  <1> QED BY <1>1, <1>2, StayKeepsKeys, StayKeepsTold DEF KeysInv

LEMMA CollectKeys ==
    ASSUME TypeOK, KeysInv, NEW h, NEW t, Solo(h, t), t.op.kind = "collect",
           CollectAllowed(t), db' = CollectEffect(t), replies' = replies
    PROVE  KeysInv'
  <1> DEFINE n == t.op.invoice
  <1>1. n \in Invoices /\ t.stamp \in Days /\ HasFields(db) /\ t.snap = db
    BY CollectType, WorkFields DEF Solo
  <1>2. /\ db'.invoice = [db.invoice EXCEPT ![n] = Collected(t)]
        /\ db'.opkeys = db.opkeys \cup {OpKey(t.op)}
    BY <1>1, CollectDelta DEF Solo
  <1>3. /\ Collected(t).key = db.invoice[n].key
        /\ Collected(t).request = db.invoice[n].request
        /\ Collected(t).status \notin {"none", "draft"}
    BY <1>1 DEF Collected, HasFields, InvoiceType
  <1>4. KeysStay
    BY <1>1, <1>2, <1>3 DEF KeysStay, HasFields, KeysInv, InvoiceKeys
  <1>5. OpKey(t.op) \notin db.opkeys
    BY <1>1 DEF CollectAllowed, Replayed
  <1> QED BY <1>2, <1>4, <1>5, SoloKeepsKeys

LEMMA VoidKeys ==
    ASSUME TypeOK, KeysInv, NEW h, NEW t, Solo(h, t), t.op.kind = "void",
           VoidAllowed(t), db' = VoidEffect(t), replies' = replies
    PROVE  KeysInv'
  <1> DEFINE n == t.op.invoice
  <1>1. n \in Invoices /\ HasFields(db) /\ t.snap = db
    BY VoidType DEF Solo
  <1>2. /\ db'.invoice = [db.invoice EXCEPT ![n] = Voided(t)]
        /\ db'.opkeys = db.opkeys \cup {OpKey(t.op)}
    BY <1>1, VoidDelta DEF Solo
  <1>3. /\ Voided(t).key = db.invoice[n].key
        /\ Voided(t).request = db.invoice[n].request
        /\ Voided(t).status \notin {"none", "draft"}
    BY <1>1 DEF Voided, HasFields, InvoiceType
  <1>4. KeysStay
    BY <1>1, <1>2, <1>3 DEF KeysStay, HasFields, KeysInv, InvoiceKeys
  <1>5. OpKey(t.op) \notin db.opkeys
    BY <1>1 DEF VoidAllowed, Replayed
  <1> QED BY <1>2, <1>4, <1>5, SoloKeepsKeys

LEMMA DraftKeys ==
    ASSUME TypeOK, KeysInv, NEW h, NEW t, Solo(h, t), t.op.kind = "draft",
           DraftAllowed(t), db' = DraftEffect(t), replies' = replies
    PROVE  KeysInv'
  <1> DEFINE n == t.snap.lastInvoice + 1
             new == [NoInvoice EXCEPT !.status = "draft"]
  <1>1. n \in Invoices /\ HasFields(db) /\ t.snap = db /\ db \in DbType
    BY DraftType DEF Solo
  <1>2. /\ db'.invoice = [db.invoice EXCEPT ![n] = new]
        /\ db'.opkeys = db.opkeys
    <2>1. t.snap.lastInvoice + 1 \in Invoices
      BY <1>1
    <2> QED BY <1>1, <2>1, DraftDelta
  <1>3. db.invoice[n] = NoInvoice
    <2>1. db.lastInvoice \in Nat
      BY <1>1, TillAssumption DEF HasFields
    <2> QED BY <1>1, <2>1 DEF Solo, Sound, NumbersInOrder
  <1>4. new.key = NoInvoice.key /\ new.request = NoInvoice.request /\ ~HasKey(NoInvoice)
    BY DEF NoInvoice, HasKey
  <1> HIDE DEF n, new
  <1>5. KeysStay
    BY <1>1, <1>2, <1>3, <1>4 DEF KeysStay, HasFields, KeysInv, InvoiceKeys
  <1>6. ~Keyed(t.op)
    BY DEF Keyed
  <1> QED BY <1>5, <1>6, SoloKeepsKeys

LEMMA CancelKeys ==
    ASSUME TypeOK, KeysInv, NEW h, NEW t, Solo(h, t), t.op.kind = "cancel",
           CancelAllowed(t), db' = CancelEffect(t), replies' = replies
    PROVE  KeysInv'
  <1> DEFINE n == t.op.invoice
             new == [db.invoice[n] EXCEPT !.status = "cancelled"]
  <1>1. n \in Invoices /\ HasFields(db) /\ t.snap = db
    BY CancelType DEF Solo
  <1>2. db'.invoice = [db.invoice EXCEPT ![n] = new] /\ db'.opkeys = db.opkeys
    BY <1>1, CancelDelta DEF Solo
  <1>3. /\ new.key = db.invoice[n].key /\ new.request = db.invoice[n].request
        /\ new.status \notin {"none", "draft"}
    BY <1>1 DEF HasFields, InvoiceType
  <1> HIDE DEF new
  <1>4. KeysStay
    BY <1>1, <1>2, <1>3 DEF KeysStay, HasFields, KeysInv, InvoiceKeys
  <1>5. ~Keyed(t.op)
    BY DEF Keyed
  <1> QED BY <1>4, <1>5, SoloKeepsKeys

LEMMA AccountKeys ==
    ASSUME TypeOK, KeysInv, NEW h, NEW t, Solo(h, t), t.op.kind = "account",
           db' = AccountEffect(t), replies' = replies
    PROVE  KeysInv'
  <1>1. t.op.customer \in Customers /\ t.stamp \in Days
    BY AccountType, WorkFields DEF Solo
  <1>2. db'.invoice = db.invoice /\ db'.opkeys = db.opkeys
    BY <1>1, AccountDelta DEF Solo
  <1>3. KeysStay
    BY <1>2 DEF KeysStay, KeysInv, InvoiceKeys
  <1>4. ~Keyed(t.op)
    BY DEF Keyed
  <1> QED BY <1>3, <1>4, SoloKeepsKeys

LEMMA AsideKeepsKeys ==
    ASSUME TypeOK, KeysInv, Aside, SnapsStay, replies' = replies,
           \A r \in Requests : Keyed(r) => applied'[r] = applied[r]
    PROVE  KeysInv'
  <1>1. KeysStay
    BY DEF KeysStay, Aside, KeysInv, InvoiceKeys
  <1>2. CountsOnce
    BY DEF CountsOnce
  <1> QED BY <1>1, <1>2, StayKeepsKeys, StayKeepsTold DEF KeysInv

LEMMA AdjustKeys ==
    ASSUME TillInv, KeysInv, NEW h, AdjustStock(h)
    PROVE  KeysInv'
  <1>1. PICK t : /\ Commits(h, t, AdjustWrites(t), AdjustEffect(t))
                 /\ t.op.kind = "adjust"
                 /\ AdjustAllowed(t)
    BY AdjustStockStep DEF TillInv
  <1>2. \A r \in Requests : Keyed(r) => applied'[r] = applied[r]
    BY <1>1 DEF Commits, Keyed, TillInv, TypeOK
  <1> QED
    BY <1>1, <1>2, AdjustAside, CommitSnaps, AsideKeepsKeys DEF TillInv, AdjustStock

LEMMA ClosingKeys ==
    ASSUME TillInv, KeysInv, NEW h, Closing(h)
    PROVE  KeysInv'
  <1>1. PICK t : /\ Commits(h, t, DayWrites(t), DayEffect(t))
                 /\ t.op.kind \in {"open", "submit", "close", "reopen"}
                 /\ DayAllowed(t)
    BY ClosingStep DEF TillInv
  <1>2. \A r \in Requests : Keyed(r) => applied'[r] = applied[r]
    BY <1>1 DEF Commits, Keyed, TillInv, TypeOK
  <1> QED
    BY <1>1, <1>2, ClosingAside, CommitSnaps, AsideKeepsKeys DEF TillInv, Closing

LEMMA AbortKeys ==
    ASSUME TypeOK, KeysInv, NEW h, AbortTxn(h), db' = db, applied' = applied,
           replies' = replies
    PROVE  KeysInv'
  <1>1. SnapsStay
    BY DEF AbortTxn, SnapsStay
  <1>2. Aside
    BY DEF Aside
  <1> QED BY <1>1, <1>2, AsideKeepsKeys

\* A replay tells the client about an invoice of its snapshot, which still has
\* the key and the request it had there.
LEMMA ReplayKeys ==
    ASSUME TypeOK, KeysInv, NEW h, ReplayCheckout(h)
    PROVE  KeysInv'
  <1>1. PICK i \in ExistingInvoices(run[h]) :
          /\ run[h].snap.invoice[i].request = run[h].op.id
          /\ replies' = replies \cup {<<run[h].op.id, i>>}
    BY DEF ReplayCheckout
  <1>2. /\ h \in DOMAIN run /\ i \in Invoices /\ run[h].op \in SaleRequests
        /\ run[h].snap.invoice[i].key = run[h].op.key
    BY <1>1, KindOf DEF ReplayCheckout, ExistingInvoices, TypeOK
  <1>3. HasKey(run[h].snap.invoice[i])
    BY <1>2 DEF HasKey, NoKey, SaleRequests
  <1>4. /\ HasKey(db.invoice[i])
        /\ db.invoice[i].request = run[h].op.id
    BY <1>1, <1>2, <1>3 DEF KeysInv, SnapKeys, HasKey
  <1>5. db' = db /\ applied' = applied /\ AbortTxn(h)
    BY DEF ReplayCheckout
  <1>6. ToldKeys'
    BY <1>1, <1>4, <1>5 DEF KeysInv, ToldKeys
  <1>7. InvoiceKeys' /\ AppliedKeys'
    BY <1>5 DEF KeysInv, InvoiceKeys, AppliedKeys
  <1>8. SnapKeys'
    BY <1>5 DEF KeysInv, SnapKeys, AbortTxn
  <1> QED BY <1>6, <1>7, <1>8 DEF KeysInv

LEMMA BeginKeys ==
    ASSUME TypeOK, KeysInv, NEW h, Begin(h)
    PROVE  KeysInv'
  <1>1. PICK r \in Requests : OpenTxn(h, r, today)
    BY DEF Begin
  <1>2. db' = db /\ applied' = applied /\ replies' = replies
    BY DEF Begin
  <1>3. \A g \in DOMAIN run' : \/ g \in DOMAIN run /\ run'[g].snap = run[g].snap
                              \/ run'[g].snap = db
    BY <1>1 DEF OpenTxn
  <1>4. SnapKeys'
    BY <1>2, <1>3 DEF KeysInv, SnapKeys
  <1>5. InvoiceKeys' /\ AppliedKeys' /\ ToldKeys'
    BY <1>2 DEF KeysInv, InvoiceKeys, AppliedKeys, ToldKeys
  <1> QED BY <1>4, <1>5 DEF KeysInv

LEMMA InitKeys ==
    ASSUME Init PROVE KeysInv
  <1>1. /\ \A i \in Invoices : db.invoice[i] = NoInvoice
        /\ \A r \in Requests : applied[r] = 0
        /\ DOMAIN run = {} /\ replies = {}
    BY DEF Init, EmptyDb
  <1>2. ~HasKey(NoInvoice)
    BY DEF HasKey, NoInvoice
  <1> QED
    BY <1>1, <1>2 DEF KeysInv, InvoiceKeys, AppliedKeys, ToldKeys, SnapKeys

\* What is known of keys, in every state.
THEOREM KeysHold == Spec => []KeysInv
  <1>1. Init => KeysInv
    BY InitKeys
  <1>2. KeysInv /\ TillInv /\ [Next]_vars => KeysInv'
    <2> SUFFICES ASSUME KeysInv, TillInv, [Next]_vars PROVE KeysInv'
      OBVIOUS
    <2>0. TypeOK
      BY DEF TillInv
    <2>1. ASSUME NEW h \in Handlers, Checkout(h) PROVE KeysInv'
      BY <2>0, <2>1, SaleRun, SaleKeys
    <2>2. ASSUME NEW h \in Handlers, CollectPayment(h) PROVE KeysInv'
      BY <2>0, <2>2, CollectRun, CollectKeys
    <2>3. ASSUME NEW h \in Handlers, VoidInvoice(h) PROVE KeysInv'
      BY <2>0, <2>3, VoidRun, VoidKeys
    <2>4. ASSUME NEW h \in Handlers, CreateDraft(h) PROVE KeysInv'
      BY <2>0, <2>4, DraftRun, DraftKeys
    <2>5. ASSUME NEW h \in Handlers, CancelDraft(h) PROVE KeysInv'
      BY <2>0, <2>5, CancelRun, CancelKeys
    <2>6. ASSUME NEW h \in Handlers, PayAccount(h) PROVE KeysInv'
      BY <2>0, <2>6, AccountRun, AccountKeys
    <2>7. ASSUME NEW h \in Handlers, AdjustStock(h) PROVE KeysInv'
      BY <2>7, AdjustKeys
    <2>8. ASSUME NEW h \in Handlers, Closing(h) PROVE KeysInv'
      BY <2>8, ClosingKeys
    <2>9. ASSUME NEW h \in Handlers, Begin(h) PROVE KeysInv'
      BY <2>0, <2>9, BeginKeys
    <2>10. ASSUME NEW h \in Handlers, ReplayCheckout(h) PROVE KeysInv'
      BY <2>0, <2>10, ReplayKeys
    <2>11. ASSUME NEW h \in Handlers, Abandon(h) PROVE KeysInv'
      BY <2>0, <2>11, AbortKeys DEF Abandon
    <2>12. CASE Midnight \/ UNCHANGED vars
      <3>1. /\ db' = db /\ run' = run /\ applied' = applied /\ replies' = replies
        BY <2>12 DEF Midnight, vars
      <3> QED BY <3>1 DEF KeysInv, InvoiceKeys, AppliedKeys, ToldKeys, SnapKeys
    <2> QED
      BY <2>1, <2>2, <2>3, <2>4, <2>5, <2>6, <2>7, <2>8, <2>9, <2>10, <2>11, <2>12
      DEF Next, Step
  <1> QED BY <1>1, <1>2, TillInvariant, PTL DEF Spec

\* A request with a key posts at most once however often it is delivered, and
\* a key never names two invoices.
THEOREM KeysPostOnce == Spec => []KeyedRequestsPostOnce
  <1>1. KeysInv => KeyedRequestsPostOnce
    BY DEF KeysInv, InvoiceKeys, AppliedKeys, HasKey, KeyedRequestsPostOnce
  <1> QED BY <1>1, KeysHold, PTL

\* A client is told of the invoice its own request created, always the same.
THEOREM AnswersAgree == Spec => []RepliesAgree
  <1>1. KeysInv /\ TypeOK => RepliesAgree
    <2> SUFFICES ASSUME KeysInv, TypeOK, NEW p \in replies, NEW q \in replies
                 PROVE  /\ db.invoice[p[2]].request = p[1]
                        /\ p[1] = q[1] => p[2] = q[2]
      BY DEF RepliesAgree
    <2>1. /\ p[2] \in Invoices /\ HasKey(db.invoice[p[2]])
          /\ db.invoice[p[2]].request = p[1]
          /\ q[2] \in Invoices /\ HasKey(db.invoice[q[2]])
          /\ db.invoice[q[2]].request = q[1]
      BY DEF TypeOK, KeysInv, ToldKeys
    <2>2. ASSUME p[1] = q[1] PROVE p[2] = q[2]
      <3>1. PICK r \in Requests : r.id = p[1] /\ r.key = db.invoice[p[2]].key
        BY <2>1 DEF KeysInv, InvoiceKeys
      <3>2. PICK s \in Requests : s.id = q[1] /\ s.key = db.invoice[q[2]].key
        BY <2>1 DEF KeysInv, InvoiceKeys
      <3>3. r = s
        BY <2>2, <3>1, <3>2, RequestIdAssumption
      <3> QED BY <2>1, <3>1, <3>2, <3>3 DEF KeysInv, InvoiceKeys
    <2> QED BY <2>1, <2>2
  <1> QED BY <1>1, KeysHold, TypeCorrect, PTL

-----------------------------------------------------------------------------
(***************************************************************************)
(* The ledger.  What customer c owes on the invoices `inv', as a sum over  *)
(* all invoices: a cancelled one and a draft owe nothing.                  *)
(***************************************************************************)
Claim(invoice, c) == IF invoice.customer = c THEN invoice.due ELSE 0
Claims(inv, c) == [i \in Invoices |-> Claim(inv[i], c)]
Owed(inv, c) == SumOver(Invoices, Claims(inv, c))

LEMMA InvoicesFinite == IsFiniteSet(Invoices)
  BY TillAssumption, FS_Interval DEF Invoices

\* The sum of the model is the sum of the proofs.
LEMMA OpenBalanceIsOwed ==
    ASSUME NEW c, db.invoice \in [Invoices -> InvoiceType]
    PROVE  OpenBalance(c) = Owed(db.invoice, c)
  <1> DEFINE S == {i \in Invoices : db.invoice[i].customer = c}
             f == [i \in S |-> db.invoice[i].due]
             g == CHOOSE g : g = [s \in SUBSET S |->
                       IF s = {} THEN 0 ELSE db.invoice[One(s)].due + g[s \ {One(s)}]]
  <1>1. OpenBalance(c) = g[S]
    BY Zenon DEF OpenBalance, MapThenSumSet, MapThenFoldSet, One
  <1>2. IsFiniteSet(S) /\ S \in SUBSET Invoices
    BY InvoicesFinite, NoneLeft
  <1>3. PICK k : Adds(S, f, k)
    BY <1>2, AddsExist
  <1>4. k = [s \in SUBSET S |-> IF s = {} THEN 0 ELSE db.invoice[One(s)].due + k[s \ {One(s)}]]
    <2>1. \A s \in SUBSET S : s # {} => f[One(s)] = db.invoice[One(s)].due
      BY OneIn
    <2> HIDE DEF f, S
    <2> QED BY <1>3, <2>1 DEF Adds
  <1>5. g = [s \in SUBSET S |-> IF s = {} THEN 0 ELSE db.invoice[One(s)].due + g[s \ {One(s)}]]
    BY <1>4
  <1> HIDE DEF g
  <1>6. Adds(S, f, g)
    <2>1. \A s \in SUBSET S : s # {} => f[One(s)] = db.invoice[One(s)].due
      BY OneIn
    <2> HIDE DEF f, S
    <2> QED BY <1>5, <2>1 DEF Adds
  <1>7. SumOver(S, f) = g[S]
    BY <1>2, <1>6, SumIs
  <1> DEFINE h == Claims(db.invoice, c)
  <1>8. \A i \in Invoices : h[i] \in Int
    BY DEF Claims, Claim, InvoiceType
  <1>9. \A i \in Invoices \ S : h[i] = 0
    BY DEF Claims, Claim
  <1>10. \A i \in S : f[i] = h[i]
    BY DEF Claims, Claim
  <1> HIDE DEF f, h
  <1>11. SumOver(S, f) = SumOver(S, h)
    BY <1>2, <1>10, SumSame
  <1> HIDE DEF S
  <1>12. SumOver(Invoices, h) = SumOver(S, h)
    BY <1>2, <1>8, <1>9, InvoicesFinite, SumPart
  <1> QED BY <1>1, <1>7, <1>11, <1>12 DEF Owed, h

\* One invoice that changes changes what its customers owe.
LEMMA OwedChanges ==
    ASSUME NEW inv \in [Invoices -> InvoiceType], NEW n \in Invoices,
           NEW v, v.due \in Int, NEW c
    PROVE  /\ Owed([inv EXCEPT ![n] = v], c) = Owed(inv, c) + Claim(v, c) - Claim(inv[n], c)
           /\ Owed(inv, c) \in Int
           /\ Claim(v, c) \in Int /\ Claim(inv[n], c) \in Int
  <1> DEFINE new == [inv EXCEPT ![n] = v]
             f == Claims(inv, c)
             h == Claims(new, c)
  <1>1. \A i \in Invoices : f[i] \in Int
    BY DEF Claims, Claim, InvoiceType
  <1>2. /\ f[n] = Claim(inv[n], c) /\ h[n] = Claim(v, c)
        /\ \A i \in Invoices \ {n} : f[i] = h[i]
    BY DEF Claims
  <1>3. Claim(v, c) \in Int
    BY DEF Claim
  <1>4. \A i \in Invoices : h[i] \in Int
    BY <1>1, <1>2, <1>3
  <1>5. Owed(inv, c) = SumOver(Invoices, f) /\ Owed(new, c) = SumOver(Invoices, h)
    BY DEF Owed
  <1> HIDE DEF f, h
  <1>6. SumOver(Invoices, h) = SumOver(Invoices, f) + h[n] - f[n]
    BY <1>1, <1>2, <1>4, InvoicesFinite, SumChange
  <1>7. SumOver(Invoices, f) \in Int
    BY <1>1, InvoicesFinite, SumInt
  <1> QED BY <1>1, <1>2, <1>3, <1>5, <1>6, <1>7

\* customers.outstanding_scaled, in terms of the sum of the proofs.
LedgerInv == \A c \in Customers : db.outstanding[c] = Owed(db.invoice, c) - db.account[c]

LEMMA SaleLedger ==
    ASSUME BooksInv, LedgerInv, NEW h, NEW t, Solo(h, t), t.op.kind = "sale",
           SaleAllowed(t), db' = SaleEffect(t)
    PROVE  LedgerInv'
  <1> DEFINE n == SaleInvoiceId(t)
             r == t.op
             v == IssuedInvoice(r)
  <1>1. /\ n \in Invoices /\ t.stamp \in Days /\ HasFields(db) /\ t.snap = db
        /\ r \in SaleRequests
    BY SaleType, WorkFields, KindOf DEF Solo
  <1>2. r.paid \in Nat /\ r.total \in Nat
    BY <1>1 DEF SaleRequests
  <1>3. /\ db'.invoice = [db.invoice EXCEPT ![n] = v]
        /\ db'.outstanding = Posted(db.outstanding, db.outstanding, r.customer,
                                    r.total - r.paid)
        /\ db'.account = db.account
    <2>1. t.snap.outstanding = db.outstanding /\ db \in DbType
      BY <1>1 DEF Solo
    <2> QED BY <1>1, <2>1, SaleDelta
  <1>4. db.invoice[n].due = 0
    <2>1. db.invoice[n].status \in {"none", "draft"}
      BY <1>1, NewOrDraft DEF Solo
    <2> QED BY <1>1, <2>1 DEF BooksInv, SumsRight
  <1>5. v.customer = r.customer /\ v.due = r.total - r.paid /\ v.due \in Int
    BY <1>2 DEF IssuedInvoice
  <1> HIDE DEF n, v
  <1> SUFFICES ASSUME NEW c \in Customers
               PROVE  db'.outstanding[c] = Owed(db'.invoice, c) - db'.account[c]
    BY DEF LedgerInv
  <1>6. Claim(db.invoice[n], c) = 0
    BY <1>4 DEF Claim
  <1>7. db'.outstanding[c] = db.outstanding[c] + Claim(v, c)
    <2>1. db'.outstanding[c] = IF r.customer # NoCustomer /\ c = r.customer
                               THEN db.outstanding[c] + (r.total - r.paid)
                               ELSE db.outstanding[c]
      BY <1>1, <1>3, PostedBalance DEF HasFields
    <2>2. db.outstanding[c] \in Int
      BY <1>1 DEF HasFields
    <2>3. CASE r.customer # NoCustomer /\ c = r.customer
      <3>1. Claim(v, c) = r.total - r.paid
        BY <1>5, <2>3 DEF Claim
      <3> QED BY <2>1, <2>3, <3>1
    <2>4. CASE ~ (r.customer # NoCustomer /\ c = r.customer)
      <3>1. Claim(v, c) = 0
        BY <1>5, <2>4, TillAssumption DEF Claim
      <3> QED BY <2>1, <2>2, <2>4, <3>1
    <2> QED BY <2>3, <2>4
  <1>8. /\ Owed(db'.invoice, c) = Owed(db.invoice, c) + Claim(v, c) - Claim(db.invoice[n], c)
        /\ Owed(db.invoice, c) \in Int /\ Claim(v, c) \in Int
    <2>1. db.invoice \in [Invoices -> InvoiceType] /\ n \in Invoices /\ v.due \in Int
      BY <1>1, <1>5 DEF HasFields
    <2> QED BY <2>1, <1>3, OwedChanges
  <1>9. db.account[c] \in Int /\ db.outstanding[c] = Owed(db.invoice, c) - db.account[c]
    BY <1>1 DEF HasFields, LedgerInv
  <1> QED BY <1>3, <1>6, <1>7, <1>8, <1>9

LEMMA CollectLedger ==
    ASSUME BooksInv, LedgerInv, NEW h, NEW t, Solo(h, t), t.op.kind = "collect",
           CollectAllowed(t), db' = CollectEffect(t)
    PROVE  LedgerInv'
  <1> DEFINE n == t.op.invoice
             r == t.op
             x == db.invoice[n]
             v == Collected(t)
  <1>1. /\ n \in Invoices /\ t.stamp \in Days /\ HasFields(db) /\ t.snap = db
        /\ r.amount \in Nat /\ db \in DbType
    BY CollectType, WorkFields, KindOf DEF Solo, CollectRequests
  <1>2. /\ db'.invoice = [db.invoice EXCEPT ![n] = v]
        /\ db'.outstanding = Posted(db.outstanding, db.outstanding, x.customer, -r.amount)
        /\ db'.account = db.account
    BY <1>1, CollectDelta
  <1>3. x \in InvoiceType /\ x.due \in Nat
    BY <1>1 DEF HasFields, InvoiceType
  <1>4. v.customer = x.customer /\ v.due = x.due - r.amount /\ v.due \in Int
    BY <1>1, <1>3 DEF Collected, InvoiceType
  <1> HIDE DEF n, v, x
  <1> SUFFICES ASSUME NEW c \in Customers
               PROVE  db'.outstanding[c] = Owed(db'.invoice, c) - db'.account[c]
    BY DEF LedgerInv
  <1>5. db'.outstanding[c] = db.outstanding[c] + Claim(v, c) - Claim(x, c)
    <2>1. db'.outstanding[c] = IF x.customer # NoCustomer /\ c = x.customer
                               THEN db.outstanding[c] + (-r.amount)
                               ELSE db.outstanding[c]
      BY <1>1, <1>2, PostedBalance DEF HasFields
    <2>2. db.outstanding[c] \in Int
      BY <1>1 DEF HasFields
    <2> QED BY <1>1, <1>3, <1>4, <2>1, <2>2, TillAssumption DEF Claim
  <1>6. /\ Owed(db'.invoice, c) = Owed(db.invoice, c) + Claim(v, c) - Claim(x, c)
        /\ Owed(db.invoice, c) \in Int /\ Claim(v, c) \in Int /\ Claim(x, c) \in Int
    <2>1. db.invoice \in [Invoices -> InvoiceType] /\ v.due \in Int
      BY <1>1, <1>4 DEF HasFields
    <2> QED BY <1>1, <1>2, <2>1, OwedChanges DEF x
  <1>7. db.account[c] \in Int /\ db.outstanding[c] = Owed(db.invoice, c) - db.account[c]
    BY <1>1 DEF HasFields, LedgerInv
  <1> QED BY <1>2, <1>5, <1>6, <1>7

LEMMA VoidLedger ==
    ASSUME BooksInv, LedgerInv, NEW h, NEW t, Solo(h, t), t.op.kind = "void",
           VoidAllowed(t), db' = VoidEffect(t)
    PROVE  LedgerInv'
  <1> DEFINE n == t.op.invoice
             x == db.invoice[n]
             v == Voided(t)
  <1>1. /\ n \in Invoices /\ HasFields(db) /\ t.snap = db /\ db \in DbType
    BY VoidType DEF Solo
  <1>2. /\ db'.invoice = [db.invoice EXCEPT ![n] = v]
        /\ db'.outstanding = Posted(db.outstanding, db.outstanding, CreditedTo(x), -x.due)
        /\ db'.account = db.account
    BY <1>1, VoidDelta
  <1>3. x \in InvoiceType /\ x.due \in Nat
    BY <1>1 DEF HasFields, InvoiceType
  <1>4. v.customer = x.customer /\ v.due = 0
    BY <1>1, <1>3 DEF Voided, InvoiceType
  <1> HIDE DEF n, v, x
  <1> SUFFICES ASSUME NEW c \in Customers
               PROVE  db'.outstanding[c] = Owed(db'.invoice, c) - db'.account[c]
    BY DEF LedgerInv
  <1>5. db'.outstanding[c] = db.outstanding[c] + Claim(v, c) - Claim(x, c)
    <2>1. db'.outstanding[c] = IF CreditedTo(x) # NoCustomer /\ c = CreditedTo(x)
                               THEN db.outstanding[c] + (-x.due)
                               ELSE db.outstanding[c]
      BY <1>1, <1>2, PostedBalance DEF HasFields
    <2>2. db.outstanding[c] \in Int
      BY <1>1 DEF HasFields
    <2>3. c # NoCustomer
      BY TillAssumption
    <2> QED BY <1>3, <1>4, <2>1, <2>2, <2>3 DEF Claim, CreditedTo
  <1>6. /\ Owed(db'.invoice, c) = Owed(db.invoice, c) + Claim(v, c) - Claim(x, c)
        /\ Owed(db.invoice, c) \in Int /\ Claim(v, c) \in Int /\ Claim(x, c) \in Int
    <2>1. db.invoice \in [Invoices -> InvoiceType] /\ v.due \in Int
      BY <1>1, <1>4 DEF HasFields
    <2> QED BY <1>1, <1>2, <2>1, OwedChanges DEF x
  <1>7. db.account[c] \in Int /\ db.outstanding[c] = Owed(db.invoice, c) - db.account[c]
    BY <1>1 DEF HasFields, LedgerInv
  <1> QED BY <1>2, <1>5, <1>6, <1>7

\* Nothing is owed on what is no invoice yet, before or after.
LEMMA UnbilledLedger ==
    ASSUME LedgerInv, HasFields(db), NEW n \in Invoices, NEW v, v.due = 0,
           db.invoice[n].due = 0, db'.invoice = [db.invoice EXCEPT ![n] = v],
           db'.outstanding = db.outstanding, db'.account = db.account
    PROVE  LedgerInv'
  <1> SUFFICES ASSUME NEW c \in Customers
               PROVE  db'.outstanding[c] = Owed(db'.invoice, c) - db'.account[c]
    BY DEF LedgerInv
  <1>1. v.due \in Int
    OBVIOUS
  <1>2. db.invoice \in [Invoices -> InvoiceType]
    BY DEF HasFields
  <1>3. /\ Owed(db'.invoice, c) = Owed(db.invoice, c) + Claim(v, c) - Claim(db.invoice[n], c)
        /\ Owed(db.invoice, c) \in Int
    BY <1>1, <1>2, OwedChanges
  <1>4. Claim(v, c) = 0 /\ Claim(db.invoice[n], c) = 0
    BY DEF Claim
  <1>5. Owed(db'.invoice, c) = Owed(db.invoice, c)
    BY <1>3, <1>4
  <1> QED BY <1>5 DEF LedgerInv

LEMMA DraftLedger ==
    ASSUME BooksInv, LedgerInv, NEW h, NEW t, Solo(h, t), t.op.kind = "draft",
           DraftAllowed(t), db' = DraftEffect(t)
    PROVE  LedgerInv'
  <1> DEFINE n == t.snap.lastInvoice + 1
             v == [NoInvoice EXCEPT !.status = "draft"]
  <1>1. n \in Invoices /\ HasFields(db) /\ t.snap = db /\ db \in DbType
    BY DraftType DEF Solo
  <1>2. /\ db'.invoice = [db.invoice EXCEPT ![n] = v]
        /\ db'.outstanding = db.outstanding /\ db'.account = db.account
    BY <1>1, DraftDelta
  <1>3. db.invoice[n] = NoInvoice
    <2>1. db.lastInvoice \in Nat
      BY <1>1, TillAssumption DEF HasFields
    <2> QED BY <1>1, <2>1 DEF Solo, Sound, NumbersInOrder
  <1>4. v.due = 0 /\ NoInvoice.due = 0
    BY DEF NoInvoice
  <1> HIDE DEF n, v
  <1> QED BY <1>1, <1>2, <1>3, <1>4, UnbilledLedger

LEMMA CancelLedger ==
    ASSUME BooksInv, LedgerInv, NEW h, NEW t, Solo(h, t), t.op.kind = "cancel",
           CancelAllowed(t), db' = CancelEffect(t)
    PROVE  LedgerInv'
  <1> DEFINE n == t.op.invoice
             v == [db.invoice[n] EXCEPT !.status = "cancelled"]
  <1>1. n \in Invoices /\ HasFields(db) /\ t.snap = db /\ db \in DbType
    BY CancelType DEF Solo
  <1>2. /\ db'.invoice = [db.invoice EXCEPT ![n] = v]
        /\ db'.outstanding = db.outstanding /\ db'.account = db.account
    BY <1>1, CancelDelta
  <1>3. db.invoice[n].status = "draft" /\ db.invoice[n] \in InvoiceType
    BY <1>1 DEF CancelAllowed, HasFields
  <1>4. db.invoice[n].due = 0
    BY <1>1, <1>3 DEF BooksInv, SumsRight
  <1>5. v.due = 0
    BY <1>3, <1>4 DEF InvoiceType
  <1> HIDE DEF n, v
  <1> QED BY <1>1, <1>2, <1>4, <1>5, UnbilledLedger

LEMMA AccountLedger ==
    ASSUME LedgerInv, NEW h, NEW t, Solo(h, t), t.op.kind = "account",
           db' = AccountEffect(t)
    PROVE  LedgerInv'
  <1> DEFINE r == t.op
  <1>1. /\ r.customer \in Customers /\ t.stamp \in Days /\ HasFields(db)
        /\ t.snap = db /\ r.amount \in Nat /\ db \in DbType
    BY AccountType, WorkFields, KindOf DEF Solo, AccountRequests
  <1>2. /\ db'.invoice = db.invoice
        /\ db'.outstanding = Posted(db.outstanding, db.outstanding, r.customer, -r.amount)
        /\ db'.account = Plus(db.account, r.customer, r.amount)
    BY <1>1, AccountDelta
  <1> SUFFICES ASSUME NEW c \in Customers
               PROVE  db'.outstanding[c] = Owed(db'.invoice, c) - db'.account[c]
    BY DEF LedgerInv
  <1>3. db'.outstanding[c] = IF r.customer # NoCustomer /\ c = r.customer
                             THEN db.outstanding[c] + (-r.amount) ELSE db.outstanding[c]
    BY <1>1, <1>2, PostedBalance DEF HasFields
  <1>4. db'.account[c] = IF c = r.customer THEN db.account[c] + r.amount ELSE db.account[c]
    BY <1>1, <1>2 DEF Plus, HasFields
  <1>5. db.account[c] \in Int /\ db.outstanding[c] = Owed(db.invoice, c) - db.account[c]
    BY <1>1 DEF HasFields, LedgerInv
  <1>6. Owed(db.invoice, c) \in Int
    <2>1. \A i \in Invoices : Claims(db.invoice, c)[i] \in Int
      BY <1>1 DEF Claims, Claim, HasFields, InvoiceType
    <2> QED BY <2>1, InvoicesFinite, SumInt DEF Owed
  <1> QED BY <1>1, <1>2, <1>3, <1>4, <1>5, <1>6, TillAssumption

LEMMA InitLedger ==
    ASSUME Init PROVE LedgerInv
  <1> SUFFICES ASSUME NEW c \in Customers
               PROVE  db.outstanding[c] = Owed(db.invoice, c) - db.account[c]
    BY DEF LedgerInv
  <1>1. /\ db.outstanding[c] = 0 /\ db.account[c] = 0
        /\ \A i \in Invoices : db.invoice[i] = NoInvoice
    BY DEF Init, EmptyDb
  <1> DEFINE f == Claims(db.invoice, c)
  <1>2. \A i \in Invoices : f[i] = 0
    BY <1>1 DEF Claims, Claim, NoInvoice
  <1> HIDE DEF f
  <1>3. SumOver(Invoices, f) = 0
    BY <1>2, InvoicesFinite, SumZero
  <1> QED BY <1>1, <1>3 DEF Owed, f

LEMMA AsideKeepsLedger ==
    ASSUME LedgerInv, db'.invoice = db.invoice, db'.outstanding = db.outstanding,
           db'.account = db.account
    PROVE  LedgerInv'
  BY DEF LedgerInv

-----------------------------------------------------------------------------
(***************************************************************************)
(* The stock, as a sum over all requests of what each has moved.           *)
(***************************************************************************)
Moves(times) == [r \in Requests |-> times[r] * StockChange(r)]

StockInv == db.stock = OpeningStock + SumOver(Requests, Moves(applied))

LEMMA ChangeInt == ASSUME NEW r \in Requests PROVE StockChange(r) \in Int
  BY KindOf DEF StockChange, SaleRequests, AdjustRequests

LEMMA StockSum ==
    ASSUME TypeOK
    PROVE  MapThenSumSet(LAMBDA r : applied[r] * StockChange(r), Requests)
              = SumOver(Requests, Moves(applied))
  <1> DEFINE f == Moves(applied)
             g == CHOOSE g : g = [s \in SUBSET Requests |->
                    IF s = {} THEN 0
                    ELSE applied[One(s)] * StockChange(One(s)) + g[s \ {One(s)}]]
  <1>1. MapThenSumSet(LAMBDA r : applied[r] * StockChange(r), Requests) = g[Requests]
    BY Zenon DEF MapThenSumSet, MapThenFoldSet, One
  <1>2. PICK k : Adds(Requests, f, k)
    BY FiniteRequestAssumption, AddsExist
  <1>3. \A s \in SUBSET Requests :
           s # {} => f[One(s)] = applied[One(s)] * StockChange(One(s))
    BY OneIn DEF Moves
  <1> HIDE DEF f
  <1>4. k = [s \in SUBSET Requests |->
                IF s = {} THEN 0
                ELSE applied[One(s)] * StockChange(One(s)) + k[s \ {One(s)}]]
    BY <1>2, <1>3 DEF Adds
  <1>5. g = [s \in SUBSET Requests |->
                IF s = {} THEN 0
                ELSE applied[One(s)] * StockChange(One(s)) + g[s \ {One(s)}]]
    BY <1>4
  <1> HIDE DEF g
  <1>6. Adds(Requests, f, g)
    BY <1>3, <1>5 DEF Adds
  <1>7. SumOver(Requests, f) = g[Requests]
    BY <1>6, FiniteRequestAssumption, SumIs
  <1> QED BY <1>1, <1>7 DEF f

LEMMA StockStep ==
    ASSUME TypeOK, StockInv, NEW r \in Requests,
           applied' = [applied EXCEPT ![r] = @ + 1], db'.stock = db.stock + StockChange(r),
           db.stock \in Int
    PROVE  StockInv'
  <1> DEFINE f == Moves(applied)
             h == Moves(applied')
             d == StockChange(r)
  <1>1. applied[r] \in Nat /\ d \in Int
    BY ChangeInt DEF TypeOK
  <1>2. \A q \in Requests : f[q] \in Int
    <2> SUFFICES ASSUME NEW q \in Requests PROVE f[q] \in Int
      OBVIOUS
    <2>1. applied[q] \in Nat /\ StockChange(q) \in Int
      BY ChangeInt DEF TypeOK
    <2>2. f[q] = applied[q] * StockChange(q)
      BY DEF Moves
    <2> QED BY <2>1, <2>2
  <1>3. \A q \in Requests \ {r} : f[q] = h[q]
    BY DEF Moves, TypeOK
  <1>4. f[r] = applied[r] * d /\ h[r] = (applied[r] + 1) * d
    BY DEF Moves, TypeOK
  <1>5. h[r] = f[r] + d /\ h[r] \in Int
    <2> HIDE DEF f, h, d
    <2> QED BY <1>1, <1>4
  <1>6. \A q \in Requests : h[q] \in Int
    BY <1>2, <1>3, <1>5
  <1> HIDE DEF f, h
  <1>7. SumOver(Requests, h) = SumOver(Requests, f) + h[r] - f[r]
    BY <1>2, <1>3, <1>6, FiniteRequestAssumption, SumChange
  <1>8. SumOver(Requests, f) \in Int
    BY <1>2, FiniteRequestAssumption, SumInt
  <1>9. f[r] \in Int
    BY <1>2
  <1>10. db.stock = OpeningStock + SumOver(Requests, f)
    BY DEF StockInv, f
  <1>11. SumOver(Requests, h) = SumOver(Requests, f) + d
    BY <1>1, <1>5, <1>7, <1>8, <1>9
  <1>12. db'.stock = OpeningStock + SumOver(Requests, h)
    BY <1>1, <1>8, <1>10, <1>11, TillAssumption
  <1> QED BY <1>12 DEF StockInv, h

\* A commit of t, whose effect on the stock is what it stands for.
LEMMA SoloStock ==
    ASSUME TypeOK, StockInv, NEW h, NEW t, Solo(h, t), Posting(t.op),
           db'.stock = db.stock + StockChange(t.op)
    PROVE  StockInv'
  <1>1. t.op \in Requests /\ db.stock \in Int
    BY WorkFields DEF Solo, HasFields
  <1>2. applied' = [applied EXCEPT ![t.op] = @ + 1]
    BY DEF Solo
  <1> QED BY <1>1, <1>2, StockStep

LEMMA QuietStock ==
    ASSUME TypeOK, HasFields(db), StockInv, NEW h, NEW t, Solo(h, t), Posting(t.op),
           t.op.kind \notin {"sale", "adjust"}, db'.stock = db.stock
    PROVE  StockInv'
  <1>1. StockChange(t.op) = 0
    BY DEF StockChange
  <1>2. db'.stock = db.stock + StockChange(t.op)
    BY <1>1 DEF HasFields
  <1> QED BY <1>2, SoloStock

LEMMA InitStock ==
    ASSUME Init PROVE StockInv
  <1> DEFINE f == Moves(applied)
  <1>1. \A r \in Requests : f[r] = 0
    <2> SUFFICES ASSUME NEW r \in Requests PROVE f[r] = 0
      OBVIOUS
    <2>1. f[r] = 0 * StockChange(r)
      BY DEF Moves, Init
    <2>2. StockChange(r) \in Int
      BY ChangeInt
    <2> QED BY <2>1, <2>2
  <1> HIDE DEF f
  <1>2. SumOver(Requests, f) = 0
    BY <1>1, FiniteRequestAssumption, SumZero
  <1>3. db.stock = OpeningStock
    BY DEF Init, EmptyDb
  <1> QED BY <1>2, <1>3, TillAssumption DEF StockInv, f


\* The ledger and the stock agree with what was committed.
SumsInv == LedgerInv /\ StockInv

LEMMA SaleSums ==
    ASSUME TypeOK, BooksInv, SumsInv, NEW h, NEW t, Solo(h, t), t.op.kind = "sale",
           SaleAllowed(t), db' = SaleEffect(t)
    PROVE  SumsInv'
  <1>1. SaleInvoiceId(t) \in Invoices /\ t.stamp \in Days /\ db \in DbType
        /\ t.op \in SaleRequests
    BY SaleType, WorkFields, KindOf DEF Solo
  <1>2. db'.stock = db.stock - t.op.quantity
    BY <1>1, SaleDelta
  <1>3. StockChange(t.op) = -t.op.quantity /\ t.op.quantity \in Nat
    BY <1>1 DEF StockChange, SaleRequests
  <1>4. db'.stock = db.stock + StockChange(t.op)
    BY <1>2, <1>3 DEF Solo, HasFields
  <1>5. Posting(t.op)
    BY DEF Posting
  <1> QED BY <1>4, <1>5, SaleLedger, SoloStock DEF SumsInv

LEMMA CollectSums ==
    ASSUME TypeOK, BooksInv, SumsInv, NEW h, NEW t, Solo(h, t), t.op.kind = "collect",
           CollectAllowed(t), db' = CollectEffect(t)
    PROVE  SumsInv'
  <1>1. t.op.invoice \in Invoices /\ t.stamp \in Days /\ db \in DbType
    BY CollectType, WorkFields DEF Solo
  <1>2. db'.stock = db.stock
    BY <1>1, CollectDelta
  <1>3. Posting(t.op) /\ HasFields(db) /\ t.op.kind \notin {"sale", "adjust"}
    BY DEF Posting, Solo
  <1> QED BY <1>2, <1>3, CollectLedger, QuietStock DEF SumsInv

LEMMA VoidSums ==
    ASSUME TypeOK, BooksInv, SumsInv, NEW h, NEW t, Solo(h, t), t.op.kind = "void",
           VoidAllowed(t), db' = VoidEffect(t)
    PROVE  SumsInv'
  <1>1. t.op.invoice \in Invoices /\ db \in DbType
    BY VoidType DEF Solo
  <1>2. db'.stock = db.stock
    BY <1>1, VoidDelta
  <1>3. Posting(t.op) /\ HasFields(db) /\ t.op.kind \notin {"sale", "adjust"}
    BY DEF Posting, Solo
  <1> QED BY <1>2, <1>3, VoidLedger, QuietStock DEF SumsInv

LEMMA DraftSums ==
    ASSUME TypeOK, BooksInv, SumsInv, NEW h, NEW t, Solo(h, t), t.op.kind = "draft",
           DraftAllowed(t), db' = DraftEffect(t)
    PROVE  SumsInv'
  <1>1. t.snap.lastInvoice + 1 \in Invoices /\ db \in DbType
    BY DraftType DEF Solo
  <1>2. db'.stock = db.stock
    BY <1>1, DraftDelta
  <1>3. Posting(t.op) /\ HasFields(db) /\ t.op.kind \notin {"sale", "adjust"}
    BY DEF Posting, Solo
  <1> QED BY <1>2, <1>3, DraftLedger, QuietStock DEF SumsInv

LEMMA CancelSums ==
    ASSUME TypeOK, BooksInv, SumsInv, NEW h, NEW t, Solo(h, t), t.op.kind = "cancel",
           CancelAllowed(t), db' = CancelEffect(t)
    PROVE  SumsInv'
  <1>1. t.op.invoice \in Invoices /\ db \in DbType
    BY CancelType DEF Solo
  <1>2. db'.stock = db.stock
    BY <1>1, CancelDelta
  <1>3. Posting(t.op) /\ HasFields(db) /\ t.op.kind \notin {"sale", "adjust"}
    BY DEF Posting, Solo
  <1> QED BY <1>2, <1>3, CancelLedger, QuietStock DEF SumsInv

LEMMA AccountSums ==
    ASSUME TypeOK, SumsInv, NEW h, NEW t, Solo(h, t), t.op.kind = "account",
           db' = AccountEffect(t)
    PROVE  SumsInv'
  <1>1. t.op.customer \in Customers /\ t.stamp \in Days /\ db \in DbType
    BY AccountType, WorkFields DEF Solo
  <1>2. db'.stock = db.stock
    BY <1>1, AccountDelta
  <1>3. Posting(t.op) /\ HasFields(db) /\ t.op.kind \notin {"sale", "adjust"}
    BY DEF Posting, Solo
  <1> QED BY <1>2, <1>3, AccountLedger, QuietStock DEF SumsInv

LEMMA AdjustSums ==
    ASSUME TillInv, SumsInv, NEW h, AdjustStock(h)
    PROVE  SumsInv'
  <1>1. PICK t : /\ Commits(h, t, AdjustWrites(t), AdjustEffect(t))
                 /\ t.op.kind = "adjust"
                 /\ AdjustAllowed(t)
    BY AdjustStockStep DEF TillInv
  <1>2. t \in Work /\ db' = AdjustEffect(t) /\ db \in DbType /\ TypeOK
    BY <1>1 DEF Commits, CommitTxn, TillInv, TypeOK
  <1>3. /\ db'.invoice = db.invoice /\ db'.outstanding = db.outstanding
        /\ db'.account = db.account /\ db'.stock = db.stock + t.op.change
    BY <1>2, AdjustDelta
  <1>4. StockChange(t.op) = t.op.change /\ Posting(t.op) /\ t.op \in Requests
    BY <1>1, <1>2, WorkFields DEF StockChange, Posting
  <1>5. applied' = [applied EXCEPT ![t.op] = @ + 1]
    BY <1>1, <1>4 DEF Commits
  <1>6. db.stock \in Int
    BY <1>2, DbFields DEF HasFields
  <1>7. db'.stock = db.stock + StockChange(t.op)
    BY <1>3, <1>4
  <1>8. StockInv'
    BY <1>2, <1>4, <1>5, <1>6, <1>7, StockStep DEF SumsInv
  <1> QED BY <1>3, <1>8, AsideKeepsLedger DEF SumsInv

LEMMA ClosingSums ==
    ASSUME TillInv, SumsInv, NEW h, Closing(h)
    PROVE  SumsInv'
  <1>1. PICK t : /\ Commits(h, t, DayWrites(t), DayEffect(t))
                 /\ t.op.kind \in {"open", "submit", "close", "reopen"}
                 /\ DayAllowed(t)
    BY ClosingStep DEF TillInv
  <1>2. t \in Work /\ db' = DayEffect(t) /\ db \in DbType /\ TypeOK
    BY <1>1 DEF Commits, CommitTxn, TillInv, TypeOK
  <1>3. t.op.date \in Days
    BY <1>1, <1>2, DayType
  <1>4. /\ db'.invoice = db.invoice /\ db'.outstanding = db.outstanding
        /\ db'.account = db.account /\ db'.stock = db.stock
    BY <1>2, <1>3, DayDelta
  <1>5. applied' = applied
    BY <1>1, <1>2 DEF Commits, Posting, TypeOK
  <1>6. StockInv'
    BY <1>4, <1>5 DEF SumsInv, StockInv
  <1> QED BY <1>4, <1>6, AsideKeepsLedger DEF SumsInv

\* The sums agree in every state.
THEOREM SumsHold == Spec => []SumsInv
  <1>1. Init => SumsInv
    BY InitLedger, InitStock DEF SumsInv
  <1>2. SumsInv /\ BooksInv /\ TillInv /\ [Next]_vars => SumsInv'
    <2> SUFFICES ASSUME SumsInv, BooksInv, TillInv, [Next]_vars PROVE SumsInv'
      OBVIOUS
    <2>0. TypeOK
      BY DEF TillInv
    <2>1. ASSUME NEW h \in Handlers, Checkout(h) PROVE SumsInv'
      BY <2>0, <2>1, SaleRun, SaleSums
    <2>2. ASSUME NEW h \in Handlers, CollectPayment(h) PROVE SumsInv'
      BY <2>0, <2>2, CollectRun, CollectSums
    <2>3. ASSUME NEW h \in Handlers, VoidInvoice(h) PROVE SumsInv'
      BY <2>0, <2>3, VoidRun, VoidSums
    <2>4. ASSUME NEW h \in Handlers, CreateDraft(h) PROVE SumsInv'
      BY <2>0, <2>4, DraftRun, DraftSums
    <2>5. ASSUME NEW h \in Handlers, CancelDraft(h) PROVE SumsInv'
      BY <2>0, <2>5, CancelRun, CancelSums
    <2>6. ASSUME NEW h \in Handlers, PayAccount(h) PROVE SumsInv'
      BY <2>0, <2>6, AccountRun, AccountSums
    <2>7. ASSUME NEW h \in Handlers, AdjustStock(h) PROVE SumsInv'
      BY <2>7, AdjustSums
    <2>8. ASSUME NEW h \in Handlers, Closing(h) PROVE SumsInv'
      BY <2>8, ClosingSums
    <2>9. ASSUME db' = db, applied' = applied PROVE SumsInv'
      BY <2>9 DEF SumsInv, LedgerInv, StockInv
    <2>10. ASSUME NEW h \in Handlers, Begin(h) \/ ReplayCheckout(h) \/ Abandon(h)
           PROVE  SumsInv'
      BY <2>9, <2>10 DEF Begin, ReplayCheckout, Abandon
    <2>11. CASE Midnight \/ UNCHANGED vars
      BY <2>9, <2>11 DEF Midnight, vars
    <2> QED
      BY <2>1, <2>2, <2>3, <2>4, <2>5, <2>6, <2>7, <2>8, <2>10, <2>11 DEF Next, Step
  <1> QED BY <1>1, <1>2, BooksHold, TillInvariant, PTL DEF Spec

\* A customer's stored balance, which every posting rewrites from what it read,
\* is what the customer owes on invoices less what was paid on account.
THEOREM LedgerAlwaysReconciles == Spec => []LedgerReconciles
  <1>1. SumsInv /\ TypeOK => LedgerReconciles
    <2> SUFFICES ASSUME SumsInv, TypeOK, NEW c \in Customers
                 PROVE  db.outstanding[c] = OpenBalance(c) - db.account[c]
      BY DEF LedgerReconciles
    <2>1. db.invoice \in [Invoices -> InvoiceType]
      BY DbFields DEF TypeOK, HasFields
    <2> QED BY <2>1, OpenBalanceIsOwed DEF SumsInv, LedgerInv
  <1> QED BY <1>1, SumsHold, TypeCorrect, PTL

\* What is on hand is the opening stock with every committed sale and
\* adjustment applied once.
THEOREM StockAlwaysReconciles == Spec => []StockReconciles
  <1>1. SumsInv /\ TypeOK => StockReconciles
    BY StockSum DEF SumsInv, StockInv, StockReconciles
  <1> QED BY <1>1, SumsHold, TypeCorrect, PTL
=============================================================================
