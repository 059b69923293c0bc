--------------------------- MODULE HubSyncProofs ---------------------------
(***************************************************************************)
(* Safety of the hub's synchronisation with the cloud, for every set of    *)
(* orders and bill requests, and its refinement of StatusFeed.             *)
(***************************************************************************)
EXTENDS HubSync, FiniteSetTheorems, FunctionTheorems, SequenceTheorems,
        WellFoundedInduction, TLAPS

Awaiting == "awaiting_cafe_confirmation"
Statuses == OrderStatuses \cup {Awaiting}

RowType == [state: {"pending", "waiting", "retry", "sent", "processed", "dead_letter"},
            attempts: Nat, letter: {"none", "open", "retry_pending"}]
EventType == [kind: {"submitted", "imported", "status_changed"}, v: Nat, status: Statuses]
UploadType == [order: Orders, event: EventType, row: RowType]
CommandType == [what: Orders \cup Bills, status: {"pending", "acknowledged"}]
OrderType == [status: OrderStatuses, version: Nat, session: Nat]
WorkerType == [at: {"idle", "inbox", "outbox", "sending"}, ready: BOOLEAN,
               batch: SUBSET Nat, reply: {"none", "applied", "duplicate", "rejected"}]

TypeOK ==
    /\ cloudOrder \in [Orders -> SAFE_CLOUD_STATUSES \cup {"none"}]
    /\ cloudEvents \in [Orders -> Seq(EventType)]
    /\ commands \in Seq(CommandType)
    /\ inbox \in [DOMAIN inbox -> RowType]
    /\ DOMAIN inbox \subseteq DOMAIN commands
    /\ outbox \in Seq(UploadType)
    /\ applied \subseteq DOMAIN inbox
    /\ order \in [Orders -> OrderType]
    /\ sessions \in Seq({"open", "bill_requested", "billed", "closed"})
    /\ worker \in WorkerType
    /\ wire \subseteq DOMAIN outbox

\* Where the worker is, and what it holds there.
WorkerInv ==
    /\ worker.at = "inbox" => worker.batch \subseteq DOMAIN inbox
    /\ worker.at \in {"outbox", "sending"} => worker.batch \subseteq DOMAIN outbox
    /\ worker.at = "sending" => worker.batch # {}
    /\ worker.at # "sending" => worker.reply = "none"

\* An order of the cloud has a log, numbered from 1, of its submission and of
\* uploads.
LogOf(o) ==
    LET log == cloudEvents[o]
    IN  /\ cloudOrder[o] = "none" <=> log = <<>>
        /\ Len(log) = 1 => cloudOrder[o] = Awaiting
        /\ \A k \in DOMAIN log : log[k].v = k
        /\ \A k \in DOMAIN log : k > 1 =>
             \E i \in UploadsOf(o) : log[k] = outbox[i].event

LogInv == \A o \in Orders : LogOf(o)

\* There is one command for an order at most, and then the cloud has the order.
CommandInv ==
    /\ \A i \in DOMAIN commands :
         commands[i].what \in Orders => cloudOrder[commands[i].what] # "none"
    /\ \A i, j \in DOMAIN commands : commands[i].what = commands[j].what => i = j

\* The hub has an order by its command, and publishes orders it has.
ImportInv ==
    /\ \A o \in Orders : order[o] # NoOrder =>
         /\ order[o].version > 0 /\ order[o].status # "none"
         /\ order[o].session \in DOMAIN sessions
         /\ \E i \in applied : commands[i].what = o
    /\ \A i \in DOMAIN outbox : order[outbox[i].order] # NoOrder

\* Until it is billed, an order has been published in each of its versions.
UploadInv ==
    /\ \A i \in DOMAIN outbox :
         LET e == outbox[i].event
         IN  /\ e.kind = "imported" => e.v = 2 /\ e.status = Awaiting
             /\ e.kind # "submitted"
    /\ PublishedWithoutGap
    /\ \A o \in Orders : order[o].status \notin {"billed", "closed"} =>
         Cardinality(UploadsOf(o)) = order[o].version

\* An upload is in the cloud's log.
Mirrored(i) ==
    LET e == outbox[i].event
        log == cloudEvents[outbox[i].order]
    IN  e.v \in DOMAIN log /\ log[e.v] = e

\* What the worker is told is so.
AnswerInv ==
    worker.reply \in {"applied", "duplicate"} => Mirrored(First(worker.batch))

SyncInv ==
    /\ TypeOK /\ WorkerInv /\ LogInv /\ CommandInv /\ ImportInv /\ UploadInv
    /\ AnswerInv /\ SentIsMirrored /\ AcknowledgedIsImported /\ FailuresAreVisible

-----------------------------------------------------------------------------
(* Numbers, ranks and sequences.                                           *)

\* The least of a set of naturals.
LEMMA FirstIsIn ==
    ASSUME NEW S, S \subseteq Nat, S # {}
    PROVE  First(S) \in S
  <1>1. PICK x \in S : \A y \in S : <<y, x>> \notin OpToRel(<, Nat)
    BY NatLessThanWellFounded, WFMin
  <1>2. \A y \in S : ~ (y < x)
    BY <1>1 DEF OpToRel
  <1>3. \A y \in S : x <= y
    BY <1>2
  <1> QED BY <1>3 DEF First

Rank(S, f, x) == Cardinality({y \in S : f[y] < f[x]})

\* The elements of a finite set with n distinct numbers have the ranks
\* 0 to n - 1.
LEMMA RankExists ==
    ASSUME NEW S, IsFiniteSet(S), NEW f \in [S -> Int],
           \A x, y \in S : f[x] = f[y] => x = y
    PROVE  /\ \A x \in S : Rank(S, f, x) \in 0..(Cardinality(S) - 1)
           /\ \A x, y \in S : Rank(S, f, x) = Rank(S, f, y) => x = y
           /\ \A k \in 0..(Cardinality(S) - 1) : \E x \in S : Rank(S, f, x) = k
  <1> DEFINE B(x) == {y \in S : f[y] < f[x]}
             n == Cardinality(S)
  <1>1. \A x \in S : IsFiniteSet(B(x)) /\ Cardinality(B(x)) \in Nat
    BY FS_Subset, FS_CardinalityType
  <1>2. n \in Nat
    BY FS_CardinalityType
  <1>3. ASSUME NEW x \in S PROVE Cardinality(B(x)) \in 0..(n - 1)
    <2>1. IsFiniteSet(S \ {x}) /\ Cardinality(S \ {x}) = n - 1
      BY FS_RemoveElement
    <2>2. B(x) \in SUBSET (S \ {x})
      OBVIOUS
    <2>3. Cardinality(B(x)) <= n - 1
      BY <2>1, <2>2, FS_Subset
    <2>4. Cardinality(B(x)) \in Nat
      BY <1>1
    <2> HIDE DEF B, n
    <2> QED BY <2>3, <2>4, <1>2
  <1>4. ASSUME NEW x \in S, NEW y \in S, f[x] < f[y]
        PROVE  Cardinality(B(x)) # Cardinality(B(y))
    <2>1. B(x) \in SUBSET B(y) /\ x \in B(y) /\ x \notin B(x)
      BY <1>4
    <2> QED BY <2>1, <1>1, FS_Subset
  <1>5. ASSUME NEW x \in S, NEW y \in S, x # y
        PROVE  Cardinality(B(x)) # Cardinality(B(y))
    <2>1. f[x] < f[y] \/ f[y] < f[x]
      BY <1>5
    <2> QED BY <2>1, <1>4
  <1> DEFINE g == [x \in S |-> Cardinality(B(x))]
  <1>6. g \in Injection(S, 0..(n - 1))
    <2>1. g \in [S -> 0..(n - 1)]
      BY <1>3
    <2>2. \A x, y \in S : g[x] = g[y] => x = y
      BY <1>5
    <2> HIDE DEF g
    <2> QED BY <2>1, <2>2 DEF Injection, IsInjective
  <1>7. IsFiniteSet(0..(n - 1)) /\ Cardinality(0..(n - 1)) = n
    BY <1>2, FS_Interval
  <1>8. g \in Surjection(S, 0..(n - 1))
    BY <1>6, <1>7, FS_Injection
  <1>9. \A k \in 0..(n - 1) : \E x \in S : g[x] = k
    BY <1>8 DEF Surjection
  <1> QED BY <1>3, <1>5, <1>9 DEF Rank

LEMMA SeqIntro ==
    ASSUME NEW S, NEW n \in Nat, NEW f \in [1..n -> S]
    PROVE  f \in Seq(S) /\ Len(f) = n /\ DOMAIN f = 1..n
  BY SeqDef, LenProperties

\* The orders of a set, and none else, are placed one after the other.
LEMMA PlacedOnce ==
    ASSUME NEW S \in SUBSET Orders, CommandInv, commands \in Seq(CommandType),
           \A o \in S : \E i \in DOMAIN commands : commands[i].what = o
    PROVE  /\ Cardinality(S) \in Nat /\ Placed(S) \in Seq(S)
           /\ DOMAIN Placed(S) = 1..Cardinality(S)
           /\ \A o \in S : \E k \in 1..Cardinality(S) : Placed(S)[k] = o
           /\ \A j, k \in 1..Cardinality(S) : Placed(S)[j] = Placed(S)[k] => j = k
  <1> DEFINE f == [o \in S |-> Position(o)]
             n == Cardinality(S)
  <1>1. DOMAIN commands = 1..Len(commands) /\ Len(commands) \in Nat
    BY LenProperties
  <1>2. \A o \in S : f[o] \in 1..Len(commands) /\ commands[f[o]].what = o
    BY <1>1 DEF Position
  <1> HIDE DEF f
  <1>3. f \in [S -> 1..Len(commands)] /\ \A x, y \in S : f[x] = f[y] => x = y
    <2>1. f = [o \in S |-> f[o]]
      BY DEF f
    <2> QED BY <1>2, <2>1
  <1>4. IsFiniteSet(S)
    <2>1. f \in Injection(S, 1..Len(commands))
      BY <1>3 DEF Injection, IsInjective
    <2>2. IsFiniteSet(1..Len(commands))
      BY <1>1, FS_Interval
    <2> QED BY <2>1, <2>2, FS_Injection
  <1>5. n \in Nat
    BY <1>4, FS_CardinalityType
  <1>6. f \in [S -> Int]
    BY <1>1, <1>3
  <1> DEFINE R(o) == Cardinality({p \in S : Position(p) < Position(o)})
  <1>7. \A o \in S : R(o) = Rank(S, f, o)
    <2> SUFFICES ASSUME NEW o \in S PROVE R(o) = Rank(S, f, o)
      OBVIOUS
    <2>1. {p \in S : Position(p) < Position(o)} = {p \in S : f[p] < f[o]}
      BY DEF f
    <2> QED BY <2>1 DEF Rank
  <1> HIDE DEF R, n
  <1>8. /\ \A o \in S : R(o) \in 0..(n - 1)
        /\ \A x, y \in S : R(x) = R(y) => x = y
        /\ \A k \in 0..(n - 1) : \E x \in S : R(x) = k
    BY <1>3, <1>4, <1>6, <1>7, RankExists DEF n
  <1> DEFINE P == Placed(S)
  <1>9. P = [k \in 1..n |-> CHOOSE o \in S : R(o) = k - 1]
    BY DEF Placed, R, n
  <1> HIDE DEF P
  <1>10. \A k \in 1..n : P[k] \in S /\ R(P[k]) = k - 1
    <2> SUFFICES ASSUME NEW k \in 1..n PROVE P[k] \in S /\ R(P[k]) = k - 1
      OBVIOUS
    <2>1. k - 1 \in 0..(n - 1)
      BY <1>5
    <2>2. PICK x \in S : R(x) = k - 1
      BY <1>8, <2>1
    <2>3. P[k] = CHOOSE o \in S : R(o) = k - 1
      BY <1>9
    <2> QED BY <2>2, <2>3
  <1>11. P \in [1..n -> S]
    BY <1>9, <1>10
  <1>12. P \in Seq(S) /\ DOMAIN P = 1..n
    BY <1>5, <1>11, SeqIntro
  <1>13. \A o \in S : \E k \in 1..n : P[k] = o
    <2> SUFFICES ASSUME NEW o \in S PROVE \E k \in 1..n : P[k] = o
      OBVIOUS
    <2>1. R(o) + 1 \in 1..n /\ (R(o) + 1) - 1 = R(o)
      BY <1>5, <1>8
    <2> QED BY <1>8, <1>10, <2>1
  <1>14. \A j, k \in 1..n : P[j] = P[k] => j = k
    <2> SUFFICES ASSUME NEW j \in 1..n, NEW k \in 1..n, P[j] = P[k] PROVE j = k
      OBVIOUS
    <2>1. j - 1 = k - 1
      BY <1>10
    <2> QED BY <1>5, <2>1
  <1> QED BY <1>5, <1>12, <1>13, <1>14 DEF P, n

-----------------------------------------------------------------------------
(* Uploads.                                                                *)

\* The uploads keep their order and event, and their places.
UploadsStay ==
    /\ DOMAIN outbox \subseteq DOMAIN outbox'
    /\ \A i \in DOMAIN outbox : /\ outbox'[i].order = outbox[i].order
                                /\ outbox'[i].event = outbox[i].event

\* One upload is added for every order of P: its next version, with status s.
Publishes(P, s) ==
    /\ outbox' \in Seq(UploadType) /\ Len(outbox) <= Len(outbox')
    /\ \A i \in 1..Len(outbox) : outbox'[i] = outbox[i]
    /\ \A i \in Len(outbox) + 1..Len(outbox') :
         LET u == outbox'[i]
         IN  /\ u.order \in P
             /\ u.row = NewRow
             /\ u.event.v = 2 + order[u.order].version
             /\ u.event.status = s
             /\ u.event.kind = "imported" => u.event.v = 2 /\ s = Awaiting
             /\ u.event.kind # "submitted"
    /\ \A o \in P : \E i \in Len(outbox) + 1..Len(outbox') : outbox'[i].order = o
    /\ \A i, j \in Len(outbox) + 1..Len(outbox') :
         outbox'[i].order = outbox'[j].order => i = j

LEMMA OutboxDomain ==
    ASSUME outbox \in Seq(UploadType)
    PROVE  /\ Len(outbox) \in Nat /\ DOMAIN outbox = 1..Len(outbox)
           /\ \A i \in DOMAIN outbox :
                /\ outbox[i] \in UploadType /\ outbox[i].order \in Orders
                /\ outbox[i].event \in EventType /\ outbox[i].row \in RowType
  <1>1. Len(outbox) \in Nat /\ DOMAIN outbox = 1..Len(outbox)
    BY LenProperties
  <1>2. \A i \in 1..Len(outbox) : outbox[i] \in UploadType
    BY ElementOfSeq
  <1>3. \A u \in UploadType : u.order \in Orders /\ u.event \in EventType /\ u.row \in RowType
    BY DEF UploadType
  <1> QED BY <1>1, <1>2, <1>3

LEMMA UploadsFinite ==
    ASSUME outbox \in Seq(UploadType), NEW o \in Orders
    PROVE  /\ IsFiniteSet(UploadsOf(o)) /\ Cardinality(UploadsOf(o)) \in Nat
           /\ UploadsOf(o) \subseteq 1..Len(outbox)
           /\ \A i \in UploadsOf(o) :
                /\ IsFiniteSet({j \in UploadsOf(o) : j < i})
                /\ Before(i) = Cardinality({j \in UploadsOf(o) : j < i})
                /\ Before(i) \in Nat
  <1>1. UploadsOf(o) \subseteq 1..Len(outbox) /\ IsFiniteSet(1..Len(outbox))
    BY OutboxDomain, FS_Interval DEF UploadsOf
  <1>2. IsFiniteSet(UploadsOf(o)) /\ Cardinality(UploadsOf(o)) \in Nat
    BY <1>1, FS_Subset, FS_CardinalityType
  <1>3. ASSUME NEW i \in UploadsOf(o)
        PROVE  /\ IsFiniteSet({j \in UploadsOf(o) : j < i})
               /\ Before(i) = Cardinality({j \in UploadsOf(o) : j < i})
    <2>1. outbox[i].order = o
      BY DEF UploadsOf
    <2>2. {j \in UploadsOf(o) : j < i} \in SUBSET UploadsOf(o)
      OBVIOUS
    <2> QED BY <1>2, <2>1, <2>2, FS_Subset DEF Before
  <1> QED BY <1>1, <1>2, <1>3, FS_CardinalityType

\* The uploads of an order have the ranks 0, 1, 2, ...
LEMMA UploadRanks ==
    ASSUME outbox \in Seq(UploadType), NEW o \in Orders
    PROVE  LET n == Cardinality(UploadsOf(o))
           IN  /\ \A i \in UploadsOf(o) : Before(i) \in 0..(n - 1)
               /\ \A i, j \in UploadsOf(o) : Before(i) = Before(j) => i = j
               /\ \A k \in 0..(n - 1) : \E i \in UploadsOf(o) : Before(i) = k
  <1> DEFINE S == UploadsOf(o)
             f == [i \in S |-> i]
  <1>1. IsFiniteSet(S) /\ S \subseteq Int
    BY UploadsFinite, OutboxDomain
  <1>2. f \in [S -> Int] /\ \A x, y \in S : f[x] = f[y] => x = y
    BY <1>1
  <1>3. \A i \in S : Before(i) = Rank(S, f, i)
    <2> SUFFICES ASSUME NEW i \in S PROVE Before(i) = Rank(S, f, i)
      OBVIOUS
    <2>1. {j \in S : f[j] < f[i]} = {j \in S : j < i}
      OBVIOUS
    <2> QED BY <2>1, UploadsFinite DEF Rank
  <1> HIDE DEF S, f
  <1>4. /\ \A x \in S : Rank(S, f, x) \in 0..(Cardinality(S) - 1)
        /\ \A x, y \in S : Rank(S, f, x) = Rank(S, f, y) => x = y
        /\ \A k \in 0..(Cardinality(S) - 1) : \E x \in S : Rank(S, f, x) = k
    BY <1>1, <1>2, RankExists
  <1> QED BY <1>3, <1>4 DEF S

LEMMA SameUploads ==
    ASSUME UploadsStay, DOMAIN outbox' = DOMAIN outbox, outbox \in Seq(UploadType)
    PROVE  /\ \A o \in Orders : UploadsOf(o)' = UploadsOf(o)
           /\ \A i \in DOMAIN outbox : Before(i)' = Before(i)
           /\ UploadInv /\ order' = order => UploadInv'
  <1>1. \A o \in Orders : UploadsOf(o)' = UploadsOf(o)
    BY DEF UploadsStay, UploadsOf
  <1>2. ASSUME NEW i \in DOMAIN outbox PROVE Before(i)' = Before(i)
    <2>1. outbox'[i].order = outbox[i].order /\ outbox[i].order \in Orders
      BY OutboxDomain DEF UploadsStay
    <2> QED BY <1>1, <2>1 DEF Before
  <1>3. ASSUME UploadInv, order' = order PROVE UploadInv'
    BY <1>1, <1>2, <1>3 DEF UploadInv, PublishedWithoutGap, UploadsStay
  <1> QED BY <1>1, <1>2, <1>3

LEMMA PublishedOnce ==
    ASSUME outbox \in Seq(UploadType), NEW P \in SUBSET Orders, NEW s, Publishes(P, s)
    PROVE  /\ UploadsStay
           /\ \A o \in Orders \ P : UploadsOf(o)' = UploadsOf(o)
           /\ \A o \in P : \E i \in Len(outbox) + 1..Len(outbox') :
                /\ outbox'[i].order = o
                /\ UploadsOf(o)' = UploadsOf(o) \cup {i}
                /\ Cardinality(UploadsOf(o)') = Cardinality(UploadsOf(o)) + 1
                /\ Before(i)' = Cardinality(UploadsOf(o))
           /\ \A i \in DOMAIN outbox : Before(i)' = Before(i)
  <1> DEFINE m == Len(outbox)
             n == Len(outbox')
  <1>0. /\ m \in Nat /\ n \in Nat /\ m <= n
        /\ DOMAIN outbox = 1..m /\ DOMAIN outbox' = 1..n
    BY LenProperties DEF Publishes
  <1>1. \A i \in 1..m : outbox'[i] = outbox[i]
    BY DEF Publishes
  <1>2. \A i \in m + 1..n : outbox'[i].order \in P
    BY DEF Publishes
  <1>3. \A o \in P : \E i \in m + 1..n : outbox'[i].order = o
    BY DEF Publishes
  <1>4. \A i, j \in m + 1..n : outbox'[i].order = outbox'[j].order => i = j
    BY DEF Publishes
  <1> HIDE DEF m, n
  <1>5. UploadsStay
    BY <1>0, <1>1 DEF UploadsStay
  <1>6. \A o : /\ UploadsOf(o) = {i \in 1..m : outbox[i].order = o}
               /\ UploadsOf(o)' = {i \in 1..n : outbox'[i].order = o}
    BY <1>0 DEF UploadsOf
  <1>7. \A o \in Orders \ P : UploadsOf(o)' = UploadsOf(o)
    <2> SUFFICES ASSUME NEW o \in Orders \ P PROVE UploadsOf(o)' = UploadsOf(o)
      OBVIOUS
    <2>1. \A i : i \in UploadsOf(o)' <=> i \in 1..n /\ outbox'[i].order = o
      BY <1>6
    <2>2. \A i : i \in UploadsOf(o) <=> i \in 1..m /\ outbox[i].order = o
      BY <1>6
    <2>3. \A i \in 1..n : i \in 1..m \/ outbox'[i].order \in P
      BY <1>0, <1>2
    <2>4. 1..m \subseteq 1..n
      BY <1>0
    <2> QED BY <1>1, <2>1, <2>2, <2>3, <2>4
  <1>11. \A i : Before(i)' = Cardinality({j \in {k \in DOMAIN outbox' :
                                 outbox'[k].order = outbox'[i].order} : j < i})
    BY DEF Before, UploadsOf
  <1>8. ASSUME NEW o \in P, NEW i \in m + 1..n, outbox'[i].order = o
        PROVE  /\ UploadsOf(o)' = UploadsOf(o) \cup {i}
               /\ i \notin UploadsOf(o)
               /\ {j \in UploadsOf(o)' : j < i} = UploadsOf(o)
    <2>1. UploadsOf(o) \subseteq 1..m /\ i \notin 1..m
      BY <1>0, <1>6
    <2>2. UploadsOf(o)' = UploadsOf(o) \cup {i}
      BY <1>0, <1>1, <1>4, <1>6, <1>8
    <2> QED BY <1>0, <2>1, <2>2
  <1>9. ASSUME NEW o \in P
        PROVE  \E i \in m + 1..n :
                /\ outbox'[i].order = o
                /\ UploadsOf(o)' = UploadsOf(o) \cup {i}
                /\ Cardinality(UploadsOf(o)') = Cardinality(UploadsOf(o)) + 1
                /\ Before(i)' = Cardinality(UploadsOf(o))
    <2>1. PICK i \in m + 1..n : outbox'[i].order = o
      BY <1>3
    <2>2. /\ UploadsOf(o)' = UploadsOf(o) \cup {i}
          /\ i \notin UploadsOf(o)
          /\ {j \in UploadsOf(o)' : j < i} = UploadsOf(o)
      BY <1>8, <2>1
    <2>3. IsFiniteSet(UploadsOf(o))
      BY UploadsFinite
    <2>4. Cardinality(UploadsOf(o)') = Cardinality(UploadsOf(o)) + 1
      BY <2>2, <2>3, FS_AddElement
    <2>5. Before(i)' = Cardinality({j \in UploadsOf(o)' : j < i})
      <3>1. UploadsOf(o)' = {k \in DOMAIN outbox' : outbox'[k].order = outbox'[i].order}
        BY <2>1 DEF UploadsOf
      <3> QED BY <1>11, <3>1
    <2> QED BY <2>1, <2>2, <2>4, <2>5
  <1>10. ASSUME NEW i \in DOMAIN outbox PROVE Before(i)' = Before(i)
    <2>1. outbox'[i].order = outbox[i].order /\ i \in 1..m
      BY <1>0, <1>1
    <2>2. PICK o \in Orders : o = outbox[i].order
      BY OutboxDomain
    <2>3. \A j : j \in UploadsOf(o)' <=> j \in 1..n /\ outbox'[j].order = o
      BY <1>6
    <2>4. \A j : j \in UploadsOf(o) <=> j \in 1..m /\ outbox[j].order = o
      BY <1>6
    <2>5. \A j \in 1..n : j < i => j \in 1..m
      BY <1>0, <2>1
    <2>6. 1..m \subseteq 1..n
      BY <1>0
    <2>7. {j \in UploadsOf(o)' : j < i} = {j \in UploadsOf(o) : j < i}
      BY <1>1, <2>3, <2>4, <2>5, <2>6
    <2>8. Before(i)' = Cardinality({j \in UploadsOf(o)' : j < i})
      <3>1. UploadsOf(o)' = {k \in DOMAIN outbox' : outbox'[k].order = outbox'[i].order}
        BY <2>1, <2>2 DEF UploadsOf
      <3> QED BY <1>11, <3>1
    <2>9. Before(i) = Cardinality({j \in UploadsOf(o) : j < i})
      BY <2>2 DEF Before
    <2> QED BY <2>7, <2>8, <2>9
  <1> QED BY <1>5, <1>7, <1>9, <1>10 DEF m, n

\* The rows one transaction adds to the outbox: one for every order of P, each
\* with the version and the status the order then has.
Batch(rows, P, s) ==
    /\ rows \in Seq(UploadType)
    /\ \A k \in 1..Len(rows) :
         /\ rows[k].order \in P /\ rows[k].row = NewRow
         /\ rows[k].event.v = 2 + order[rows[k].order].version
         /\ rows[k].event.status = s
         /\ rows[k].event.kind = "imported" => rows[k].event.v = 2 /\ s = Awaiting
         /\ rows[k].event.kind # "submitted"
    /\ \A o \in P : \E k \in 1..Len(rows) : rows[k].order = o
    /\ \A j, k \in 1..Len(rows) : rows[j].order = rows[k].order => j = k

LEMMA EnqueuePublishes ==
    ASSUME outbox \in Seq(UploadType), NEW rows, NEW P \in SUBSET Orders, NEW s,
           Enqueue(rows), Batch(rows, P, s)
    PROVE  Publishes(P, s)
  <1> DEFINE m == Len(outbox)
             n == Len(rows)
  <1>1. m \in Nat /\ n \in Nat
    BY LenProperties DEF Batch
  <1>2. /\ outbox' \in Seq(UploadType) /\ Len(outbox') = m + n
        /\ \A i \in 1..m + n : outbox'[i] = IF i <= m THEN outbox[i] ELSE rows[i - m]
    BY ConcatProperties DEF Enqueue, Batch
  <1> HIDE DEF m, n
  <1>3. \A i \in 1..m : outbox'[i] = outbox[i]
    BY <1>1, <1>2
  <1>4. \A i \in m + 1..m + n : i - m \in 1..n /\ outbox'[i] = rows[i - m]
    BY <1>1, <1>2
  <1>5. \A k \in 1..n : m + k \in m + 1..m + n /\ outbox'[m + k] = rows[k]
    BY <1>1, <1>2
  <1>6. \A i \in m + 1..m + n :
           LET u == outbox'[i]
           IN  /\ u.order \in P
               /\ u.row = NewRow
               /\ u.event.v = 2 + order[u.order].version
               /\ u.event.status = s
               /\ u.event.kind = "imported" => u.event.v = 2 /\ s = Awaiting
               /\ u.event.kind # "submitted"
    BY <1>4 DEF Batch, n
  <1>7. \A o \in P : \E i \in m + 1..m + n : outbox'[i].order = o
    BY <1>5 DEF Batch, n
  <1>8. ASSUME NEW i \in m + 1..m + n, NEW j \in m + 1..m + n,
               outbox'[i].order = outbox'[j].order
        PROVE  i = j
    <2>1. i - m = j - m
      BY <1>4, <1>8 DEF Batch, n
    <2> QED BY <1>1, <2>1
  <1> QED BY <1>1, <1>2, <1>3, <1>6, <1>7, <1>8 DEF Publishes, m, n

\* What is published is told to the cloud later; until then its log stays true.
LEMMA PublishKeeps ==
    ASSUME SyncInv, NEW P \in SUBSET Orders, NEW s, Publishes(P, s),
           \A o \in P : /\ order[o].status \notin {"billed", "closed"}
                        /\ order'[o].version = order[o].version + 1
                        /\ order'[o] # NoOrder,
           \A o \in Orders \ P : order'[o] = order[o],
           UNCHANGED cloudVars
    PROVE  /\ UploadsStay /\ outbox' \in Seq(UploadType)
           /\ LogInv' /\ UploadInv' /\ SentIsMirrored'
           /\ \A i \in DOMAIN outbox : Mirrored(i)' <=> Mirrored(i)
           /\ \A i \in DOMAIN outbox' : order'[outbox'[i].order] # NoOrder
           /\ \A i \in DOMAIN outbox' :
                outbox'[i].row.state \in Queued \cup {"sent"} \/ outbox'[i].row.letter = "open"
  <1> DEFINE m == Len(outbox)
             n == Len(outbox')
  <1>1. /\ outbox \in Seq(UploadType) /\ outbox' \in Seq(UploadType)
        /\ LogInv /\ UploadInv /\ SentIsMirrored /\ ImportInv /\ FailuresAreVisible
        /\ order \in [Orders -> OrderType]
    BY DEF SyncInv, TypeOK, Publishes
  <1>2. /\ m \in Nat /\ n \in Nat /\ m <= n
        /\ DOMAIN outbox = 1..m /\ DOMAIN outbox' = 1..n
    BY <1>1, LenProperties DEF Publishes
  <1>3. /\ UploadsStay
        /\ \A o \in Orders \ P : UploadsOf(o)' = UploadsOf(o)
        /\ \A o \in P : \E i \in Len(outbox) + 1..Len(outbox') :
             /\ outbox'[i].order = o
             /\ UploadsOf(o)' = UploadsOf(o) \cup {i}
             /\ Cardinality(UploadsOf(o)') = Cardinality(UploadsOf(o)) + 1
             /\ Before(i)' = Cardinality(UploadsOf(o))
        /\ \A i \in DOMAIN outbox : Before(i)' = Before(i)
    BY <1>1, PublishedOnce
  <1>4. \A i \in 1..m : outbox'[i] = outbox[i]
    BY DEF Publishes
  <1>5. \A i \in m + 1..n :
           LET u == outbox'[i]
           IN  /\ u.order \in P
               /\ u.row = NewRow
               /\ u.event.v = 2 + order[u.order].version
               /\ u.event.status = s
               /\ u.event.kind = "imported" => u.event.v = 2 /\ s = Awaiting
               /\ u.event.kind # "submitted"
    BY DEF Publishes
  <1>6. \A i, j \in m + 1..n : outbox'[i].order = outbox'[j].order => i = j
    BY DEF Publishes
  <1>7. \A o \in Orders : UploadsOf(o) \subseteq UploadsOf(o)'
    BY <1>3
  <1> HIDE DEF m, n
  <1>8. \A i \in 1..n : i \in 1..m \/ i \in m + 1..n
    BY <1>2
  <1>9. UploadInv'
    <2>1. \A i \in 1..n :
             LET e == outbox'[i].event
             IN  /\ e.kind = "imported" => e.v = 2 /\ e.status = Awaiting
                 /\ e.kind # "submitted"
      BY <1>1, <1>2, <1>4, <1>5, <1>8 DEF UploadInv
    <2>2. ASSUME NEW i \in m + 1..n PROVE outbox'[i].event.v = 2 + Before(i)'
      <3>1. PICK o \in P : outbox'[i].order = o
        BY <1>5
      <3>2. Before(i)' = Cardinality(UploadsOf(o))
        BY <1>3, <1>6, <3>1 DEF m, n
      <3>3. Cardinality(UploadsOf(o)) = order[o].version
        BY <1>1 DEF UploadInv
      <3> QED BY <1>5, <3>1, <3>2, <3>3
    <2>3. \A i \in 1..m : outbox'[i].event.v = 2 + Before(i)'
      BY <1>1, <1>2, <1>3, <1>4 DEF UploadInv, PublishedWithoutGap
    <2>4. \A o \in Orders : order'[o].status \notin {"billed", "closed"} =>
            Cardinality(UploadsOf(o)') = order'[o].version
      <3>1. \A o \in P : Cardinality(UploadsOf(o)') = order'[o].version
        BY <1>1, <1>3 DEF UploadInv
      <3>2. \A o \in Orders \ P : order'[o].status \notin {"billed", "closed"} =>
              Cardinality(UploadsOf(o)') = order'[o].version
        BY <1>1, <1>3 DEF UploadInv
      <3> QED BY <3>1, <3>2
    <2> QED BY <1>2, <1>8, <2>1, <2>2, <2>3, <2>4 DEF UploadInv, PublishedWithoutGap
  <1>10. LogInv'
    <2>1. cloudOrder' = cloudOrder /\ cloudEvents' = cloudEvents
      BY DEF cloudVars
    <2>2. ASSUME NEW o \in Orders, NEW k \in DOMAIN cloudEvents[o], k > 1
          PROVE  \E i \in UploadsOf(o)' : cloudEvents[o][k] = outbox'[i].event
      <3>1. PICK i \in UploadsOf(o) : cloudEvents[o][k] = outbox[i].event
        BY <1>1, <2>2 DEF LogInv, LogOf
      <3>2. outbox'[i] = outbox[i]
        BY <1>2, <1>4 DEF UploadsOf
      <3> QED BY <1>7, <3>1, <3>2
    <2> QED BY <1>1, <2>1, <2>2 DEF LogInv, LogOf
  <1>11. \A i \in DOMAIN outbox : Mirrored(i)' <=> Mirrored(i)
    BY <1>2, <1>4 DEF Mirrored, cloudVars
  <1>12. SentIsMirrored'
    <2> SUFFICES ASSUME NEW i \in DOMAIN outbox', outbox'[i].row.state = "sent"
                 PROVE  /\ outbox'[i].event.v \in DOMAIN cloudEvents'[outbox'[i].order]
                        /\ cloudEvents'[outbox'[i].order][outbox'[i].event.v] = outbox'[i].event
      BY DEF SentIsMirrored
    <2>1. i \in 1..m
      BY <1>2, <1>5, <1>8 DEF NewRow
    <2> QED BY <1>1, <1>2, <1>4, <2>1 DEF SentIsMirrored, cloudVars
  <1>13. \A i \in 1..n : order'[outbox'[i].order] # NoOrder
    <2>1. \A i \in 1..m : outbox[i].order \in Orders /\ order[outbox[i].order] # NoOrder
      BY <1>1, <1>2, OutboxDomain DEF ImportInv
    <2> QED BY <1>4, <1>5, <1>8, <2>1
  <1>14. \A i \in 1..n : \/ outbox'[i].row.state \in Queued \cup {"sent"}
                         \/ outbox'[i].row.letter = "open"
    <2>1. NewRow.state \in Queued
      BY DEF NewRow, Queued, Due
    <2> QED BY <1>1, <1>2, <1>4, <1>5, <1>8, <2>1 DEF FailuresAreVisible
  <1> QED BY <1>1, <1>2, <1>3, <1>9, <1>10, <1>11, <1>12, <1>13, <1>14

-----------------------------------------------------------------------------
(* Rows.                                                                   *)

\* A row that neither moves by itself nor is done has an open dead letter.
Visible(row, done) == row.state \in Queued \/ done \/ row.letter = "open"

LEMMA FailureRow ==
    ASSUME NEW row \in RowType, NEW b \in BOOLEAN
    PROVE  /\ ScheduleFailure(row, b) \in RowType
           /\ \/ ScheduleFailure(row, b).state = "waiting"
              \/ /\ ScheduleFailure(row, b).state = "dead_letter"
                 /\ ScheduleFailure(row, b).letter = "open"
  <1> DEFINE n == IF row.attempts < MaxAttempts THEN row.attempts + 1 ELSE MaxAttempts
  <1>1. n \in Nat
    BY BoundsAssumption DEF RowType
  <1> HIDE DEF n
  <1>2. ScheduleFailure(row, b) =
           IF b /\ n < MaxAttempts
           THEN [row EXCEPT !.attempts = n, !.state = "waiting"]
           ELSE [row EXCEPT !.attempts = n, !.state = "dead_letter", !.letter = "open"]
    BY DEF ScheduleFailure, n
  <1>3. CASE b /\ n < MaxAttempts
    BY <1>1, <1>2, <1>3 DEF RowType
  <1>4. CASE ~(b /\ n < MaxAttempts)
    BY <1>1, <1>2, <1>4 DEF RowType
  <1> QED BY <1>3, <1>4

LEMMA RetriedRow ==
    ASSUME NEW row \in RowType, NEW s \in Due
    PROVE  Retried(row, s) \in RowType /\ Retried(row, s).state \in Due
  BY DEF Retried, RowType, Due

\* A row of the outbox changes: nothing else does.
LEMMA OutboxRowKeeps ==
    ASSUME SyncInv, NEW i \in DOMAIN outbox, NEW row \in RowType,
           outbox' = [outbox EXCEPT ![i].row = row],
           row.state = "sent" => Mirrored(i),
           Visible(row, row.state = "sent"),
           UNCHANGED <<cloudVars, inbox, applied, floorVars>>
    PROVE  /\ outbox' \in Seq(UploadType) /\ DOMAIN outbox' = DOMAIN outbox
           /\ UploadsStay /\ \A j \in DOMAIN outbox : Mirrored(j)' <=> Mirrored(j)
           /\ LogInv' /\ CommandInv' /\ ImportInv' /\ UploadInv'
           /\ SentIsMirrored' /\ AcknowledgedIsImported' /\ FailuresAreVisible'
  <1>1. outbox \in Seq(UploadType)
    BY DEF SyncInv, TypeOK
  <1>2. /\ Len(outbox) \in Nat /\ DOMAIN outbox = 1..Len(outbox)
        /\ \A j \in DOMAIN outbox : outbox[j] \in UploadType
    BY <1>1, OutboxDomain
  <1>3. /\ DOMAIN outbox' = DOMAIN outbox
        /\ \A j \in DOMAIN outbox :
             /\ outbox'[j].order = outbox[j].order /\ outbox'[j].event = outbox[j].event
             /\ outbox'[j].row = IF j = i THEN row ELSE outbox[j].row
             /\ outbox'[j] \in UploadType
    BY <1>2 DEF UploadType
  <1>4. outbox' \in [1..Len(outbox) -> UploadType]
    <2>1. outbox' = [j \in DOMAIN outbox |-> outbox'[j]]
      OBVIOUS
    <2> QED BY <1>2, <1>3, <2>1
  <1>5. outbox' \in Seq(UploadType)
    BY <1>2, <1>4, SeqIntro
  <1>6. UploadsStay
    BY <1>3 DEF UploadsStay
  <1>7. \A o \in Orders : UploadsOf(o)' = UploadsOf(o)
    BY <1>1, <1>3, <1>6, SameUploads
  <1>8. UploadInv'
    BY <1>1, <1>3, <1>6, SameUploads DEF SyncInv, floorVars
  <1>9. /\ cloudOrder' = cloudOrder /\ cloudEvents' = cloudEvents /\ commands' = commands
        /\ order' = order /\ sessions' = sessions /\ inbox' = inbox /\ applied' = applied
    BY DEF cloudVars, floorVars
  <1>10. \A j \in DOMAIN outbox : Mirrored(j)' <=> Mirrored(j)
    BY <1>3, <1>9 DEF Mirrored
  <1>11. LogInv'
    <2>1. ASSUME NEW o \in Orders, NEW k \in DOMAIN cloudEvents[o], k > 1
          PROVE  \E j \in UploadsOf(o)' : cloudEvents[o][k] = outbox'[j].event
      <3>1. PICK j \in UploadsOf(o) : cloudEvents[o][k] = outbox[j].event
        BY <2>1 DEF SyncInv, LogInv, LogOf
      <3>2. j \in DOMAIN outbox
        BY <3>1 DEF UploadsOf
      <3> QED BY <1>3, <1>7, <3>1, <3>2
    <2> QED BY <1>9, <2>1 DEF SyncInv, LogInv, LogOf
  <1>12. CommandInv' /\ AcknowledgedIsImported'
    BY <1>9 DEF SyncInv, CommandInv, AcknowledgedIsImported, NoOrder
  <1>13. ImportInv'
    BY <1>3, <1>9 DEF SyncInv, ImportInv, NoOrder
  <1>14. SentIsMirrored'
    BY <1>3, <1>9 DEF SyncInv, SentIsMirrored, Mirrored
  <1>15. FailuresAreVisible'
    BY <1>3, <1>9 DEF SyncInv, FailuresAreVisible, Visible
  <1> QED BY <1>3, <1>5, <1>6, <1>8, <1>10, <1>11, <1>12, <1>13, <1>14, <1>15

\* A row of the inbox changes.
LEMMA InboxRowKeeps ==
    ASSUME TypeOK, FailuresAreVisible, NEW i \in DOMAIN inbox, NEW row \in RowType,
           SetInbox(i, row), applied' = applied \/ applied' = applied \cup {i},
           Visible(row, row.state = "processed" /\ i \in applied')
    PROVE  /\ inbox' \in [DOMAIN inbox' -> RowType] /\ DOMAIN inbox' = DOMAIN inbox
           /\ applied' \subseteq DOMAIN inbox' /\ applied \subseteq applied'
           /\ \A j \in DOMAIN inbox' :
                 Visible(inbox'[j], inbox'[j].state = "processed" /\ j \in applied')
  <1>1. inbox \in [DOMAIN inbox -> RowType] /\ applied \subseteq DOMAIN inbox
    BY DEF TypeOK
  <1>2. /\ DOMAIN inbox' = DOMAIN inbox
        /\ \A j \in DOMAIN inbox : inbox'[j] = IF j = i THEN row ELSE inbox[j]
    BY DEF SetInbox
  <1>3. inbox' \in [DOMAIN inbox -> RowType]
    BY <1>1 DEF SetInbox
  <1>4. \A j \in DOMAIN inbox :
           Visible(inbox[j], inbox[j].state = "processed" /\ j \in applied)
    BY DEF FailuresAreVisible, Visible
  <1> QED BY <1>1, <1>2, <1>3, <1>4 DEF Visible

\* Only the inbox, the worker and the wire change.
LEMMA RestKeeps ==
    ASSUME SyncInv, UNCHANGED <<cloudVars, outbox, applied, floorVars>>
    PROVE  /\ LogInv' /\ CommandInv' /\ ImportInv' /\ UploadInv'
           /\ SentIsMirrored' /\ AcknowledgedIsImported'
           /\ \A j : Mirrored(j)' <=> Mirrored(j)
  <1>1. /\ cloudOrder' = cloudOrder /\ cloudEvents' = cloudEvents /\ commands' = commands
        /\ order' = order /\ sessions' = sessions /\ outbox' = outbox /\ applied' = applied
    BY DEF cloudVars, floorVars
  <1>2. LogInv'
    BY <1>1 DEF SyncInv, LogInv, LogOf, UploadsOf
  <1>3. CommandInv' /\ ImportInv' /\ AcknowledgedIsImported'
    BY <1>1 DEF SyncInv, CommandInv, ImportInv, AcknowledgedIsImported, NoOrder
  <1>4. UploadInv'
    BY <1>1 DEF SyncInv, UploadInv, PublishedWithoutGap, Before, UploadsOf
  <1>5. SentIsMirrored' /\ \A j : Mirrored(j)' <=> Mirrored(j)
    BY <1>1 DEF SyncInv, SentIsMirrored, Mirrored
  <1> QED BY <1>2, <1>3, <1>4, <1>5

-----------------------------------------------------------------------------
(* The worker.                                                             *)

LEMMA WorkerFields ==
    ASSUME SyncInv
    PROVE  /\ worker \in WorkerType /\ worker.batch \subseteq Nat
           /\ worker.batch # {} => First(worker.batch) \in worker.batch
           /\ DOMAIN commands = 1..Len(commands) /\ Len(commands) \in Nat
           /\ DOMAIN outbox = 1..Len(outbox) /\ Len(outbox) \in Nat
           /\ DOMAIN inbox \subseteq DOMAIN commands
           /\ \A i \in DOMAIN inbox : inbox[i] \in RowType
           /\ \A i \in DOMAIN outbox : outbox[i].row \in RowType
  <1>1. TypeOK
    BY DEF SyncInv
  <1>2. worker.batch \subseteq Nat
    BY <1>1 DEF TypeOK, WorkerType
  <1>3. /\ DOMAIN commands = 1..Len(commands) /\ Len(commands) \in Nat
        /\ DOMAIN outbox = 1..Len(outbox) /\ Len(outbox) \in Nat
    BY <1>1, LenProperties DEF TypeOK
  <1>4. \A i \in DOMAIN outbox : outbox[i].row \in RowType
    BY <1>1, OutboxDomain DEF TypeOK
  <1> QED BY <1>1, <1>2, <1>3, <1>4, FirstIsIn DEF TypeOK

\* The worker moves, or a request is on its way or lost; no table changes.
LEMMA WorkerKeeps ==
    ASSUME SyncInv, UNCHANGED <<cloudVars, queueVars, floorVars>>,
           worker' \in WorkerType, WorkerInv', wire' \subseteq DOMAIN outbox,
           worker'.reply # "none" => worker' = worker
    PROVE  SyncInv'
  <1>1. UNCHANGED <<cloudVars, outbox, applied, floorVars>> /\ inbox' = inbox
    BY DEF queueVars
  <1>2. /\ LogInv' /\ CommandInv' /\ ImportInv' /\ UploadInv'
        /\ SentIsMirrored' /\ AcknowledgedIsImported'
        /\ \A j : Mirrored(j)' <=> Mirrored(j)
    BY <1>1, RestKeeps
  <1>3. TypeOK'
    BY <1>1 DEF SyncInv, TypeOK, cloudVars, floorVars
  <1>4. FailuresAreVisible'
    BY <1>1 DEF SyncInv, FailuresAreVisible
  <1>5. AnswerInv'
    BY <1>2 DEF SyncInv, AnswerInv
  <1> QED BY <1>2, <1>3, <1>4, <1>5 DEF SyncInv

LEMMA StartOutboxKeeps ==
    ASSUME SyncInv, StartOutbox
    PROVE  SyncInv'
  <1>1. worker \in WorkerType /\ DueOutbox \subseteq DOMAIN outbox /\ DOMAIN outbox \subseteq Nat
    BY WorkerFields DEF DueOutbox, FirstOf
  <1>2. worker.at = "inbox" /\ worker.reply = "none"
    BY DEF StartOutbox, SyncInv, WorkerInv
  <1>3. CASE worker.ready
    <2>1. worker' = [worker EXCEPT !.at = "outbox", !.batch = DueOutbox]
      BY <1>3 DEF StartOutbox
    <2>2. worker' \in WorkerType /\ worker'.at = "outbox" /\ worker'.reply = "none"
          /\ worker'.batch = DueOutbox
      BY <1>1, <1>2, <2>1 DEF WorkerType
    <2>3. WorkerInv'
      BY <1>1, <2>2 DEF WorkerInv, StartOutbox, queueVars
    <2> QED BY <2>2, <2>3, WorkerKeeps DEF StartOutbox, SyncInv, TypeOK
  <1>4. CASE ~worker.ready
    <2>1. worker' = Idle
      BY <1>4 DEF StartOutbox
    <2>2. worker' \in WorkerType /\ WorkerInv' /\ worker'.reply = "none"
      BY <2>1 DEF Idle, WorkerType, WorkerInv
    <2> QED BY <2>2, WorkerKeeps DEF StartOutbox, SyncInv, TypeOK
  <1> QED BY <1>3, <1>4

LEMMA SendKeeps ==
    ASSUME SyncInv, Send
    PROVE  SyncInv'
  <1> DEFINE i == First(worker.batch)
  <1>1. /\ worker \in WorkerType /\ i \in worker.batch /\ worker.at = "outbox"
        /\ worker.batch \subseteq DOMAIN outbox /\ worker.reply = "none"
    BY WorkerFields DEF Send, SyncInv, WorkerInv
  <1>2. wire \subseteq DOMAIN outbox
    BY DEF SyncInv, TypeOK
  <1>3. UNCHANGED <<cloudVars, queueVars, floorVars>> /\ outbox' = outbox /\ inbox' = inbox
    BY DEF Send, queueVars
  <1>4. CASE outbox[i].row.state = "sent"
    <2>1. worker' = [worker EXCEPT !.batch = @ \ {i}] /\ wire' = wire
      BY <1>4 DEF Send
    <2> HIDE DEF i
    <2>2. /\ worker' \in WorkerType /\ worker'.reply = "none" /\ worker'.at = "outbox"
          /\ worker'.batch \subseteq DOMAIN outbox
      BY <1>1, <2>1 DEF WorkerType
    <2>3. WorkerInv'
      BY <1>3, <2>2 DEF WorkerInv
    <2> QED BY <1>2, <1>3, <2>1, <2>2, <2>3, WorkerKeeps
  <1>5. CASE outbox[i].row.state # "sent"
    <2>1. worker' = [worker EXCEPT !.at = "sending"] /\ wire' = wire \cup {i}
      BY <1>5 DEF Send
    <2> HIDE DEF i
    <2>2. /\ worker' \in WorkerType /\ worker'.reply = "none" /\ worker'.at = "sending"
          /\ worker'.batch = worker.batch
      BY <1>1, <2>1 DEF WorkerType
    <2>3. WorkerInv'
      BY <1>1, <1>3, <2>2 DEF WorkerInv
    <2>4. wire' \subseteq DOMAIN outbox
      BY <1>1, <1>2, <2>1
    <2> QED BY <1>3, <2>2, <2>3, <2>4, WorkerKeeps
  <1> QED BY <1>4, <1>5

LEMMA BackToIdle ==
    ASSUME SyncInv, worker' = Idle, wire' = wire,
           UNCHANGED <<cloudVars, queueVars, floorVars>>
    PROVE  SyncInv'
  <1>1. worker' \in WorkerType /\ WorkerInv' /\ worker'.reply = "none"
    BY DEF Idle, WorkerType, WorkerInv
  <1> QED BY <1>1, WorkerKeeps DEF SyncInv, TypeOK

LEMMA LoseKeeps ==
    ASSUME SyncInv, NEW i \in wire, LoseRequest(i)
    PROVE  SyncInv'
  <1>1. /\ UNCHANGED <<cloudVars, queueVars, floorVars>> /\ worker' = worker
        /\ inbox' = inbox /\ outbox' = outbox /\ wire' \subseteq wire
    BY DEF LoseRequest, queueVars
  <1>2. WorkerInv' /\ worker' \in WorkerType /\ wire' \subseteq DOMAIN outbox
    BY <1>1 DEF SyncInv, WorkerInv, TypeOK
  <1> QED BY <1>1, <1>2, WorkerKeeps

\* The inbox gets pending rows of new commands.
LEMMA StartCycleKeeps ==
    ASSUME SyncInv, NEW ready \in BOOLEAN, NEW pulled, StartCycle(ready, pulled)
    PROVE  SyncInv'
  <1> DEFINE got == IF ready /\ pulled THEN PulledCommands(BatchLimit) ELSE {}
  <1>1. got \subseteq DOMAIN commands
    BY DEF PulledCommands, FirstOf
  <1>2. inbox' = [i \in DOMAIN inbox \cup got |->
                    IF i \in DOMAIN inbox THEN inbox[i] ELSE NewRow]
    BY DEF StartCycle
  <1>3. worker' = [Idle EXCEPT !.at = "inbox", !.ready = ready, !.batch = DueInbox(inbox')]
    BY DEF StartCycle
  <1>4. /\ UNCHANGED <<cloudVars, outbox, applied, floorVars>> /\ wire' = wire
    BY DEF StartCycle
  <1> HIDE DEF got
  <1>5. NewRow \in RowType /\ NewRow.state \in Queued
    BY DEF NewRow, RowType, Queued, Due
  <1>6. /\ DOMAIN inbox' = DOMAIN inbox \cup got
        /\ \A i \in DOMAIN inbox : inbox'[i] = inbox[i]
        /\ \A i \in DOMAIN inbox' : i \in DOMAIN inbox \/ inbox'[i] = NewRow
    BY <1>2
  <1>7. DOMAIN inbox' \subseteq DOMAIN commands /\ DOMAIN inbox' \subseteq Nat
    BY <1>1, <1>6, WorkerFields
  <1>8. inbox' \in [DOMAIN inbox' -> RowType]
    <2>1. \A i \in DOMAIN inbox' : inbox'[i] \in RowType
      BY <1>5, <1>6, WorkerFields
    <2>2. inbox' = [i \in DOMAIN inbox' |-> inbox'[i]]
      BY <1>2, <1>6
    <2> QED BY <2>1, <2>2
  <1>9. DueInbox(inbox') \subseteq DOMAIN inbox'
    BY DEF DueInbox, FirstOf
  <1>10. /\ worker' \in WorkerType /\ worker'.at = "inbox" /\ worker'.reply = "none"
         /\ worker'.batch = DueInbox(inbox')
    BY <1>3, <1>7, <1>9 DEF Idle, WorkerType
  <1>11. WorkerInv' /\ AnswerInv'
    BY <1>9, <1>10 DEF WorkerInv, AnswerInv
  <1>12. /\ LogInv' /\ CommandInv' /\ ImportInv' /\ UploadInv'
         /\ SentIsMirrored' /\ AcknowledgedIsImported'
    BY <1>4, RestKeeps
  <1>13. TypeOK'
    <2>1. applied \subseteq DOMAIN inbox'
      BY <1>6 DEF SyncInv, TypeOK
    <2> QED BY <1>4, <1>7, <1>8, <1>10, <2>1 DEF SyncInv, TypeOK, cloudVars, floorVars
  <1>14. FailuresAreVisible'
    BY <1>4, <1>5, <1>6 DEF SyncInv, FailuresAreVisible
  <1> QED BY <1>11, <1>12, <1>13, <1>14 DEF SyncInv

\* The answer is written into the row that was sent.
LEMMA RecordKeeps ==
    ASSUME SyncInv, worker.at = "sending", NEW row \in RowType, Record(row),
           row.state = "sent" => Mirrored(First(worker.batch)),
           Visible(row, row.state = "sent")
    PROVE  SyncInv'
  <1>1. PICK i \in worker.batch : i = First(worker.batch)
    BY WorkerFields DEF SyncInv, WorkerInv
  <1>2. i \in DOMAIN outbox /\ worker.batch \subseteq DOMAIN outbox /\ worker \in WorkerType
    BY WorkerFields DEF SyncInv, WorkerInv
  <1>3. /\ outbox' = [outbox EXCEPT ![i].row = row]
        /\ worker' = [worker EXCEPT !.at = "outbox", !.reply = "none", !.batch = @ \ {i}]
        /\ UNCHANGED <<cloudVars, inbox, applied, floorVars>> /\ wire' = wire
    BY <1>1 DEF Record
  <1>4. /\ outbox' \in Seq(UploadType) /\ DOMAIN outbox' = DOMAIN outbox
        /\ LogInv' /\ CommandInv' /\ ImportInv' /\ UploadInv'
        /\ SentIsMirrored' /\ AcknowledgedIsImported' /\ FailuresAreVisible'
    BY <1>1, <1>2, <1>3, OutboxRowKeeps
  <1>5. /\ worker' \in WorkerType /\ worker'.at = "outbox" /\ worker'.reply = "none"
        /\ worker'.batch \subseteq worker.batch
    BY <1>2, <1>3 DEF WorkerType
  <1>6. WorkerInv' /\ AnswerInv'
    BY <1>2, <1>4, <1>5 DEF WorkerInv, AnswerInv
  <1>7. TypeOK'
    BY <1>3, <1>4, <1>5 DEF SyncInv, TypeOK, cloudVars, floorVars
  <1> QED BY <1>4, <1>6, <1>7 DEF SyncInv

LEMMA AnswerKeeps ==
    ASSUME SyncInv, RecordAnswer \/ TimeOut
    PROVE  SyncInv'
  <1> DEFINE row == outbox[First(worker.batch)].row
             new == IF worker.reply = "rejected" THEN ScheduleFailure(row, FALSE)
                    ELSE [row EXCEPT !.state = "sent"]
  <1>1. worker.at = "sending" /\ row \in RowType
    BY WorkerFields DEF RecordAnswer, TimeOut, SyncInv, WorkerInv
  <1>2. \A b \in BOOLEAN :
           /\ ScheduleFailure(row, b) \in RowType
           /\ ScheduleFailure(row, b).state # "sent"
           /\ Visible(ScheduleFailure(row, b), ScheduleFailure(row, b).state = "sent")
    BY <1>1, FailureRow DEF Visible, Queued
  <1>3. CASE RecordAnswer
    <2>1. Record(new) /\ worker.reply # "none"
      BY <1>3 DEF RecordAnswer
    <2>2. CASE worker.reply = "rejected"
      <3>1. new = ScheduleFailure(row, FALSE)
        BY <2>2
      <3> QED BY <1>1, <1>2, <2>1, <3>1, RecordKeeps
    <2>3. CASE worker.reply # "rejected"
      <3>1. new = [row EXCEPT !.state = "sent"]
        BY <2>3
      <3> HIDE DEF row
      <3>2. new \in RowType /\ new.state = "sent"
        BY <1>1, <3>1 DEF RowType
      <3> HIDE DEF new
      <3>3. Visible(new, new.state = "sent")
        BY <3>2 DEF Visible
      <3>4. Mirrored(First(worker.batch))
        BY <2>1, <2>3, WorkerFields DEF SyncInv, AnswerInv, WorkerType
      <3> QED BY <1>1, <2>1, <3>2, <3>3, <3>4, RecordKeeps
    <2> QED BY <2>2, <2>3
  <1>4. CASE TimeOut
    <2>1. Record(ScheduleFailure(row, TRUE))
      BY <1>4 DEF TimeOut
    <2> HIDE DEF row
    <2> QED BY <1>1, <1>2, <2>1, RecordKeeps
  <1> QED BY <1>3, <1>4

\* A row of the outbox becomes due, or is retried by the operator.
LEMMA OutboxDueKeeps ==
    ASSUME SyncInv, NEW i \in DOMAIN outbox, NEW row \in RowType, row.state \in Due,
           outbox' = [outbox EXCEPT ![i].row = row],
           UNCHANGED <<cloudVars, inbox, applied, floorVars, worker, wire>>
    PROVE  SyncInv'
  <1>1. row.state # "sent" /\ Visible(row, row.state = "sent")
    BY DEF Due, Visible, Queued
  <1>2. /\ outbox' \in Seq(UploadType) /\ DOMAIN outbox' = DOMAIN outbox
        /\ LogInv' /\ CommandInv' /\ ImportInv' /\ UploadInv'
        /\ \A j \in DOMAIN outbox : Mirrored(j)' <=> Mirrored(j)
        /\ SentIsMirrored' /\ AcknowledgedIsImported' /\ FailuresAreVisible'
    BY <1>1, OutboxRowKeeps
  <1>3. TypeOK'
    BY <1>2 DEF SyncInv, TypeOK, cloudVars, floorVars
  <1>4. WorkerInv'
    BY <1>2 DEF SyncInv, WorkerInv
  <1>5. AnswerInv'
    <2>1. worker.reply \in {"applied", "duplicate"} => First(worker.batch) \in DOMAIN outbox
      BY WorkerFields DEF SyncInv, WorkerInv
    <2> QED BY <1>2, <2>1 DEF SyncInv, AnswerInv
  <1> QED BY <1>2, <1>3, <1>4, <1>5 DEF SyncInv

LEMMA OutboxRowsDue ==
    ASSUME SyncInv, NEW i \in DOMAIN outbox, OutboxBackoffEnds(i) \/ RetryOutbound(i)
    PROVE  SyncInv'
  <1>1. outbox[i].row \in RowType /\ outbox[i] \in UploadType
    BY WorkerFields, OutboxDomain DEF SyncInv, TypeOK
  <1>2. CASE OutboxBackoffEnds(i)
    <2> DEFINE row == [outbox[i].row EXCEPT !.state = "retry"]
    <2>1. row \in RowType /\ row.state \in Due
      BY <1>1 DEF RowType, Due
    <2>2. outbox' = [outbox EXCEPT ![i].row = row]
      BY <1>1, <1>2 DEF OutboxBackoffEnds, UploadType
    <2>3. UNCHANGED <<cloudVars, inbox, applied, floorVars, worker, wire>>
      BY <1>2 DEF OutboxBackoffEnds
    <2> HIDE DEF row
    <2> QED BY <2>1, <2>2, <2>3, OutboxDueKeeps
  <1>3. CASE RetryOutbound(i)
    <2> DEFINE row == Retried(outbox[i].row, "retry")
    <2>1. row \in RowType /\ row.state \in Due
      BY <1>1, RetriedRow DEF Due
    <2>2. /\ outbox' = [outbox EXCEPT ![i].row = row]
          /\ UNCHANGED <<cloudVars, inbox, applied, floorVars, worker, wire>>
      BY <1>3 DEF RetryOutbound
    <2> HIDE DEF row
    <2> QED BY <2>1, <2>2, OutboxDueKeeps
  <1> QED BY <1>2, <1>3

LEMMA InboxRowsDue ==
    ASSUME SyncInv, NEW i \in DOMAIN inbox, InboxBackoffEnds(i) \/ RetryInbound(i)
    PROVE  SyncInv'
  <1>1. inbox[i] \in RowType
    BY WorkerFields
  <1>2. /\ UNCHANGED <<cloudVars, outbox, applied, floorVars>>
        /\ worker' = worker /\ wire' = wire
    BY DEF InboxBackoffEnds, RetryInbound
  <1>3. PICK row \in RowType : row.state \in Due /\ SetInbox(i, row)
    <2>1. CASE InboxBackoffEnds(i)
      <3>1. [inbox[i] EXCEPT !.state = "retry"] \in RowType
            /\ [inbox[i] EXCEPT !.state = "retry"].state \in Due
        BY <1>1 DEF RowType, Due
      <3> QED BY <2>1, <3>1 DEF InboxBackoffEnds
    <2>2. CASE RetryInbound(i)
      BY <1>1, <2>2, RetriedRow DEF RetryInbound, Due
    <2> QED BY <2>1, <2>2
  <1>4. Visible(row, row.state = "processed" /\ i \in applied')
    BY <1>3 DEF Visible, Queued
  <1>5. /\ inbox' \in [DOMAIN inbox' -> RowType] /\ DOMAIN inbox' = DOMAIN inbox
        /\ applied' \subseteq DOMAIN inbox'
        /\ \A j \in DOMAIN inbox' :
              Visible(inbox'[j], inbox'[j].state = "processed" /\ j \in applied')
    BY <1>2, <1>3, <1>4, InboxRowKeeps DEF SyncInv
  <1>6. /\ LogInv' /\ CommandInv' /\ ImportInv' /\ UploadInv'
        /\ SentIsMirrored' /\ AcknowledgedIsImported'
        /\ \A j : Mirrored(j)' <=> Mirrored(j)
    BY <1>2, RestKeeps
  <1>7. TypeOK'
    BY <1>2, <1>5 DEF SyncInv, TypeOK, cloudVars, floorVars
  <1>8. FailuresAreVisible'
    BY <1>2, <1>5 DEF SyncInv, FailuresAreVisible, Visible
  <1>9. WorkerInv'
    BY <1>2, <1>5 DEF SyncInv, WorkerInv
  <1>10. AnswerInv'
    BY <1>2, <1>6 DEF SyncInv, AnswerInv
  <1> QED BY <1>6, <1>7, <1>8, <1>9, <1>10 DEF SyncInv

-----------------------------------------------------------------------------
(* The cloud.                                                              *)

\* Logs only grow, and then what was mirrored still is.
LogsGrow ==
    \A o \in Orders : \A k \in DOMAIN cloudEvents[o] :
        k \in DOMAIN cloudEvents'[o] /\ cloudEvents'[o][k] = cloudEvents[o][k]

LEMMA StillMirrored ==
    ASSUME SyncInv, LogsGrow, outbox' = outbox
    PROVE  SentIsMirrored' /\ \A i \in DOMAIN outbox : Mirrored(i) => Mirrored(i)'
  <1>1. \A i \in DOMAIN outbox : outbox[i].order \in Orders
    BY OutboxDomain DEF SyncInv, TypeOK
  <1>2. \A i \in DOMAIN outbox : Mirrored(i) => Mirrored(i)'
    BY <1>1 DEF Mirrored, LogsGrow
  <1>3. SentIsMirrored'
    BY <1>1 DEF SyncInv, SentIsMirrored, LogsGrow
  <1> QED BY <1>2, <1>3

LEMMA CloudLogs ==
    ASSUME SyncInv, NEW o \in Orders
    PROVE  /\ cloudEvents[o] \in Seq(EventType) /\ Len(cloudEvents[o]) \in Nat
           /\ DOMAIN cloudEvents[o] = 1..Len(cloudEvents[o])
           /\ PriorVersion(o) = Len(cloudEvents[o])
           /\ cloudOrder[o] = "none" <=> Len(cloudEvents[o]) = 0
           /\ cloudOrder[o] = "none" <=> cloudEvents[o] = <<>>
  <1>1. cloudEvents[o] \in Seq(EventType)
    BY DEF SyncInv, TypeOK
  <1>2. /\ Len(cloudEvents[o]) \in Nat /\ DOMAIN cloudEvents[o] = 1..Len(cloudEvents[o])
        /\ cloudEvents[o] = <<>> <=> Len(cloudEvents[o]) = 0
    BY <1>1, LenProperties, EmptySeq
  <1>3. \A k \in DOMAIN cloudEvents[o] : cloudEvents[o][k].v = k
    BY DEF SyncInv, LogInv, LogOf
  <1>4. PriorVersion(o) = Len(cloudEvents[o])
    BY <1>2, <1>3 DEF PriorVersion
  <1> QED BY <1>1, <1>2, <1>4 DEF SyncInv, LogInv, LogOf

LEMMA GuestOrdersKeeps ==
    ASSUME SyncInv, NEW o \in Orders, GuestOrders(o)
    PROVE  SyncInv'
  <1> DEFINE e == Event("submitted", 1, Awaiting)
             c == [what |-> o, status |-> "pending"]
  <1>1. /\ cloudOrder[o] = "none"
        /\ cloudOrder' = [cloudOrder EXCEPT ![o] = Awaiting]
        /\ cloudEvents' = [cloudEvents EXCEPT ![o] = Append(cloudEvents[o], e)]
        /\ commands' = Append(commands, c)
        /\ UNCHANGED <<queueVars, floorVars, worker, wire>>
    BY DEF GuestOrders, CreateCloudOrder, Awaiting
  <1>2. /\ inbox' = inbox /\ outbox' = outbox /\ applied' = applied
        /\ order' = order /\ sessions' = sessions
    BY <1>1 DEF queueVars, floorVars
  <1>3. e \in EventType /\ e.v = 1 /\ c \in CommandType /\ c.what = o /\ c.status = "pending"
    BY DEF Event, EventType, CommandType, Statuses, Awaiting
  <1> HIDE DEF e, c
  <1>4. cloudEvents[o] = <<>> /\ cloudEvents[o] \in Seq(EventType) /\ Len(cloudEvents[o]) = 0
    BY <1>1, CloudLogs
  <1> DEFINE log == Append(cloudEvents[o], e)
  <1>5. /\ log \in Seq(EventType) /\ Len(log) = 1 /\ log # <<>> /\ log[1] = e
        /\ DOMAIN log = 1..1
    <2>1. /\ log \in Seq(EventType) /\ log # <<>> /\ Len(log) = 0 + 1 /\ log[0 + 1] = e
      BY <1>3, <1>4, AppendProperties
    <2> QED BY <2>1, LenProperties
  <1> HIDE DEF log
  <1>6. /\ cloudOrder \in [Orders -> SAFE_CLOUD_STATUSES \cup {"none"}]
        /\ cloudEvents \in [Orders -> Seq(EventType)] /\ commands \in Seq(CommandType)
    BY DEF SyncInv, TypeOK
  <1>7. /\ cloudEvents' \in [Orders -> Seq(EventType)]
        /\ cloudOrder' \in [Orders -> SAFE_CLOUD_STATUSES \cup {"none"}]
        /\ cloudEvents'[o] = log /\ cloudOrder'[o] = Awaiting
        /\ \A x \in Orders \ {o} : cloudEvents'[x] = cloudEvents[x]
                                   /\ cloudOrder'[x] = cloudOrder[x]
    <2>1. Awaiting \in SAFE_CLOUD_STATUSES
      BY DEF Awaiting, SAFE_CLOUD_STATUSES
    <2>2. cloudEvents' = [cloudEvents EXCEPT ![o] = log]
      BY <1>1 DEF log
    <2> QED BY <1>1, <1>5, <1>6, <2>1, <2>2
  <1>8. /\ commands' \in Seq(CommandType)
        /\ DOMAIN commands = 1..Len(commands) /\ Len(commands) \in Nat
        /\ DOMAIN commands' = 1..Len(commands) + 1
        /\ \A i \in DOMAIN commands : commands'[i] = commands[i]
        /\ commands'[Len(commands) + 1] = c
    BY <1>1, <1>3, <1>6, AppendProperties, LenProperties
  <1>9. DOMAIN commands \subseteq DOMAIN commands'
        /\ \A i \in DOMAIN commands' : i \in DOMAIN commands \/ commands'[i] = c
    BY <1>8
  <1>10. TypeOK'
    BY <1>1, <1>2, <1>7, <1>8, <1>9 DEF SyncInv, TypeOK
  <1>11. LogInv'
    <2>1. Awaiting # "none"
      BY DEF Awaiting
    <2>2. \A x \in Orders : UploadsOf(x)' = UploadsOf(x)
      BY <1>2 DEF UploadsOf
    <2>3. /\ log # <<>> /\ \A k \in DOMAIN log : log[k].v = k /\ ~(k > 1)
      BY <1>3, <1>5
    <2>4. ASSUME NEW x \in Orders \ {o} PROVE LogOf(x)'
      <3>1. LogOf(x) /\ cloudEvents'[x] = cloudEvents[x] /\ cloudOrder'[x] = cloudOrder[x]
        BY <1>7 DEF SyncInv, LogInv
      <3> QED BY <1>2, <2>2, <3>1 DEF LogOf
    <2> QED BY <1>7, <2>1, <2>3, <2>4 DEF LogInv, LogOf
  <1>12. CommandInv'
    <2>1. \A i \in DOMAIN commands : commands[i].what # o
      BY <1>1 DEF SyncInv, CommandInv
    <2>2. \A x \in Orders : cloudOrder[x] # "none" => cloudOrder'[x] # "none"
      BY <1>7 DEF Awaiting
    <2>3. cloudOrder'[o] # "none"
      BY <1>7 DEF Awaiting
    <2>4. \A i \in DOMAIN commands' :
            commands'[i].what \in Orders => cloudOrder'[commands'[i].what] # "none"
      BY <1>3, <1>8, <1>9, <2>2, <2>3 DEF SyncInv, CommandInv
    <2>5. \A i, j \in DOMAIN commands' : commands'[i].what = commands'[j].what => i = j
      <3>1. \A i \in DOMAIN commands' : i \in DOMAIN commands \/ i = Len(commands) + 1
        BY <1>8
      <3> QED BY <1>3, <1>8, <2>1, <3>1 DEF SyncInv, CommandInv
    <2> QED BY <2>4, <2>5 DEF CommandInv
  <1>13. ImportInv'
    <2>1. \A i \in applied : i \in DOMAIN commands
      BY DEF SyncInv, TypeOK
    <2> QED BY <1>2, <1>8, <2>1 DEF SyncInv, ImportInv, NoOrder
  <1>14. UploadInv' /\ FailuresAreVisible' /\ WorkerInv'
    BY <1>1, <1>2 DEF SyncInv, UploadInv, PublishedWithoutGap, Before, UploadsOf,
                      FailuresAreVisible, WorkerInv
  <1>15. LogsGrow
    <2>1. \A k \in DOMAIN cloudEvents[o] : FALSE
      BY <1>4, CloudLogs
    <2> QED BY <1>7, <2>1 DEF LogsGrow
  <1>16. SentIsMirrored' /\ AnswerInv'
    <2>1. worker.reply \in {"applied", "duplicate"} => First(worker.batch) \in DOMAIN outbox
      BY WorkerFields DEF SyncInv, WorkerInv
    <2> QED BY <1>1, <1>2, <1>15, <2>1, StillMirrored DEF SyncInv, AnswerInv
  <1>17. AcknowledgedIsImported'
    BY <1>2, <1>3, <1>8, <1>9 DEF SyncInv, AcknowledgedIsImported, NoOrder
  <1> QED BY <1>10, <1>11, <1>12, <1>13, <1>14, <1>16, <1>17 DEF SyncInv

LEMMA GuestAsksKeeps ==
    ASSUME SyncInv, NEW b \in Bills, GuestAsksForBill(b)
    PROVE  SyncInv'
  <1> DEFINE c == [what |-> b, status |-> "pending"]
  <1>1. /\ \A i \in DOMAIN commands : commands[i].what # b
        /\ cloudOrder' = cloudOrder /\ cloudEvents' = cloudEvents
        /\ commands' = Append(commands, c)
        /\ UNCHANGED <<queueVars, floorVars, worker, wire>>
    BY DEF GuestAsksForBill, QueueCloudBillRequest
  <1>2. /\ inbox' = inbox /\ outbox' = outbox /\ applied' = applied
        /\ order' = order /\ sessions' = sessions
    BY <1>1 DEF queueVars, floorVars
  <1>3. c \in CommandType /\ c.what = b /\ c.status = "pending" /\ b \notin Orders
    BY BillAssumption DEF CommandType
  <1> HIDE DEF c
  <1>4. commands \in Seq(CommandType)
    BY DEF SyncInv, TypeOK
  <1>8. /\ commands' \in Seq(CommandType)
        /\ DOMAIN commands = 1..Len(commands) /\ Len(commands) \in Nat
        /\ DOMAIN commands' = 1..Len(commands) + 1
        /\ \A i \in DOMAIN commands : commands'[i] = commands[i]
        /\ commands'[Len(commands) + 1] = c
    BY <1>1, <1>3, <1>4, AppendProperties, LenProperties
  <1>9. DOMAIN commands \subseteq DOMAIN commands'
        /\ \A i \in DOMAIN commands' : i \in DOMAIN commands \/ i = Len(commands) + 1
    BY <1>8
  <1>10. TypeOK'
    BY <1>1, <1>2, <1>8, <1>9 DEF SyncInv, TypeOK
  <1>11. LogInv'
    BY <1>1, <1>2 DEF SyncInv, LogInv, LogOf, UploadsOf
  <1>12. CommandInv'
    BY <1>1, <1>3, <1>8, <1>9 DEF SyncInv, CommandInv
  <1>13. ImportInv'
    <2>1. \A i \in applied : i \in DOMAIN commands
      BY DEF SyncInv, TypeOK
    <2> QED BY <1>2, <1>8, <2>1 DEF SyncInv, ImportInv, NoOrder
  <1>14. UploadInv' /\ FailuresAreVisible' /\ WorkerInv'
    BY <1>1, <1>2 DEF SyncInv, UploadInv, PublishedWithoutGap, Before, UploadsOf,
                      FailuresAreVisible, WorkerInv
  <1>16. SentIsMirrored' /\ AnswerInv'
    BY <1>1, <1>2 DEF SyncInv, SentIsMirrored, AnswerInv, Mirrored
  <1>17. AcknowledgedIsImported'
    BY <1>2, <1>3, <1>8, <1>9 DEF SyncInv, AcknowledgedIsImported, NoOrder
  <1> QED BY <1>10, <1>11, <1>12, <1>13, <1>14, <1>16, <1>17 DEF SyncInv

\* The gateway takes the next version, and knows an older one by its number.
LEMMA AnswerMeans ==
    ASSUME SyncInv, NEW i \in DOMAIN outbox
    PROVE  LET o == outbox[i].order
               e == outbox[i].event
           IN  /\ o \in Orders /\ e \in EventType /\ e.v >= 2 /\ i \in UploadsOf(o)
               /\ Answer(o, e) \in {"applied", "duplicate", "rejected"}
               /\ Answer(o, e) = "applied" =>
                    /\ e.v = Len(cloudEvents[o]) + 1 /\ Len(cloudEvents[o]) > 0
                    /\ e.kind = "status_changed" => e.status \in SAFE_CLOUD_STATUSES
               /\ Answer(o, e) = "duplicate" => Mirrored(i)
  <1>1. PICK o \in Orders : o = outbox[i].order
    BY OutboxDomain DEF SyncInv, TypeOK
  <1>2. PICK e \in EventType : e = outbox[i].event
    BY OutboxDomain DEF SyncInv, TypeOK
  <1>3. i \in UploadsOf(o)
    BY <1>1 DEF UploadsOf
  <1>4. Before(i) \in Nat /\ e.v = 2 + Before(i) /\ e.v \in Nat
    <2>1. Before(i) \in Nat
      BY <1>3, UploadsFinite DEF SyncInv, TypeOK
    <2>2. outbox[i].event.v = 2 + Before(i)
      BY DEF SyncInv, UploadInv, PublishedWithoutGap
    <2> QED BY <1>2, <2>1, <2>2
  <1>5. /\ Len(cloudEvents[o]) \in Nat /\ DOMAIN cloudEvents[o] = 1..Len(cloudEvents[o])
        /\ PriorVersion(o) = Len(cloudEvents[o])
        /\ cloudOrder[o] = "none" <=> Len(cloudEvents[o]) = 0
    BY CloudLogs
  <1>6. Answer(o, e) \in {"applied", "duplicate", "rejected"}
    BY DEF Answer
  <1>7. ASSUME Answer(o, e) = "applied"
        PROVE  /\ e.v = Len(cloudEvents[o]) + 1 /\ Len(cloudEvents[o]) > 0
               /\ e.kind = "status_changed" => e.status \in SAFE_CLOUD_STATUSES
    BY <1>4, <1>5, <1>7 DEF Answer
  <1>8. ASSUME Answer(o, e) = "duplicate" PROVE Mirrored(i)
    <2>1. e.v <= Len(cloudEvents[o])
      BY <1>4, <1>5, <1>8 DEF Answer
    <2>2. e.v \in DOMAIN cloudEvents[o] /\ e.v > 1
      BY <1>4, <1>5, <2>1
    <2>3. PICK j \in UploadsOf(o) : cloudEvents[o][e.v] = outbox[j].event
      BY <2>2 DEF SyncInv, LogInv, LogOf
    <2>4. outbox[j].event.v = e.v
      BY <2>2, <2>3 DEF SyncInv, LogInv, LogOf
    <2>5. outbox[j].event.v = 2 + Before(j) /\ Before(j) \in Nat
      BY <2>3, UploadsFinite DEF SyncInv, TypeOK, UploadInv, PublishedWithoutGap, UploadsOf
    <2>6. Before(j) = Before(i)
      BY <1>4, <2>4, <2>5
    <2>7. j = i
      BY <1>3, <2>6, UploadRanks DEF SyncInv, TypeOK
    <2> QED BY <1>1, <1>2, <2>2, <2>3, <2>7 DEF Mirrored
  <1> QED BY <1>1, <1>2, <1>3, <1>4, <1>6, <1>7, <1>8

LEMMA HandleKeeps ==
    ASSUME SyncInv, NEW i \in wire, HandleRequest(i)
    PROVE  SyncInv'
  <1>1. i \in DOMAIN outbox /\ outbox[i] \in UploadType
    BY OutboxDomain DEF SyncInv, TypeOK
  <1>2. PICK o \in Orders : o = outbox[i].order
    BY <1>1, OutboxDomain DEF SyncInv, TypeOK
  <1>3. PICK e \in EventType : e = outbox[i].event
    BY <1>1, OutboxDomain DEF SyncInv, TypeOK
  <1>4. /\ wire' = wire \ {i} /\ ApplyLocalSyncEvent(o, e)
        /\ worker' = IF Sending(i) THEN [worker EXCEPT !.reply = Answer(o, e)] ELSE worker
        /\ UNCHANGED <<queueVars, floorVars>>
    BY <1>2, <1>3 DEF HandleRequest
  <1>5. /\ inbox' = inbox /\ outbox' = outbox /\ applied' = applied
        /\ order' = order /\ sessions' = sessions
    BY <1>4 DEF queueVars, floorVars
  <1>6. /\ i \in UploadsOf(o) /\ e.v >= 2
        /\ Answer(o, e) \in {"applied", "duplicate", "rejected"}
        /\ Answer(o, e) = "applied" =>
             /\ e.v = Len(cloudEvents[o]) + 1 /\ Len(cloudEvents[o]) > 0
             /\ e.kind = "status_changed" => e.status \in SAFE_CLOUD_STATUSES
        /\ Answer(o, e) = "duplicate" => Mirrored(i)
    BY <1>1, <1>2, <1>3, AnswerMeans
  <1>7. /\ worker' \in WorkerType /\ worker'.at = worker.at /\ worker'.batch = worker.batch
        /\ worker'.reply \in {worker.reply, Answer(o, e)}
        /\ worker'.reply # worker.reply =>
              worker.at = "sending" /\ i = First(worker.batch) /\ worker'.reply = Answer(o, e)
        /\ worker.at # "sending" => worker'.reply = worker.reply
    <2>1. worker \in WorkerType
      BY WorkerFields
    <2>2. CASE Sending(i)
      <3>1. worker' = [worker EXCEPT !.reply = Answer(o, e)]
        BY <1>4, <2>2
      <3> QED BY <1>6, <2>1, <2>2, <3>1 DEF WorkerType, Sending
    <2>3. CASE ~Sending(i)
      BY <1>4, <2>1, <2>3
    <2> QED BY <2>2, <2>3
  <1>8. WorkerInv'
    BY <1>5, <1>7 DEF SyncInv, WorkerInv
  <1>10. UploadInv' /\ FailuresAreVisible'
    BY <1>5 DEF SyncInv, UploadInv, PublishedWithoutGap, Before, UploadsOf,
                FailuresAreVisible
  <1>11. worker.reply \in {"applied", "duplicate"} => First(worker.batch) \in DOMAIN outbox
    BY WorkerFields DEF SyncInv, WorkerInv
  <1>12. wire' \subseteq DOMAIN outbox
    BY <1>4 DEF SyncInv, TypeOK
  <1>13. CASE Answer(o, e) # "applied"
    <2>1. cloudOrder' = cloudOrder /\ cloudEvents' = cloudEvents /\ commands' = commands
      BY <1>4, <1>13 DEF ApplyLocalSyncEvent, cloudVars
    <2>2. LogInv' /\ CommandInv' /\ ImportInv' /\ SentIsMirrored' /\ AcknowledgedIsImported'
      BY <1>5, <2>1 DEF SyncInv, LogInv, LogOf, UploadsOf, CommandInv, ImportInv, NoOrder,
                        SentIsMirrored, AcknowledgedIsImported
    <2>3. \A j : Mirrored(j)' <=> Mirrored(j)
      BY <1>5, <2>1 DEF Mirrored
    <2>4. AnswerInv'
      BY <1>6, <1>7, <1>13, <2>3 DEF SyncInv, AnswerInv
    <2>5. TypeOK'
      BY <1>5, <1>7, <1>12, <2>1 DEF SyncInv, TypeOK
    <2> QED BY <1>8, <1>10, <2>2, <2>4, <2>5 DEF SyncInv
  <1>14. CASE Answer(o, e) = "applied"
    <2> DEFINE log == Append(cloudEvents[o], e)
               old == cloudEvents[o]
               n == Len(cloudEvents[o])
    <2>1. /\ cloudEvents' = [cloudEvents EXCEPT ![o] = log]
          /\ cloudOrder' = IF e.kind = "status_changed"
                           THEN [cloudOrder EXCEPT ![o] = e.status] ELSE cloudOrder
          /\ commands' = [k \in DOMAIN commands |->
                 IF e.kind = "imported" /\ commands[k].what = o
                 THEN [commands[k] EXCEPT !.status = "acknowledged"] ELSE commands[k]]
      BY <1>4, <1>14 DEF ApplyLocalSyncEvent
    <2>2. /\ old \in Seq(EventType) /\ n \in Nat /\ DOMAIN old = 1..n /\ n > 0
          /\ e.v = n + 1
      BY <1>6, <1>14, CloudLogs
    <2>3. /\ log \in Seq(EventType) /\ log # <<>> /\ Len(log) = n + 1
          /\ DOMAIN log = 1..n + 1 /\ log[n + 1] = e
          /\ \A k \in 1..n : log[k] = old[k]
      BY <2>2, AppendProperties, LenProperties
    <2> HIDE DEF log
    <2>4. /\ cloudOrder \in [Orders -> SAFE_CLOUD_STATUSES \cup {"none"}]
          /\ cloudEvents \in [Orders -> Seq(EventType)]
          /\ commands \in Seq(CommandType)
      BY DEF SyncInv, TypeOK
    <2>5. /\ cloudEvents' \in [Orders -> Seq(EventType)] /\ cloudEvents'[o] = log
          /\ \A x \in Orders \ {o} : cloudEvents'[x] = cloudEvents[x]
      BY <2>1, <2>3, <2>4
    <2>6. /\ cloudOrder' \in [Orders -> SAFE_CLOUD_STATUSES \cup {"none"}]
          /\ \A x \in Orders \ {o} : cloudOrder'[x] = cloudOrder[x]
          /\ cloudOrder'[o] # "none"
      <3>1. "none" \notin SAFE_CLOUD_STATUSES
        BY DEF SAFE_CLOUD_STATUSES
      <3>2. cloudOrder[o] # "none"
        BY <2>2, CloudLogs
      <3>3. CASE e.kind = "status_changed"
        BY <1>6, <1>14, <2>1, <2>4, <3>1, <3>3
      <3>4. CASE e.kind # "status_changed"
        BY <2>1, <2>4, <3>2, <3>4
      <3> QED BY <3>3, <3>4
    <2>7. /\ commands' \in Seq(CommandType) /\ DOMAIN commands' = DOMAIN commands
          /\ \A k \in DOMAIN commands :
               /\ commands'[k].what = commands[k].what
               /\ commands'[k].status = "acknowledged" =>
                    \/ commands[k].status = "acknowledged"
                    \/ commands[k].what = o
      <3>1. /\ DOMAIN commands = 1..Len(commands) /\ Len(commands) \in Nat
            /\ \A k \in DOMAIN commands : commands[k] \in CommandType
        BY <2>4, LenProperties, ElementOfSeq
      <3>2. DOMAIN commands' = DOMAIN commands
        BY <2>1
      <3>3. ASSUME NEW k \in DOMAIN commands
            PROVE  /\ commands'[k] \in CommandType
                   /\ commands'[k].what = commands[k].what
                   /\ commands'[k].status = "acknowledged" =>
                        \/ commands[k].status = "acknowledged"
                        \/ commands[k].what = o
        <4>1. commands[k] \in CommandType
          BY <3>1
        <4>2. CASE e.kind = "imported" /\ commands[k].what = o
          <5>1. commands'[k] = [commands[k] EXCEPT !.status = "acknowledged"]
            BY <2>1, <4>2
          <5> QED BY <4>1, <4>2, <5>1 DEF CommandType
        <4>3. CASE ~(e.kind = "imported" /\ commands[k].what = o)
          <5>1. commands'[k] = commands[k]
            BY <2>1, <4>3
          <5> QED BY <4>1, <5>1
        <4> QED BY <4>2, <4>3
      <3>4. commands' \in [1..Len(commands) -> CommandType]
        <4>1. commands' = [k \in DOMAIN commands |-> commands'[k]]
          BY <2>1
        <4> QED BY <3>1, <3>3, <4>1
      <3> QED BY <3>1, <3>2, <3>3, <3>4, SeqIntro
    <2>8. TypeOK'
      BY <1>5, <1>7, <1>12, <2>5, <2>6, <2>7 DEF SyncInv, TypeOK
    <2>9. LogInv'
      <3>1. \A x \in Orders : UploadsOf(x)' = UploadsOf(x)
        BY <1>5 DEF UploadsOf
      <3>2. ASSUME NEW x \in Orders \ {o} PROVE LogOf(x)'
        <4>1. LogOf(x) /\ cloudEvents'[x] = cloudEvents[x] /\ cloudOrder'[x] = cloudOrder[x]
          BY <2>5, <2>6 DEF SyncInv, LogInv
        <4> QED BY <1>5, <3>1, <4>1 DEF LogOf
      <3>3. \A k \in 1..n + 1 : k \in 1..n \/ k = n + 1
        BY <2>2
      <3>4. \A k \in DOMAIN log : log[k].v = k
        <4>1. \A k \in 1..n : old[k].v = k
          BY <2>2 DEF SyncInv, LogInv, LogOf
        <4> QED BY <2>2, <2>3, <3>3, <4>1
      <3>5. \A k \in DOMAIN log : k > 1 => \E j \in UploadsOf(o)' : log[k] = outbox'[j].event
        <4>1. \A k \in 1..n : k > 1 => \E j \in UploadsOf(o) : old[k] = outbox[j].event
          BY <2>2 DEF SyncInv, LogInv, LogOf
        <4>2. log[n + 1] = outbox[i].event
          BY <1>3, <2>3
        <4> QED BY <1>5, <1>6, <2>3, <3>1, <3>3, <4>1, <4>2
      <3>6. Len(log) # 1
        BY <2>2, <2>3
      <3>7. LogOf(o)'
        BY <2>3, <2>5, <2>6, <3>4, <3>5, <3>6 DEF LogOf
      <3> QED BY <3>2, <3>7 DEF LogInv
    <2>10. CommandInv'
      <3>1. \A x \in Orders : cloudOrder[x] # "none" => cloudOrder'[x] # "none"
        BY <2>6
      <3> QED BY <2>7, <3>1 DEF SyncInv, CommandInv
    <2>11. \A k \in applied : k \in DOMAIN commands
      BY DEF SyncInv, TypeOK
    <2>12. ImportInv'
      BY <1>5, <2>7, <2>11 DEF SyncInv, ImportInv, NoOrder
    <2>13. AcknowledgedIsImported'
      <3>1. order[o] # NoOrder
        BY <1>1, <1>2 DEF SyncInv, ImportInv
      <3>2. PICK j \in applied : commands[j].what = o
        BY <3>1 DEF SyncInv, ImportInv
      <3>3. \A k \in DOMAIN commands : commands[k].what = o => k = j
        BY <2>11, <3>2 DEF SyncInv, CommandInv
      <3> QED BY <1>5, <2>7, <3>1, <3>2, <3>3 DEF SyncInv, AcknowledgedIsImported, NoOrder
    <2>14. LogsGrow
      BY <2>2, <2>3, <2>5 DEF LogsGrow
    <2>15. Mirrored(i)'
      <3>1. e.v \in DOMAIN log /\ log[e.v] = e
        BY <2>2, <2>3
      <3> QED BY <1>2, <1>3, <1>5, <2>5, <3>1 DEF Mirrored
    <2>16. SentIsMirrored' /\ AnswerInv'
      BY <1>5, <1>7, <1>11, <2>14, <2>15, StillMirrored DEF SyncInv, AnswerInv
    <2> QED BY <1>8, <1>10, <2>8, <2>9, <2>10, <2>12, <2>13, <2>16 DEF SyncInv
  <1> QED BY <1>13, <1>14

-----------------------------------------------------------------------------
(* The staff.                                                              *)

LEMMA Moves ==
    ASSUME NEW s \in DOMAIN VALID_TRANSITIONS, NEW t \in VALID_TRANSITIONS[s], t # "closed"
    PROVE  t \in OrderStatuses /\ t # "none" /\ s \notin {"billed", "closed"}
  BY DEF VALID_TRANSITIONS, OrderStatuses

LEMMA FloorTypes ==
    ASSUME SyncInv
    PROVE  /\ order \in [Orders -> OrderType]
           /\ sessions \in Seq({"open", "bill_requested", "billed", "closed"})
           /\ DOMAIN sessions = 1..Len(sessions) /\ Len(sessions) \in Nat
           /\ \A o \in Orders : order[o] \in OrderType
           /\ \A o \in Orders : order[o] = NoOrder <=> order[o].status = "none"
  <1>1. /\ order \in [Orders -> OrderType]
        /\ sessions \in Seq({"open", "bill_requested", "billed", "closed"})
    BY DEF SyncInv, TypeOK
  <1>2. \A o \in Orders : order[o] # NoOrder => order[o].status # "none"
    BY DEF SyncInv, ImportInv
  <1>3. NoOrder.status = "none"
    BY DEF NoOrder
  <1> QED BY <1>1, <1>2, <1>3, LenProperties

LEMMA SessionSet ==
    ASSUME SyncInv, NEW s \in DOMAIN sessions,
           NEW x \in {"open", "bill_requested", "billed", "closed"}
    PROVE  /\ [sessions EXCEPT ![s] = x] \in Seq({"open", "bill_requested", "billed", "closed"})
           /\ DOMAIN [sessions EXCEPT ![s] = x] = DOMAIN sessions
  BY FloorTypes, ExceptSeq

\* Orders are moved on and published.
LEMMA PublishedKeeps ==
    ASSUME SyncInv, NEW P \in SUBSET Orders, NEW s, Publishes(P, s),
           order' \in [Orders -> OrderType],
           \A o \in P : /\ order[o].status \notin {"none", "billed", "closed"}
                        /\ order'[o].version = order[o].version + 1
                        /\ order'[o].session = order[o].session
                        /\ order'[o].status # "none",
           \A o \in Orders \ P : order'[o] = order[o],
           sessions' \in Seq({"open", "bill_requested", "billed", "closed"}),
           DOMAIN sessions' = DOMAIN sessions,
           UNCHANGED <<cloudVars, inbox, applied, worker, wire>>
    PROVE  SyncInv'
  <1>1. NoOrder.status = "none"
    BY DEF NoOrder
  <1>2. \A o \in P : order[o] # NoOrder /\ order'[o] # NoOrder
    BY <1>1
  <1>3. /\ UploadsStay /\ outbox' \in Seq(UploadType)
        /\ LogInv' /\ UploadInv' /\ SentIsMirrored'
        /\ \A i \in DOMAIN outbox : Mirrored(i)' <=> Mirrored(i)
        /\ \A i \in DOMAIN outbox' : order'[outbox'[i].order] # NoOrder
        /\ \A i \in DOMAIN outbox' :
             outbox'[i].row.state \in Queued \cup {"sent"} \/ outbox'[i].row.letter = "open"
    BY <1>2, PublishKeeps
  <1>4. commands' = commands /\ cloudOrder' = cloudOrder /\ cloudEvents' = cloudEvents
    BY DEF cloudVars
  <1>5. TypeOK'
    BY <1>3, <1>4 DEF SyncInv, TypeOK, UploadsStay
  <1>6. WorkerInv'
    BY <1>3 DEF SyncInv, WorkerInv, UploadsStay
  <1>7. CommandInv'
    BY <1>4 DEF SyncInv, CommandInv
  <1>8. ImportInv'
    <2>1. \A o \in Orders : order'[o] # NoOrder =>
             /\ order'[o].version > 0 /\ order'[o].status # "none"
             /\ order'[o].session \in DOMAIN sessions'
             /\ \E i \in applied : commands[i].what = o
      <3>1. \A o \in P : /\ order[o].version > 0 /\ order[o].session \in DOMAIN sessions
                         /\ order[o].version \in Nat
                         /\ \E i \in applied : commands[i].what = o
        BY <1>2, FloorTypes DEF SyncInv, ImportInv, OrderType
      <3>2. \A o \in Orders \ P : order[o] # NoOrder =>
             /\ order[o].version > 0 /\ order[o].status # "none"
             /\ order[o].session \in DOMAIN sessions
             /\ \E i \in applied : commands[i].what = o
        BY DEF SyncInv, ImportInv
      <3> QED BY <3>1, <3>2
    <2> QED BY <1>3, <1>4, <2>1 DEF ImportInv, NoOrder
  <1>9. AnswerInv'
    <2>1. worker.reply \in {"applied", "duplicate"} => First(worker.batch) \in DOMAIN outbox
      BY WorkerFields DEF SyncInv, WorkerInv
    <2> QED BY <1>3, <2>1 DEF SyncInv, AnswerInv
  <1>10. AcknowledgedIsImported'
    BY <1>2, <1>4 DEF SyncInv, AcknowledgedIsImported, NoOrder
  <1>11. FailuresAreVisible'
    BY <1>3 DEF SyncInv, FailuresAreVisible
  <1> QED BY <1>3, <1>5, <1>6, <1>7, <1>8, <1>9, <1>10, <1>11 DEF SyncInv

\* Orders are billed, or a session moves: nothing is published.
LEMMA FloorKeeps ==
    ASSUME SyncInv, order' \in [Orders -> OrderType],
           \A o \in Orders :
              \/ order'[o] = order[o]
              \/ /\ order[o].status # "none" /\ order'[o].status \in {"billed", "closed"}
                 /\ order'[o].version > 0 /\ order'[o].session = order[o].session,
           sessions' \in Seq({"open", "bill_requested", "billed", "closed"}),
           DOMAIN sessions' = DOMAIN sessions,
           UNCHANGED <<cloudVars, queueVars, worker, wire>>
    PROVE  SyncInv'
  <1>1. NoOrder.status = "none"
    BY DEF NoOrder
  <1>2. /\ commands' = commands /\ cloudOrder' = cloudOrder /\ cloudEvents' = cloudEvents
        /\ inbox' = inbox /\ outbox' = outbox /\ applied' = applied
        /\ worker' = worker /\ wire' = wire
    BY DEF cloudVars, queueVars
  <1>3. \A o \in Orders : order[o] # NoOrder => order'[o] # NoOrder
    BY <1>1
  <1>4. TypeOK'
    BY <1>2 DEF SyncInv, TypeOK
  <1>5. WorkerInv' /\ LogInv' /\ CommandInv' /\ SentIsMirrored' /\ FailuresAreVisible'
    BY <1>2 DEF SyncInv, WorkerInv, LogInv, LogOf, UploadsOf, CommandInv, SentIsMirrored,
                FailuresAreVisible
  <1>6. AnswerInv'
    BY <1>2 DEF SyncInv, AnswerInv, Mirrored
  <1>7. AcknowledgedIsImported'
    BY <1>2, <1>3 DEF SyncInv, AcknowledgedIsImported, NoOrder
  <1>8. ImportInv'
    <2>1. \A i \in DOMAIN outbox : outbox[i].order \in Orders
      BY OutboxDomain DEF SyncInv, TypeOK
    <2>2. \A o \in Orders : order'[o] # NoOrder =>
             /\ order'[o].version > 0 /\ order'[o].status # "none"
             /\ order'[o].session \in DOMAIN sessions'
             /\ \E i \in applied : commands[i].what = o
      BY <1>1 DEF SyncInv, ImportInv
    <2> QED BY <1>2, <1>3, <2>1, <2>2 DEF SyncInv, ImportInv, NoOrder
  <1>9. UploadInv'
    <2>1. PublishedWithoutGap'
      BY <1>2 DEF SyncInv, UploadInv, PublishedWithoutGap, Before, UploadsOf
    <2>2. \A o \in Orders : order'[o].status \notin {"billed", "closed"} =>
            Cardinality(UploadsOf(o)') = order'[o].version
      BY <1>2 DEF SyncInv, UploadInv, UploadsOf
    <2> QED BY <1>2, <2>1, <2>2 DEF SyncInv, UploadInv
  <1> QED BY <1>4, <1>5, <1>6, <1>7, <1>8, <1>9 DEF SyncInv

Moved(x, s, d) == [x EXCEPT !.status = s, !.version = @ + d]

LEMMA MovedOrder ==
    ASSUME NEW x \in OrderType, NEW s \in OrderStatuses, NEW d \in Nat
    PROVE  /\ Moved(x, s, d) \in OrderType /\ Moved(x, s, d).status = s
           /\ Moved(x, s, d).version = x.version + d
           /\ Moved(x, s, d).version \in Nat /\ x.version \in Nat
           /\ Moved(x, s, d).session = x.session
  <1>1. x.version \in Nat /\ x.session \in Nat /\ x.version + d \in Nat
    BY DEF OrderType
  <1>2. x = [status |-> x.status, version |-> x.version, session |-> x.session]
    BY DEF OrderType
  <1> DEFINE v == x.version + d
             y == Moved(x, s, d)
  <1>3. y = [x EXCEPT !.status = s, !.version = v]
    BY DEF Moved
  <1> HIDE DEF v, y
  <1>4. y.status = s /\ y.version = v /\ y.session = x.session
        /\ y = [status |-> s, version |-> v, session |-> x.session]
    BY <1>2, <1>3
  <1>5. v \in Nat
    BY <1>1 DEF v
  <1>6. y \in OrderType
    BY <1>1, <1>4, <1>5 DEF OrderType
  <1> QED BY <1>1, <1>4, <1>5, <1>6 DEF v, y

LEMMA TransitionKeeps ==
    ASSUME SyncInv, NEW o \in Orders, NEW target, TransitionOrder(o, target)
    PROVE  /\ SyncInv'
           /\ Publishes({o}, target) /\ target \in OrderStatuses
           /\ order[o] # NoOrder /\ cloudVars' = cloudVars
  <1> DEFINE s == order[o].session
  <1>1. /\ order[o] # NoOrder
        /\ target \in VALID_TRANSITIONS[order[o].status] /\ target # "closed"
        /\ sessions' = IF target = "bill_requested"
                       THEN [sessions EXCEPT ![s] = "bill_requested"] ELSE sessions
        /\ order' = [order EXCEPT ![o].status = target, ![o].version = @ + 1]
        /\ Enqueue(<<Snapshot(o)>>)
        /\ UNCHANGED <<cloudVars, inbox, applied, worker, wire>>
    BY DEF TransitionOrder
  <1>2. /\ order \in [Orders -> OrderType] /\ order[o] \in OrderType
        /\ order[o].status # "none" /\ order[o].version \in Nat
    BY <1>1, FloorTypes DEF OrderType
  <1>3. order[o].version > 0 /\ s \in DOMAIN sessions
    BY <1>1 DEF SyncInv, ImportInv
  <1>4. order[o].status \in DOMAIN VALID_TRANSITIONS
    BY <1>2 DEF OrderType, OrderStatuses
  <1>5. target \in OrderStatuses /\ target # "none" /\ order[o].status \notin {"billed", "closed"}
    BY <1>1, <1>4, Moves
  <1>6. /\ order' \in [Orders -> OrderType]
        /\ order'[o].status = target /\ order'[o].version = order[o].version + 1
        /\ order'[o].session = order[o].session
        /\ \A x \in Orders \ {o} : order'[x] = order[x]
    <2>1. /\ order'[o] = Moved(order[o], target, 1)
          /\ \A x \in Orders \ {o} : order'[x] = order[x]
          /\ order' = [x \in Orders |-> order'[x]]
      BY <1>1, <1>2 DEF Moved
    <2>2. /\ order'[o] \in OrderType
          /\ order'[o].status = target /\ order'[o].version = order[o].version + 1
          /\ order'[o].session = order[o].session
      BY <1>2, <1>5, <2>1, MovedOrder
    <2> QED BY <1>2, <2>1, <2>2
  <1>7. /\ sessions' \in Seq({"open", "bill_requested", "billed", "closed"})
        /\ DOMAIN sessions' = DOMAIN sessions
    BY <1>1, <1>3, SessionSet, FloorTypes
  <1> DEFINE u == Snapshot(o)
             rows == <<u>>
  <1>8. /\ u.order = o /\ u.row = NewRow /\ u.event.v = 2 + order[o].version
        /\ u.event.status = target /\ u.event.kind = "status_changed"
        /\ u \in UploadType
    <2> DEFINE v == IF order'[o].version + 1 > 3 THEN order'[o].version + 1 ELSE 3
    <2>1. u = [order |-> o,
               event |-> [kind |-> "status_changed", v |-> v, status |-> order'[o].status],
               row |-> NewRow]
      BY DEF Snapshot, Upload, Event
    <2>2. v = 2 + order[o].version /\ v \in Nat
      BY <1>2, <1>3, <1>6
    <2>3. NewRow \in RowType
      BY DEF NewRow, RowType
    <2> HIDE DEF v, u
    <2> QED BY <1>5, <1>6, <2>1, <2>2, <2>3 DEF UploadType, EventType, Statuses
  <1>9. Publishes({o}, target)
    <2> HIDE DEF u
    <2>1. rows \in Seq(UploadType) /\ Len(rows) = 1 /\ rows[1] = u
      BY <1>8
    <2>2. Enqueue(rows)
      BY <1>1 DEF u
    <2>3. outbox \in Seq(UploadType)
      BY DEF SyncInv, TypeOK
    <2> HIDE DEF rows
    <2>4. \A k \in 1..Len(rows) :
                /\ rows[k].order \in {o} /\ rows[k].row = NewRow
                /\ rows[k].event.v = 2 + order[rows[k].order].version
                /\ rows[k].event.status = target
                /\ rows[k].event.kind = "imported" =>
                     rows[k].event.v = 2 /\ target = Awaiting
                /\ rows[k].event.kind # "submitted"
      BY <1>8, <2>1
    <2>5. /\ \A x \in {o} : \E k \in 1..Len(rows) : rows[k].order = x
          /\ \A j, k \in 1..Len(rows) : rows[j].order = rows[k].order => j = k
      BY <1>8, <2>1
    <2>6. {o} \in SUBSET Orders
      BY <1>2
    <2>7. Batch(rows, {o}, target)
      BY <2>1, <2>4, <2>5 DEF Batch
    <2> QED BY <2>2, <2>3, <2>6, <2>7, EnqueuePublishes
  <1> HIDE DEF s, u, rows
  <1>10. SyncInv'
    <2>1. \A x \in {o} : /\ order[x].status \notin {"none", "billed", "closed"}
                         /\ order'[x].version = order[x].version + 1
                         /\ order'[x].session = order[x].session
                         /\ order'[x].status # "none"
      BY <1>2, <1>5, <1>6
    <2>2. {o} \in SUBSET Orders
      OBVIOUS
    <2>3. UNCHANGED <<cloudVars, inbox, applied, worker, wire>>
      BY <1>1
    <2> QED BY <1>6, <1>7, <1>9, <2>1, <2>2, <2>3, PublishedKeeps
  <1> QED BY <1>1, <1>5, <1>9, <1>10

LEMMA SessionBillKeeps ==
    ASSUME SyncInv, NEW s \in DOMAIN sessions, RequestSessionBill(s)
    PROVE  /\ SyncInv' /\ cloudVars' = cloudVars
           /\ \E P \in SUBSET Orders : /\ Publishes(P, "bill_requested")
                                       /\ \A o \in P : order[o] # NoOrder
  <1> DEFINE live == {o \in OrdersOf(s) :
                        order[o].status \notin {"rejected", "cancelled", "closed"}}
             placed == Placed(live)
             rows == [k \in DOMAIN placed |-> Snapshot(placed[k])]
  <1>1. /\ \A o \in live : order[o].status = "served"
        /\ sessions' = [sessions EXCEPT ![s] = "bill_requested"]
        /\ order' = [o \in Orders |->
              IF o \in live
              THEN [order[o] EXCEPT !.status = "bill_requested", !.version = @ + 1]
              ELSE order[o]]
        /\ Enqueue(rows)
        /\ UNCHANGED <<cloudVars, inbox, applied, worker, wire>>
    BY DEF RequestSessionBill
  <1>2. live \in SUBSET Orders
    BY DEF OrdersOf
  <1> DEFINE n == Cardinality(live)
  <1>3. rows = [k \in DOMAIN placed |-> Snapshot(placed[k])]
    OBVIOUS
  <1> HIDE DEF rows, live
  <1>4. \A o \in live : /\ order[o] \in OrderType /\ order[o] # NoOrder
                        /\ order[o].version \in Nat /\ order[o].version > 0
                        /\ \E i \in DOMAIN commands : commands[i].what = o
    <2> SUFFICES ASSUME NEW o \in live
                 PROVE  /\ order[o] \in OrderType /\ order[o] # NoOrder
                        /\ order[o].version \in Nat /\ order[o].version > 0
                        /\ \E i \in DOMAIN commands : commands[i].what = o
      OBVIOUS
    <2>1. order[o] \in OrderType /\ order[o] # NoOrder
      BY <1>1, <1>2, FloorTypes
    <2>2. order[o].version > 0 /\ \E i \in applied : commands[i].what = o
      BY <1>2, <2>1 DEF SyncInv, ImportInv
    <2>3. applied \subseteq DOMAIN commands
      BY DEF SyncInv, TypeOK
    <2> QED BY <2>1, <2>2, <2>3 DEF OrderType
  <1>5. /\ order' \in [Orders -> OrderType]
        /\ \A o \in Orders \ live : order'[o] = order[o]
        /\ \A o \in live : /\ order'[o].status = "bill_requested"
                           /\ order'[o].version = order[o].version + 1
                           /\ order'[o].session = order[o].session
    <2>1. \A o \in live : /\ order'[o] \in OrderType
                          /\ order'[o].status = "bill_requested"
                          /\ order'[o].version = order[o].version + 1
                          /\ order'[o].session = order[o].session
      <3> SUFFICES ASSUME NEW o \in live
                   PROVE  /\ order'[o] \in OrderType
                          /\ order'[o].status = "bill_requested"
                          /\ order'[o].version = order[o].version + 1
                          /\ order'[o].session = order[o].session
        OBVIOUS
      <3>1. order'[o] = Moved(order[o], "bill_requested", 1)
        BY <1>1, <1>2 DEF Moved
      <3>2. "bill_requested" \in OrderStatuses
        BY DEF OrderStatuses, VALID_TRANSITIONS
      <3>3. PICK x \in OrderType : x = order[o]
        BY <1>4
      <3>4. PICK st \in OrderStatuses : st = "bill_requested"
        BY <3>2
      <3>5. PICK d \in Nat : d = 1
        OBVIOUS
      <3>6. order'[o] = Moved(x, st, d)
        BY <3>1, <3>3, <3>4, <3>5
      <3>7. /\ Moved(x, st, d) \in OrderType /\ Moved(x, st, d).status = st
            /\ Moved(x, st, d).version = x.version + d
            /\ Moved(x, st, d).session = x.session
        BY MovedOrder
      <3> QED BY <3>3, <3>4, <3>5, <3>6, <3>7
    <2>2. \A o \in Orders \ live : order'[o] = order[o]
      BY <1>1
    <2>3. order' = [o \in Orders |-> order'[o]]
      BY <1>1
    <2>4. \A o \in Orders : order'[o] \in OrderType
      BY <2>1, <2>2, FloorTypes
    <2> QED BY <2>1, <2>2, <2>3, <2>4
  <1>6. /\ n \in Nat /\ placed \in Seq(live) /\ DOMAIN placed = 1..n
        /\ \A o \in live : \E k \in 1..n : placed[k] = o
        /\ \A j, k \in 1..n : placed[j] = placed[k] => j = k
    BY <1>2, <1>4, PlacedOnce DEF SyncInv, TypeOK
  <1> HIDE DEF placed, n
  <1>7. ASSUME NEW k \in 1..n
        PROVE  /\ placed[k] \in live
               /\ rows[k].order = placed[k] /\ rows[k].row = NewRow
               /\ rows[k].event.v = 2 + order[placed[k]].version
               /\ rows[k].event.status = "bill_requested"
               /\ rows[k].event.kind = "status_changed"
               /\ rows[k] \in UploadType
    <2>1. PICK o \in live : o = placed[k]
      <3>1. Len(placed) = n
        BY <1>6, LenProperties
      <3> QED BY <1>6, <3>1, ElementOfSeq
    <2> DEFINE v == IF order'[o].version + 1 > 3 THEN order'[o].version + 1 ELSE 3
    <2>2. rows[k] = Snapshot(o)
      BY <1>3, <1>6, <2>1
    <2>3. rows[k] = [order |-> o,
               event |-> [kind |-> "status_changed", v |-> v, status |-> order'[o].status],
               row |-> NewRow]
      BY <2>2 DEF Snapshot, Upload, Event
    <2>4. v = 2 + order[o].version /\ v \in Nat
      BY <1>4, <1>5
    <2>5. NewRow \in RowType
      BY DEF NewRow, RowType
    <2>6. "bill_requested" \in Statuses /\ o \in Orders /\ order'[o].status = "bill_requested"
      BY <1>2, <1>5 DEF Statuses, OrderStatuses, VALID_TRANSITIONS
    <2> HIDE DEF v
    <2> QED BY <2>1, <2>3, <2>4, <2>5, <2>6 DEF UploadType, EventType
  <1>8. rows \in Seq(UploadType) /\ Len(rows) = n
    <2>1. DOMAIN rows = 1..n
      BY <1>3, <1>6
    <2>2. rows = [k \in 1..n |-> rows[k]]
      BY <1>3, <1>6
    <2>3. rows \in [1..n -> UploadType]
      BY <1>7, <2>2
    <2> QED BY <1>6, <2>3, SeqIntro
  <1>9. Publishes(live, "bill_requested")
    <2>6. PICK st : st = "bill_requested"
      OBVIOUS
    <2>1. \A k \in 1..Len(rows) :
                /\ rows[k].order \in live /\ rows[k].row = NewRow
                /\ rows[k].event.v = 2 + order[rows[k].order].version
                /\ rows[k].event.status = st
                /\ rows[k].event.kind = "imported" =>
                     rows[k].event.v = 2 /\ st = Awaiting
                /\ rows[k].event.kind # "submitted"
      BY <1>7, <1>8, <2>6
    <2>2. \A o \in live : \E k \in 1..Len(rows) : rows[k].order = o
      BY <1>6, <1>7, <1>8
    <2>3. \A j, k \in 1..Len(rows) : rows[j].order = rows[k].order => j = k
      BY <1>6, <1>7, <1>8
    <2>4. outbox \in Seq(UploadType)
      BY DEF SyncInv, TypeOK
    <2>5. Enqueue(rows)
      BY <1>1
    <2>7. rows \in Seq(UploadType)
      BY <1>8
    <2>8. Batch(rows, live, st)
      BY <2>1, <2>2, <2>3, <2>7 DEF Batch
    <2>9. live \in SUBSET Orders
      BY <1>2
    <2> HIDE DEF rows, live
    <2>10. Publishes(live, st)
      BY <2>4, <2>5, <2>8, <2>9, EnqueuePublishes
    <2> QED BY <2>6, <2>10
  <1>10. /\ sessions' \in Seq({"open", "bill_requested", "billed", "closed"})
         /\ DOMAIN sessions' = DOMAIN sessions
    BY <1>1, SessionSet
  <1>11. \A o \in live : /\ order[o].status \notin {"none", "billed", "closed"}
                         /\ order'[o].version = order[o].version + 1
                         /\ order'[o].session = order[o].session
                         /\ order'[o].status # "none"
    BY <1>1, <1>5
  <1>12. SyncInv'
    BY <1>1, <1>2, <1>5, <1>9, <1>10, <1>11, PublishedKeeps
  <1> QED BY <1>1, <1>2, <1>4, <1>9, <1>12

LEMMA BillSessionKeeps ==
    ASSUME SyncInv, NEW s \in DOMAIN sessions, NEW paid \in BOOLEAN, BillSession(s, paid)
    PROVE  SyncInv'
  <1> DEFINE billed == {o \in OrdersOf(s) :
                          order[o].status \in {"accepted", "served", "bill_requested"}}
             end == IF paid THEN "closed" ELSE "billed"
             d == IF paid THEN 2 ELSE 1
  <1>1. /\ sessions' = [sessions EXCEPT ![s] = end]
        /\ order' = [o \in Orders |->
              IF o \in billed
              THEN [order[o] EXCEPT !.status = end, !.version = @ + d] ELSE order[o]]
        /\ UNCHANGED <<cloudVars, queueVars, worker, wire>>
    BY DEF BillSession
  <1>2. /\ billed \subseteq Orders
        /\ \A o \in billed : order[o].status \in {"accepted", "served", "bill_requested"}
    BY DEF OrdersOf
  <1>3. end \in {"billed", "closed"} /\ d \in {1, 2} /\ end \in OrderStatuses
    BY DEF OrderStatuses, VALID_TRANSITIONS
  <1> HIDE DEF billed, end, d
  <1>4. \A o \in Orders :
           /\ order'[o] \in OrderType
           /\ \/ order'[o] = order[o]
              \/ /\ order[o].status # "none" /\ order'[o].status \in {"billed", "closed"}
                 /\ order'[o].version > 0 /\ order'[o].session = order[o].session
    <2> SUFFICES ASSUME NEW o \in Orders
                 PROVE  /\ order'[o] \in OrderType
                        /\ \/ order'[o] = order[o]
                           \/ /\ order[o].status # "none"
                              /\ order'[o].status \in {"billed", "closed"}
                              /\ order'[o].version > 0
                              /\ order'[o].session = order[o].session
      OBVIOUS
    <2>1. order[o] \in OrderType
      BY FloorTypes
    <2>2. CASE o \in billed
      <3>1. order'[o] = Moved(order[o], end, d)
        BY <1>1, <2>2 DEF Moved
      <3>2. order[o].status # "none"
        BY <1>2, <2>2
      <3>3. /\ order'[o] \in OrderType /\ order'[o].status = end
            /\ order'[o].version = order[o].version + d /\ order[o].version \in Nat
            /\ order'[o].session = order[o].session
        <4>1. d \in Nat /\ end \in OrderStatuses
          BY <1>3
        <4>2. PICK x \in OrderType : x = order[o]
          BY <2>1
        <4>3. PICK t \in OrderStatuses, k \in Nat : t = end /\ k = d
          BY <4>1
        <4>4. /\ Moved(x, t, k) \in OrderType /\ Moved(x, t, k).status = t
              /\ Moved(x, t, k).version = x.version + k /\ x.version \in Nat
              /\ Moved(x, t, k).session = x.session
          BY MovedOrder
        <4>5. order'[o] = Moved(x, t, k)
          BY <3>1, <4>2, <4>3
        <4> QED BY <4>2, <4>3, <4>4, <4>5
      <3>4. order'[o].version > 0
        BY <1>3, <3>3
      <3> QED BY <1>3, <3>2, <3>3, <3>4
    <2>3. CASE o \notin billed
      BY <1>1, <2>1, <2>3
    <2> QED BY <2>2, <2>3
  <1>5. order' \in [Orders -> OrderType]
    <2>1. order' = [o \in Orders |-> order'[o]]
      BY <1>1
    <2> QED BY <1>4, <2>1
  <1>6. /\ sessions' \in Seq({"open", "bill_requested", "billed", "closed"})
        /\ DOMAIN sessions' = DOMAIN sessions
    BY <1>1, <1>3, SessionSet
  <1> QED BY <1>1, <1>4, <1>5, <1>6, FloorKeeps

LEMMA CloseSessionKeeps ==
    ASSUME SyncInv, NEW s \in DOMAIN sessions, CloseSession(s)
    PROVE  SyncInv'
  <1>1. /\ sessions' = [sessions EXCEPT ![s] = "closed"] /\ order' = order
        /\ UNCHANGED <<cloudVars, queueVars, worker, wire>>
    BY DEF CloseSession
  <1>2. /\ sessions' \in Seq({"open", "bill_requested", "billed", "closed"})
        /\ DOMAIN sessions' = DOMAIN sessions
    BY <1>1, SessionSet
  <1> QED BY <1>1, <1>2, FloorTypes, FloorKeeps

-----------------------------------------------------------------------------
(* The inbox.                                                              *)

\* A command is marked; its handler publishes nothing, though it may have
\* moved a session.
LEMMA MarkKeeps ==
    ASSUME SyncInv, worker.at = "inbox", NEW i \in worker.batch, NEW row \in RowType,
           SetInbox(i, row), applied' = applied \/ applied' = applied \cup {i},
           Visible(row, row.state = "processed" /\ i \in applied'),
           worker' = [worker EXCEPT !.batch = @ \ {i}]
    PROVE  /\ worker' \in WorkerType /\ WorkerInv' /\ AnswerInv'
           /\ inbox' \in [DOMAIN inbox' -> RowType] /\ DOMAIN inbox' = DOMAIN inbox
           /\ applied' \subseteq DOMAIN inbox' /\ applied \subseteq applied'
           /\ \A j \in DOMAIN inbox' :
                 Visible(inbox'[j], inbox'[j].state = "processed" /\ j \in applied')
  <1>1. /\ worker \in WorkerType /\ worker.batch \subseteq DOMAIN inbox
        /\ worker.reply = "none" /\ i \in DOMAIN inbox
    BY WorkerFields DEF SyncInv, WorkerInv
  <1>2. /\ inbox' \in [DOMAIN inbox' -> RowType] /\ DOMAIN inbox' = DOMAIN inbox
        /\ applied' \subseteq DOMAIN inbox' /\ applied \subseteq applied'
        /\ \A j \in DOMAIN inbox' :
              Visible(inbox'[j], inbox'[j].state = "processed" /\ j \in applied')
    BY <1>1, InboxRowKeeps DEF SyncInv
  <1>3. /\ worker' \in WorkerType /\ worker'.at = "inbox" /\ worker'.reply = "none"
        /\ worker'.batch \subseteq worker.batch
    BY <1>1 DEF WorkerType
  <1>4. WorkerInv' /\ AnswerInv'
    BY <1>1, <1>2, <1>3 DEF WorkerInv, AnswerInv
  <1> QED BY <1>2, <1>3, <1>4

LEMMA HandledKeeps ==
    ASSUME SyncInv, worker.at = "inbox", NEW i \in worker.batch, NEW row \in RowType,
           SetInbox(i, row), applied' = applied \/ applied' = applied \cup {i},
           Visible(row, row.state = "processed" /\ i \in applied'),
           worker' = [worker EXCEPT !.batch = @ \ {i}],
           sessions' \in Seq({"open", "bill_requested", "billed", "closed"}),
           DOMAIN sessions' = DOMAIN sessions,
           UNCHANGED <<cloudVars, outbox, order, wire>>
    PROVE  SyncInv'
  <1>1. /\ worker' \in WorkerType /\ WorkerInv' /\ AnswerInv'
        /\ inbox' \in [DOMAIN inbox' -> RowType] /\ DOMAIN inbox' = DOMAIN inbox
        /\ applied' \subseteq DOMAIN inbox' /\ applied \subseteq applied'
        /\ \A j \in DOMAIN inbox' :
              Visible(inbox'[j], inbox'[j].state = "processed" /\ j \in applied')
    BY MarkKeeps
  <1>2. cloudOrder' = cloudOrder /\ cloudEvents' = cloudEvents /\ commands' = commands
    BY DEF cloudVars
  <1>3. TypeOK'
    BY <1>1, <1>2 DEF SyncInv, TypeOK
  <1>4. LogInv' /\ CommandInv' /\ SentIsMirrored'
    BY <1>2 DEF SyncInv, LogInv, LogOf, UploadsOf, CommandInv, SentIsMirrored
  <1>5. UploadInv'
    BY DEF SyncInv, UploadInv, PublishedWithoutGap, Before, UploadsOf
  <1>6. ImportInv' /\ AcknowledgedIsImported'
    BY <1>1, <1>2 DEF SyncInv, ImportInv, AcknowledgedIsImported, NoOrder
  <1>7. FailuresAreVisible'
    BY <1>1 DEF SyncInv, FailuresAreVisible, Visible
  <1> QED BY <1>1, <1>3, <1>4, <1>5, <1>6, <1>7 DEF SyncInv

\* A guest's order is imported: the hub has it, and publishes that.
LEMMA ImportKeeps ==
    ASSUME SyncInv, worker.at = "inbox", NEW i \in worker.batch,
           NEW c \in Orders, c = commands[i].what, order[c] = NoOrder,
           ImportOrder(c), SetInbox(i, Processed(i)), applied' = applied \cup {i},
           worker' = [worker EXCEPT !.batch = @ \ {i}],
           UNCHANGED <<cloudVars, wire>>
    PROVE  SyncInv' /\ Publishes({c}, Awaiting)
  <1>1. i \in DOMAIN inbox /\ i \in DOMAIN commands
    BY WorkerFields DEF SyncInv, WorkerInv
  <1>2. PICK row \in RowType : row = Processed(i) /\ row.state = "processed"
    <2>1. inbox[i] \in RowType
      BY <1>1, WorkerFields
    <2> QED BY <2>1 DEF Processed, RowType
  <1>3. /\ worker' \in WorkerType /\ WorkerInv' /\ AnswerInv'
        /\ inbox' \in [DOMAIN inbox' -> RowType] /\ DOMAIN inbox' = DOMAIN inbox
        /\ applied' \subseteq DOMAIN inbox' /\ applied \subseteq applied'
        /\ \A j \in DOMAIN inbox' :
              Visible(inbox'[j], inbox'[j].state = "processed" /\ j \in applied')
    <2>1. Visible(row, row.state = "processed" /\ i \in applied')
      BY <1>2 DEF Visible
    <2>2. SetInbox(i, row)
      BY <1>2
    <2>3. applied' = applied \/ applied' = applied \cup {i}
      OBVIOUS
    <2> QED BY <2>1, <2>2, <2>3, MarkKeeps
  <1>4. cloudOrder' = cloudOrder /\ cloudEvents' = cloudEvents /\ commands' = commands
    BY DEF cloudVars
  <1>5. /\ sessions' \in Seq({"open", "bill_requested", "billed", "closed"})
        /\ DOMAIN sessions \subseteq DOMAIN sessions'
        /\ Len(sessions') \in DOMAIN sessions' /\ Len(sessions') \in Nat
    <2>1. /\ sessions \in Seq({"open", "bill_requested", "billed", "closed"})
          /\ DOMAIN sessions = 1..Len(sessions) /\ Len(sessions) \in Nat
      BY FloorTypes
    <2>2. CASE ActiveSessions = {}
      <3>1. sessions' = Append(sessions, "open")
        BY <2>2 DEF ImportOrder
      <3> QED BY <2>1, <3>1, AppendProperties, LenProperties
    <2>3. CASE ActiveSessions # {}
      <3>1. sessions' = sessions
        BY <2>3 DEF ImportOrder
      <3>2. \E s \in DOMAIN sessions : TRUE
        BY <2>3 DEF ActiveSessions
      <3> QED BY <2>1, <3>1, <3>2
    <2> QED BY <2>2, <2>3
  <1>6. PICK n \in Nat : n = Len(sessions')
    BY <1>5
  <1> DEFINE new == [status |-> "placed", version |-> 1, session |-> n]
  <1>7. new \in OrderType /\ new # NoOrder /\ new.version = 1 /\ new.status = "placed"
        /\ new.session = n
    BY DEF OrderType, OrderStatuses, VALID_TRANSITIONS, NoOrder
  <1>8. /\ order' = [order EXCEPT ![c] = new]
        /\ Enqueue(<<Upload(c, 2, "imported", Awaiting)>>)
    BY <1>6 DEF ImportOrder, Awaiting
  <1> HIDE DEF new
  <1>9. /\ order' \in [Orders -> OrderType] /\ order'[c] = new
        /\ \A x \in Orders \ {c} : order'[x] = order[x]
    BY <1>7, <1>8, FloorTypes
  <1>10. order[c].version = 0 /\ order[c].status = "none"
    BY DEF NoOrder
  <1> DEFINE u == Upload(c, 2, "imported", Awaiting)
             rows == <<u>>
  <1>11. /\ u.order = c /\ u.row = NewRow /\ u.event.v = 2 + order[c].version
         /\ u.event.status = Awaiting /\ u.event.kind = "imported" /\ u.event.v = 2
         /\ u \in UploadType
    <2>1. u = [order |-> c, event |-> [kind |-> "imported", v |-> 2, status |-> Awaiting],
               row |-> NewRow]
      BY DEF Upload, Event
    <2>2. NewRow \in RowType
      BY DEF NewRow, RowType
    <2> HIDE DEF u
    <2> QED BY <1>10, <2>1, <2>2 DEF UploadType, EventType, Statuses
  <1>12. Publishes({c}, Awaiting)
    <2>1. Enqueue(rows)
      BY <1>8
    <2> HIDE DEF u
    <2>2. rows \in Seq(UploadType) /\ Len(rows) = 1 /\ rows[1] = u
      BY <1>11
    <2>3. outbox \in Seq(UploadType)
      BY DEF SyncInv, TypeOK
    <2> HIDE DEF rows
    <2>4. PICK st : st = Awaiting
      OBVIOUS
    <2>7. PICK P \in SUBSET Orders : P = {c}
      OBVIOUS
    <2>5. \A k \in 1..Len(rows) :
                /\ rows[k].order \in P /\ rows[k].row = NewRow
                /\ rows[k].event.v = 2 + order[rows[k].order].version
                /\ rows[k].event.status = st
                /\ rows[k].event.kind = "imported" =>
                     rows[k].event.v = 2 /\ st = Awaiting
                /\ rows[k].event.kind # "submitted"
      BY <1>11, <2>2, <2>4, <2>7
    <2>6. /\ \A x \in P : \E k \in 1..Len(rows) : rows[k].order = x
          /\ \A j, k \in 1..Len(rows) : rows[j].order = rows[k].order => j = k
      BY <1>11, <2>2, <2>7
    <2>9. Batch(rows, P, st)
      BY <2>2, <2>5, <2>6 DEF Batch
    <2>8. Publishes(P, st)
      BY <2>1, <2>3, <2>9, EnqueuePublishes
    <2> QED BY <2>4, <2>7, <2>8
  <1> HIDE DEF u, rows
  <1>13. /\ UploadsStay /\ outbox' \in Seq(UploadType)
         /\ LogInv' /\ UploadInv' /\ SentIsMirrored'
         /\ \A j \in DOMAIN outbox : Mirrored(j)' <=> Mirrored(j)
         /\ \A j \in DOMAIN outbox' : order'[outbox'[j].order] # NoOrder
         /\ \A j \in DOMAIN outbox' :
              outbox'[j].row.state \in Queued \cup {"sent"} \/ outbox'[j].row.letter = "open"
    <2>1. \A x \in {c} : /\ order[x].status \notin {"billed", "closed"}
                         /\ order'[x].version = order[x].version + 1
                         /\ order'[x] # NoOrder
      BY <1>7, <1>9, <1>10
    <2>2. {c} \in SUBSET Orders /\ UNCHANGED cloudVars
      OBVIOUS
    <2> QED BY <1>9, <1>12, <2>1, <2>2, PublishKeeps
  <1>14. TypeOK'
    BY <1>3, <1>4, <1>5, <1>9, <1>13 DEF SyncInv, TypeOK, UploadsStay
  <1>15. CommandInv'
    BY <1>4 DEF SyncInv, CommandInv
  <1>16. \A x \in Orders : order'[x] # NoOrder =>
             /\ order'[x].version > 0 /\ order'[x].status # "none"
             /\ order'[x].session \in DOMAIN sessions'
             /\ \E j \in applied' : commands[j].what = x
    <2>1. \A x \in Orders \ {c} : order[x] # NoOrder =>
             /\ order[x].version > 0 /\ order[x].status # "none"
             /\ order[x].session \in DOMAIN sessions
             /\ \E j \in applied : commands[j].what = x
      BY DEF SyncInv, ImportInv
    <2>2. i \in applied'
      OBVIOUS
    <2> QED BY <1>3, <1>5, <1>6, <1>7, <1>9, <2>1, <2>2
  <1>17. ImportInv'
    BY <1>4, <1>13, <1>16 DEF ImportInv, NoOrder
  <1>18. AcknowledgedIsImported'
    BY <1>3, <1>4, <1>7, <1>9 DEF SyncInv, AcknowledgedIsImported, NoOrder
  <1>19. FailuresAreVisible'
    BY <1>3, <1>13 DEF FailuresAreVisible, Visible
  <1> QED BY <1>3, <1>12, <1>13, <1>14, <1>15, <1>17, <1>18, <1>19 DEF SyncInv

LEMMA VerdictMeans ==
    ASSUME NEW c \in Orders \cup Bills, NEW fit, NEW up
    PROVE  /\ Verdict(c, fit, up) = "import" => c \in Orders /\ order[c] = NoOrder
           /\ Verdict(c, fit, up) = "bill" =>
                c \in Bills /\ BillOf[c] \in Orders /\ order[BillOf[c]] # NoOrder
  BY BillAssumption DEF Verdict

\* Only an import publishes.
LEMMA ProcessKeeps ==
    ASSUME SyncInv, NEW fit \in BOOLEAN, NEW up \in BOOLEAN, ProcessInboxRow(fit, up)
    PROVE  /\ SyncInv' /\ cloudVars' = cloudVars
           /\ \/ outbox' = outbox
              \/ \E c \in Orders : cloudOrder[c] # "none" /\ Publishes({c}, Awaiting)
  <1>1. PICK i \in worker.batch : i = First(worker.batch)
    BY WorkerFields DEF ProcessInboxRow
  <1>2. /\ worker.at = "inbox" /\ ApplyInboxRecord(i, fit, up)
        /\ worker' = [worker EXCEPT !.batch = @ \ {i}] /\ UNCHANGED <<cloudVars, wire>>
    BY <1>1 DEF ProcessInboxRow
  <1>3. i \in DOMAIN inbox /\ i \in DOMAIN commands /\ inbox[i] \in RowType
    BY <1>2, WorkerFields DEF SyncInv, WorkerInv
  <1>4. PICK c \in Orders \cup Bills : c = commands[i].what
    <2>1. commands[i] \in CommandType
      BY <1>3, ElementOfSeq, LenProperties DEF SyncInv, TypeOK
    <2> QED BY <2>1 DEF CommandType
  <1> DEFINE verdict == IF i \in applied THEN "already" ELSE Verdict(c, fit, up)
  <1>5. /\ verdict = "import" =>
             ImportOrder(c) /\ SetInbox(i, Processed(i)) /\ applied' = applied \cup {i}
        /\ verdict = "bill" =>
             ApplyBillRequest(c) /\ SetInbox(i, Processed(i)) /\ applied' = applied \cup {i}
        /\ verdict = "already" =>
             SetInbox(i, Processed(i)) /\ applied' = applied \cup {i}
             /\ UNCHANGED <<outbox, floorVars>>
        /\ verdict \notin {"import", "bill", "already"} =>
             SetInbox(i, ScheduleFailure(inbox[i], verdict = "retryable"))
             /\ UNCHANGED <<outbox, applied, floorVars>>
    BY <1>2, <1>4 DEF ApplyInboxRecord
  <1>6. /\ verdict = "import" => c \in Orders /\ order[c] = NoOrder
        /\ verdict = "bill" => c \in Bills /\ BillOf[c] \in Orders /\ order[BillOf[c]] # NoOrder
    BY VerdictMeans
  <1> HIDE DEF verdict
  <1>7. PICK row \in RowType : row = Processed(i) /\ row.state = "processed"
    <2>1. PICK r \in RowType : r = inbox[i]
      BY <1>3
    <2>2. /\ [r EXCEPT !.state = "processed"] \in RowType
          /\ [r EXCEPT !.state = "processed"].state = "processed"
      BY <2>1 DEF RowType
    <2>3. Processed(i) = [r EXCEPT !.state = "processed"]
      BY <2>1 DEF Processed
    <2> QED BY <2>2, <2>3
  <1>8. ASSUME SetInbox(i, Processed(i)), applied' = applied \cup {i},
               UNCHANGED <<outbox, order>>,
               sessions' \in Seq({"open", "bill_requested", "billed", "closed"}),
               DOMAIN sessions' = DOMAIN sessions
        PROVE  SyncInv'
    <2>1. Visible(row, row.state = "processed" /\ i \in applied')
      BY <1>7, <1>8 DEF Visible
    <2>2. SetInbox(i, row)
      BY <1>7, <1>8
    <2>3. applied' = applied \/ applied' = applied \cup {i}
      BY <1>8
    <2>4. UNCHANGED <<cloudVars, outbox, order, wire>>
      BY <1>2, <1>8
    <2> QED BY <1>2, <1>8, <2>1, <2>2, <2>3, <2>4, HandledKeeps
  <1>9. CASE verdict = "import"
    <2>1. c \in Orders /\ order[c] = NoOrder /\ ImportOrder(c) /\ SetInbox(i, Processed(i))
          /\ applied' = applied \cup {i}
      BY <1>5, <1>6, <1>9
    <2>2. SyncInv' /\ Publishes({c}, Awaiting)
      BY <1>2, <1>4, <2>1, ImportKeeps
    <2>3. cloudOrder[c] # "none"
      BY <1>3, <1>4, <2>1 DEF SyncInv, CommandInv
    <2> QED BY <1>2, <2>1, <2>2, <2>3
  <1>10. CASE verdict = "bill"
    <2>1. /\ BillOf[c] \in Orders /\ order[BillOf[c]] # NoOrder /\ ApplyBillRequest(c)
          /\ SetInbox(i, Processed(i)) /\ applied' = applied \cup {i}
      BY <1>5, <1>6, <1>10
    <2>2. order[BillOf[c]].session \in DOMAIN sessions
      BY <2>1 DEF SyncInv, ImportInv
    <2>3. PICK s \in DOMAIN sessions : s = order[BillOf[c]].session
      BY <2>2
    <2>4. sessions' = [sessions EXCEPT ![s] = "bill_requested"] /\ UNCHANGED <<order, outbox>>
      BY <2>1, <2>3 DEF ApplyBillRequest
    <2>5. /\ sessions' \in Seq({"open", "bill_requested", "billed", "closed"})
          /\ DOMAIN sessions' = DOMAIN sessions
      BY <2>4, SessionSet
    <2> QED BY <1>2, <1>8, <2>1, <2>4, <2>5
  <1>11. CASE verdict = "already"
    <2>1. /\ SetInbox(i, Processed(i)) /\ applied' = applied \cup {i}
          /\ outbox' = outbox /\ order' = order /\ sessions' = sessions
      BY <1>5, <1>11 DEF floorVars
    <2> QED BY <1>2, <1>8, <2>1, FloorTypes
  <1>12. CASE verdict \notin {"import", "bill", "already"}
    <2> DEFINE b == verdict = "retryable"
               new == ScheduleFailure(inbox[i], b)
    <2>1. /\ SetInbox(i, new) /\ applied' = applied
          /\ outbox' = outbox /\ order' = order /\ sessions' = sessions
      BY <1>5, <1>12 DEF floorVars
    <2>2. b \in BOOLEAN
      OBVIOUS
    <2> HIDE DEF b
    <2>3. new \in RowType /\ (new.state = "waiting" \/ new.letter = "open")
      BY <1>3, <2>2, FailureRow
    <2> HIDE DEF new
    <2>4. Visible(new, new.state = "processed" /\ i \in applied')
      BY <2>3 DEF Visible, Queued
    <2>5. applied' = applied \/ applied' = applied \cup {i}
      BY <2>1
    <2>6. /\ sessions' \in Seq({"open", "bill_requested", "billed", "closed"})
          /\ DOMAIN sessions' = DOMAIN sessions
      BY <2>1, FloorTypes
    <2>7. UNCHANGED <<cloudVars, outbox, order, wire>>
      BY <1>2, <2>1
    <2>8. SyncInv'
      BY <1>2, <2>1, <2>3, <2>4, <2>5, <2>6, <2>7, HandledKeeps
    <2> QED BY <1>2, <2>1, <2>8
  <1> QED BY <1>9, <1>10, <1>11, <1>12

-----------------------------------------------------------------------------
(* The theorems of safety.                                                 *)

LEMMA InitKeeps == Init => SyncInv
  <1> SUFFICES ASSUME Init PROVE SyncInv
    OBVIOUS
  <1> USE DEF Init, CloudInit
  <1>1. \A S : <<>> \in Seq(S) /\ DOMAIN <<>> = {}
    OBVIOUS
  <1>2. worker \in WorkerType
    BY DEF Idle, WorkerType
  <1>3. NoOrder \in OrderType /\ NoOrder.status = "none" /\ NoOrder.version = 0
    BY DEF NoOrder, OrderType, OrderStatuses
  <1>4. TypeOK
    <2>1. order \in [Orders -> OrderType]
      BY <1>3
    <2>2. cloudOrder \in [Orders -> SAFE_CLOUD_STATUSES \cup {"none"}]
      OBVIOUS
    <2>3. cloudEvents \in [Orders -> Seq(EventType)]
      BY <1>1
    <2>4. inbox \in [DOMAIN inbox -> RowType] /\ DOMAIN inbox = {}
      BY <1>1
    <2> QED BY <1>1, <1>2, <2>1, <2>2, <2>3, <2>4 DEF TypeOK
  <1>5. WorkerInv /\ AnswerInv
    BY DEF WorkerInv, AnswerInv, Idle
  <1>6. \A o \in Orders : UploadsOf(o) = {} /\ cloudEvents[o] = <<>>
    BY <1>1 DEF UploadsOf
  <1>7. LogInv
    <2>1. Len(<<>>) # 1
      OBVIOUS
    <2> QED BY <1>1, <1>6, <2>1 DEF LogInv, LogOf
  <1>8. CommandInv /\ SentIsMirrored /\ AcknowledgedIsImported /\ FailuresAreVisible
    BY <1>1 DEF CommandInv, SentIsMirrored, AcknowledgedIsImported, FailuresAreVisible
  <1>9. ImportInv
    BY <1>1 DEF ImportInv
  <1>10. UploadInv
    BY <1>1, <1>3, <1>6, FS_EmptySet DEF UploadInv, PublishedWithoutGap
  <1> QED BY <1>4, <1>5, <1>7, <1>8, <1>9, <1>10 DEF SyncInv

LEMMA StepKeeps == SyncInv /\ [Next]_vars => SyncInv'
  <1> SUFFICES ASSUME SyncInv, [Next]_vars PROVE SyncInv'
    OBVIOUS
  <1>1. CASE Guest
    BY <1>1, GuestOrdersKeeps, GuestAsksKeeps DEF Guest
  <1>2. CASE Staff
    <2>1. \A o \in Orders, t \in Targets : TransitionOrder(o, t) => SyncInv'
      BY TransitionKeeps
    <2>2. \A s \in DOMAIN sessions : RequestSessionBill(s) \/ CloseSession(s) => SyncInv'
      BY SessionBillKeeps, CloseSessionKeeps
    <2>3. \A s \in DOMAIN sessions, paid \in BOOLEAN : BillSession(s, paid) => SyncInv'
      BY BillSessionKeeps
    <2> QED BY <1>2, <2>1, <2>2, <2>3 DEF Staff
  <1>3. CASE WorkerStep
    <2>1. \A ready, pulled \in BOOLEAN : StartCycle(ready, pulled) => SyncInv'
      BY StartCycleKeeps
    <2>2. \A fit, up \in BOOLEAN : ProcessInboxRow(fit, up) => SyncInv'
      BY ProcessKeeps
    <2>3. EndCycle => SyncInv'
      BY BackToIdle DEF EndCycle
    <2> QED BY <1>3, <2>1, <2>2, <2>3, StartOutboxKeeps, SendKeeps, AnswerKeeps
            DEF WorkerStep
  <1>4. CASE Crash
    BY <1>4, BackToIdle DEF Crash
  <1>5. CASE \E i \in DOMAIN inbox : InboxBackoffEnds(i)
    BY <1>5, InboxRowsDue
  <1>6. CASE \E i \in DOMAIN outbox : OutboxBackoffEnds(i)
    BY <1>6, OutboxRowsDue
  <1>7. CASE Link
    BY <1>7, LoseKeeps, HandleKeeps DEF Link
  <1>8. CASE Operator
    BY <1>8, InboxRowsDue, OutboxRowsDue DEF Operator
  <1>9. CASE UNCHANGED vars
    <2>1. UNCHANGED <<cloudVars, queueVars, floorVars>> /\ worker' = worker /\ wire' = wire
      BY <1>9 DEF vars
    <2>2. worker' \in WorkerType /\ wire' \subseteq DOMAIN outbox /\ WorkerInv'
      BY <2>1 DEF SyncInv, TypeOK, WorkerInv, queueVars
    <2> QED BY <2>1, <2>2, WorkerKeeps
  <1> QED BY <1>1, <1>2, <1>3, <1>4, <1>5, <1>6, <1>7, <1>8, <1>9 DEF Next, Worker

\* The inductive invariant of the synchronisation.
THEOREM SyncInvariant == Spec => []SyncInv
  BY InitKeeps, StepKeeps, PTL DEF Spec

\* Every row the hub takes for sent is in the cloud's log, at its version and
\* as published, whatever was lost, doubled or late (process_outbox_batch and
\* apply_local_sync_event).
THEOREM SentRowsAreMirrored == Spec => []SentIsMirrored
  <1>1. SyncInv => SentIsMirrored
    BY DEF SyncInv
  <1> QED BY <1>1, SyncInvariant, PTL

\* The cloud stops offering a guest's order only when the hub has imported it
\* (pull_commands, import_cloud_cafe_order).
THEOREM AcknowledgedCommandsAreImported == Spec => []AcknowledgedIsImported
  <1>1. SyncInv => AcknowledgedIsImported
    BY DEF SyncInv
  <1> QED BY <1>1, SyncInvariant, PTL

\* What no longer moves by itself has an open dead letter (both
\* _schedule_..._failure functions and retry_dead_letter).
THEOREM FailuresStayVisible == Spec => []FailuresAreVisible
  <1>1. SyncInv => FailuresAreVisible
    BY DEF SyncInv
  <1> QED BY <1>1, SyncInvariant, PTL

\* The versions of an order's uploads are 2, 3, 4, ... in the order in which
\* they were written (enqueue_cafe_order_status_snapshot and its callers).
THEOREM VersionsHaveNoGap == Spec => []PublishedWithoutGap
  <1>1. SyncInv => PublishedWithoutGap
    BY DEF SyncInv, UploadInv
  <1> QED BY <1>1, SyncInvariant, PTL

-----------------------------------------------------------------------------
(* The hub and the cloud implement StatusFeed.                             *)

\* The published statuses of an order are those of its uploads, by rank.
PublishedAre(o) ==
    LET n == Cardinality(UploadsOf(o))
    IN  /\ n \in Nat /\ Published(o) \in Seq(Statuses)
        /\ Len(Published(o)) = n
        /\ \A i \in UploadsOf(o) : /\ Before(i) \in 0..(n - 1)
                                   /\ Published(o)[Before(i) + 1] = outbox[i].event.status
        /\ \A k \in 1..n : \E i \in UploadsOf(o) : Before(i) + 1 = k

FeedInv == \A o \in Orders : PublishedAre(o)

LEMMA FeedMeans == SyncInv => FeedInv
  <1> SUFFICES ASSUME SyncInv, NEW o \in Orders PROVE PublishedAre(o)
    BY DEF FeedInv
  <1> DEFINE n == Cardinality(UploadsOf(o))
             p == Published(o)
  <1>1. outbox \in Seq(UploadType)
    BY DEF SyncInv, TypeOK
  <1>2. n \in Nat
    BY <1>1, UploadsFinite
  <1>3. /\ \A i \in UploadsOf(o) : Before(i) \in 0..(n - 1)
        /\ \A i, j \in UploadsOf(o) : Before(i) = Before(j) => i = j
        /\ \A k \in 0..(n - 1) : \E i \in UploadsOf(o) : Before(i) = k
    BY <1>1, UploadRanks
  <1>4. p = [k \in 1..n |->
               outbox[CHOOSE i \in UploadsOf(o) : Before(i) = k - 1].event.status]
    BY DEF Published
  <1> HIDE DEF p, n
  <1>5. ASSUME NEW i \in UploadsOf(o)
        PROVE  /\ Before(i) + 1 \in 1..n
               /\ p[Before(i) + 1] = outbox[i].event.status
               /\ outbox[i].event.status \in Statuses
    <2>1. PICK k \in 1..n : k = Before(i) + 1 /\ Before(i) = k - 1
      BY <1>2, <1>3
    <2> DEFINE j == CHOOSE j \in UploadsOf(o) : Before(j) = k - 1
    <2>2. j \in UploadsOf(o) /\ Before(j) = k - 1
      BY <2>1
    <2>3. p[k] = outbox[j].event.status
      BY <1>4
    <2> HIDE DEF j
    <2>4. j = i
      BY <1>3, <2>1, <2>2
    <2>5. outbox[i].event \in EventType
      BY <1>1, OutboxDomain DEF UploadsOf
    <2>6. outbox[i].event.status \in Statuses
      BY <2>5 DEF EventType
    <2> QED BY <2>1, <2>3, <2>4, <2>6
  <1>6. \A k \in 1..n : \E i \in UploadsOf(o) : Before(i) + 1 = k
    <2> SUFFICES ASSUME NEW k \in 1..n PROVE \E i \in UploadsOf(o) : Before(i) + 1 = k
      OBVIOUS
    <2>1. k - 1 \in 0..(n - 1) /\ k - 1 + 1 = k
      BY <1>2
    <2> QED BY <1>3, <2>1
  <1>7. p \in [1..n -> Statuses]
    <2>1. \A k \in 1..n : p[k] \in Statuses
      BY <1>5, <1>6
    <2>2. p = [k \in 1..n |-> p[k]]
      BY <1>4
    <2> QED BY <2>1, <2>2
  <1>8. p \in Seq(Statuses) /\ Len(p) = n
    BY <1>2, <1>7, SeqIntro
  <1> QED BY <1>2, <1>3, <1>5, <1>6, <1>8 DEF PublishedAre, p, n

\* The state of the feed.
LEMMA FeedVars ==
    ASSUME \A o \in Orders : Published(o)' = Published(o),
           cloudEvents' = cloudEvents, cloudOrder' = cloudOrder
    PROVE  UNCHANGED Feed!vars
  BY DEF Feed!vars

\* Nothing new is published.
LEMMA SamePublished ==
    ASSUME outbox \in Seq(UploadType), FeedInv, FeedInv',
           UploadsStay, DOMAIN outbox' = DOMAIN outbox
    PROVE  \A o \in Orders : Published(o)' = Published(o)
  <1> SUFFICES ASSUME NEW o \in Orders PROVE Published(o)' = Published(o)
    OBVIOUS
  <1>1. UploadsOf(o)' = UploadsOf(o) /\ \A i \in UploadsOf(o) : Before(i)' = Before(i)
    BY SameUploads DEF UploadsOf
  <1>2. PublishedAre(o) /\ PublishedAre(o)'
    BY DEF FeedInv
  <1> DEFINE n == Cardinality(UploadsOf(o))
             p == Published(o)
  <1>3. PICK q : q = Published(o)'
    OBVIOUS
  <1>4. /\ n \in Nat /\ p \in Seq(Statuses) /\ q \in Seq(Statuses)
        /\ Len(p) = n /\ Len(q) = n
    BY <1>1, <1>2, <1>3 DEF PublishedAre
  <1>5. \A i \in UploadsOf(o) : outbox'[i].event.status = outbox[i].event.status
    BY DEF UploadsStay, UploadsOf
  <1>6. ASSUME NEW k \in 1..n PROVE p[k] = q[k]
    <2>1. PICK i \in UploadsOf(o) : Before(i) + 1 = k
      BY <1>2 DEF PublishedAre
    <2>2. p[k] = outbox[i].event.status
      BY <1>2, <2>1 DEF PublishedAre
    <2>3. q[k] = outbox'[i].event.status
      BY <1>1, <1>2, <1>3, <2>1 DEF PublishedAre
    <2> QED BY <1>5, <2>2, <2>3
  <1> HIDE DEF p, n
  <1>7. p = q
    BY <1>4, <1>6, SeqEqual
  <1> QED BY <1>3, <1>7 DEF p

\* Every order of P gets the status s.
LEMMA MorePublished ==
    ASSUME outbox \in Seq(UploadType), FeedInv, FeedInv',
           NEW P \in SUBSET Orders, NEW s \in Statuses, Publishes(P, s)
    PROVE  /\ \A o \in P : Published(o)' = Append(Published(o), s)
           /\ \A o \in Orders \ P : Published(o)' = Published(o)
  <1>1. /\ UploadsStay
        /\ \A o \in Orders \ P : UploadsOf(o)' = UploadsOf(o)
        /\ \A o \in P : \E i \in Len(outbox) + 1..Len(outbox') :
             /\ outbox'[i].order = o
             /\ UploadsOf(o)' = UploadsOf(o) \cup {i}
             /\ Cardinality(UploadsOf(o)') = Cardinality(UploadsOf(o)) + 1
             /\ Before(i)' = Cardinality(UploadsOf(o))
        /\ \A i \in DOMAIN outbox : Before(i)' = Before(i)
    BY PublishedOnce
  <1>2. \A o \in Orders : PublishedAre(o) /\ PublishedAre(o)'
    BY DEF FeedInv
  <1>3. ASSUME NEW o \in Orders
        PROVE  \A k \in 1..Cardinality(UploadsOf(o)) : Published(o)'[k] = Published(o)[k]
    <2> SUFFICES ASSUME NEW k \in 1..Cardinality(UploadsOf(o))
                 PROVE  Published(o)'[k] = Published(o)[k]
      OBVIOUS
    <2>1. PICK i \in UploadsOf(o) : Before(i) + 1 = k
      BY <1>2 DEF PublishedAre
    <2>2. Published(o)[k] = outbox[i].event.status
      BY <1>2, <2>1 DEF PublishedAre
    <2>3. i \in DOMAIN outbox /\ i \in UploadsOf(o)'
      BY <1>1 DEF UploadsOf
    <2>4. outbox'[i].event.status = outbox[i].event.status /\ Before(i)' + 1 = k
      BY <1>1, <2>1, <2>3 DEF UploadsStay
    <2>5. Published(o)'[Before(i)' + 1] = outbox'[i].event.status
      BY <1>2, <2>3 DEF PublishedAre
    <2> QED BY <2>2, <2>4, <2>5
  <1>4. ASSUME NEW o \in P PROVE Published(o)' = Append(Published(o), s)
    <2> DEFINE n == Cardinality(UploadsOf(o))
               p == Published(o)
    <2>1. PICK i \in Len(outbox) + 1..Len(outbox') :
             /\ outbox'[i].order = o
             /\ UploadsOf(o)' = UploadsOf(o) \cup {i}
             /\ Cardinality(UploadsOf(o)') = n + 1
             /\ Before(i)' = n
      BY <1>1
    <2>2. outbox'[i].event.status = s
      BY <2>1 DEF Publishes
    <2>3. PICK q : q = Published(o)'
      OBVIOUS
    <2>4. /\ n \in Nat /\ p \in Seq(Statuses) /\ q \in Seq(Statuses)
          /\ Len(p) = n /\ Len(q) = n + 1
      BY <1>2, <2>1, <2>3 DEF PublishedAre
    <2>5. q[n + 1] = s
      <3>1. i \in UploadsOf(o)'
        BY <2>1
      <3>2. Published(o)'[Before(i)' + 1] = outbox'[i].event.status
        BY <1>2, <3>1 DEF PublishedAre
      <3> QED BY <2>1, <2>2, <2>3, <3>2
    <2>6. \A k \in 1..n : q[k] = p[k]
      BY <1>3, <2>3
    <2> HIDE DEF p, n
    <2>7. /\ Append(p, s) \in Seq(Statuses) /\ Len(Append(p, s)) = n + 1
          /\ \A k \in 1..n : Append(p, s)[k] = p[k]
          /\ Append(p, s)[n + 1] = s
      BY <2>4, AppendProperties
    <2>8. \A k \in 1..n + 1 : q[k] = Append(p, s)[k]
      <3>1. \A k \in 1..n + 1 : k \in 1..n \/ k = n + 1
        BY <2>4
      <3> QED BY <2>5, <2>6, <2>7, <3>1
    <2>9. q = Append(p, s)
      BY <2>4, <2>7, <2>8, SeqEqual
    <2> QED BY <2>3, <2>9 DEF p
  <1>5. ASSUME NEW o \in Orders \ P PROVE Published(o)' = Published(o)
    <2> DEFINE n == Cardinality(UploadsOf(o))
               p == Published(o)
    <2>1. PICK q : q = Published(o)'
      OBVIOUS
    <2>2. /\ n \in Nat /\ p \in Seq(Statuses) /\ q \in Seq(Statuses)
          /\ Len(p) = n /\ Len(q) = n
      BY <1>1, <1>2, <2>1 DEF PublishedAre
    <2>3. \A k \in 1..n : q[k] = p[k]
      BY <1>3, <2>1
    <2> HIDE DEF p, n
    <2>4. q = p
      BY <2>2, <2>3, SeqEqual
    <2> QED BY <2>1, <2>4 DEF p
  <1> QED BY <1>4, <1>5

LEMMA FeedPublish ==
    ASSUME SyncInv, FeedInv, FeedInv', NEW P \in SUBSET Orders, NEW s \in Statuses,
           Publishes(P, s), \A o \in P : cloudOrder[o] # "none", cloudVars' = cloudVars
    PROVE  Feed!Next
  <1>1. /\ \A o \in P : Published(o)' = Append(Published(o), s)
        /\ \A o \in Orders \ P : Published(o)' = Published(o)
    BY MorePublished DEF SyncInv, TypeOK
  <1>2. cloudEvents' = cloudEvents /\ cloudOrder' = cloudOrder
    BY DEF cloudVars
  <1>3. Feed!Publish(P, s)
    BY <1>1, <1>2 DEF Feed!Publish
  <1>4. s \in OrderStatuses \cup {"awaiting_cafe_confirmation"}
    BY DEF Statuses, Awaiting
  <1> QED BY <1>3, <1>4 DEF Feed!Next

LEMMA FeedSubmit ==
    ASSUME SyncInv, NEW o \in Orders, GuestOrders(o)
    PROVE  Feed!Next
  <1> DEFINE e == Event("submitted", 1, Awaiting)
  <1>1. /\ cloudOrder[o] = "none" /\ cloudOrder' = [cloudOrder EXCEPT ![o] = Awaiting]
        /\ cloudEvents' = [cloudEvents EXCEPT ![o] = Append(cloudEvents[o], e)]
        /\ outbox' = outbox
    BY DEF GuestOrders, CreateCloudOrder, Awaiting, queueVars
  <1>2. /\ cloudEvents \in [Orders -> Seq(EventType)] /\ cloudEvents[o] = <<>>
        /\ cloudOrder \in [Orders -> SAFE_CLOUD_STATUSES \cup {"none"}]
    BY <1>1, CloudLogs DEF SyncInv, TypeOK
  <1>3. e \in EventType
    BY DEF Event, EventType, Statuses, Awaiting
  <1> HIDE DEF e
  <1>4. Append(cloudEvents[o], e) # <<>> /\ Len(Append(cloudEvents[o], e)) - 1 = 0
    <2>1. cloudEvents[o] \in Seq(EventType) /\ Len(cloudEvents[o]) = 0
      BY <1>1, CloudLogs
    <2> QED BY <1>3, <2>1, AppendProperties
  <1>5. \A x \in Orders :
           (IF cloudEvents'[x] = <<>> THEN 0 ELSE Len(cloudEvents'[x]) - 1)
             = (IF cloudEvents[x] = <<>> THEN 0 ELSE Len(cloudEvents[x]) - 1)
    BY <1>1, <1>2, <1>4
  <1>6. \A x \in Orders : Published(x)' = Published(x)
    BY <1>1 DEF Published, UploadsOf, Before
  <1>7. Feed!Submit(o)
    BY <1>1, <1>5, <1>6 DEF Feed!Submit, Awaiting
  <1> QED BY <1>7 DEF Feed!Next

\* The cloud takes the upload of the next rank, which holds the next status.
LEMMA FeedTake ==
    ASSUME SyncInv, FeedInv, NEW i \in wire, HandleRequest(i)
    PROVE  Feed!Next \/ UNCHANGED Feed!vars
  <1>1. i \in DOMAIN outbox
    BY DEF SyncInv, TypeOK
  <1>2. PICK o \in Orders : o = outbox[i].order
    BY <1>1, OutboxDomain DEF SyncInv, TypeOK
  <1>3. PICK e \in EventType : e = outbox[i].event
    BY <1>1, OutboxDomain DEF SyncInv, TypeOK
  <1>4. ApplyLocalSyncEvent(o, e) /\ outbox' = outbox
    BY <1>2, <1>3 DEF HandleRequest, queueVars
  <1>5. \A x \in Orders : Published(x)' = Published(x)
    BY <1>4 DEF Published, UploadsOf, Before
  <1>6. CASE Answer(o, e) # "applied"
    <2>1. cloudEvents' = cloudEvents /\ cloudOrder' = cloudOrder
      BY <1>4, <1>6 DEF ApplyLocalSyncEvent, cloudVars
    <2> QED BY <1>5, <2>1, FeedVars
  <1>7. CASE Answer(o, e) = "applied"
    <2> DEFINE old == cloudEvents[o]
               n == Len(cloudEvents[o])
               log == Append(cloudEvents[o], e)
    <2>1. /\ i \in UploadsOf(o) /\ e.v = n + 1 /\ n > 0
      BY <1>1, <1>2, <1>3, <1>7, AnswerMeans
    <2>2. /\ cloudEvents' = [cloudEvents EXCEPT ![o] = log]
          /\ cloudOrder' = IF e.kind = "status_changed"
                           THEN [cloudOrder EXCEPT ![o] = e.status] ELSE cloudOrder
      BY <1>4, <1>7 DEF ApplyLocalSyncEvent
    <2>3. /\ old \in Seq(EventType) /\ n \in Nat /\ old # <<>>
          /\ cloudOrder[o] # "none"
      BY <2>1, CloudLogs
    <2>4. log \in Seq(EventType) /\ log # <<>> /\ Len(log) = n + 1
      BY <2>3, AppendProperties
    <2>5. /\ cloudEvents \in [Orders -> Seq(EventType)]
          /\ cloudOrder \in [Orders -> SAFE_CLOUD_STATUSES \cup {"none"}]
      BY DEF SyncInv, TypeOK
    <2>6. /\ Before(i) + 1 = n /\ n \in 1..Len(Published(o))
          /\ Published(o)[n] = e.status /\ Len(Published(o)) \in Nat
      <3>1. e.v = 2 + Before(i)
        BY <1>1, <1>3 DEF SyncInv, UploadInv, PublishedWithoutGap
      <3>2. /\ Len(Published(o)) \in Nat /\ Before(i) \in 0..(Len(Published(o)) - 1)
            /\ Published(o)[Before(i) + 1] = e.status
        BY <1>3, <2>1 DEF FeedInv, PublishedAre
      <3> QED BY <2>1, <2>3, <3>1, <3>2
    <2>7. cloudOrder' = [cloudOrder EXCEPT ![o] = e.status]
      <3>1. CASE e.kind = "status_changed"
        BY <2>2, <3>1
      <3>2. CASE e.kind # "status_changed"
        <4>1. e.kind # "submitted" /\ (e.kind = "imported" => e.v = 2 /\ e.status = Awaiting)
          BY <1>1, <1>3 DEF SyncInv, UploadInv
        <4>2. e.v = 2 /\ e.status = Awaiting
          BY <3>2, <4>1 DEF EventType
        <4>3. n = 1
          <5>1. n + 1 = 2 /\ n \in Nat
            BY <2>1, <2>3, <4>2
          <5> HIDE DEF n
          <5> QED BY <5>1
        <4>4. cloudOrder[o] = Awaiting
          BY <4>3 DEF SyncInv, LogInv, LogOf
        <4> QED BY <2>2, <2>5, <3>2, <4>2, <4>4
      <3> QED BY <3>1, <3>2
    <2> DEFINE Seen(f) == [x \in Orders |-> IF f[x] = <<>> THEN 0 ELSE Len(f[x]) - 1]
    <2> HIDE DEF old, log, n
    <2>8. /\ Seen(cloudEvents)[o] = n - 1
          /\ Seen(cloudEvents') = [Seen(cloudEvents) EXCEPT ![o] = @ + 1]
      <3>1. Seen(cloudEvents)[o] = n - 1
        BY <2>3 DEF old, n
      <3>2. cloudEvents'[o] = log /\ \A x \in Orders \ {o} : cloudEvents'[x] = cloudEvents[x]
        BY <2>2, <2>5
      <3>3. Seen(cloudEvents')[o] = n
        BY <2>3, <2>4, <3>2
      <3>4. \A x \in Orders \ {o} : Seen(cloudEvents')[x] = Seen(cloudEvents)[x]
        BY <3>2
      <3>5. n = (n - 1) + 1
        BY <2>3
      <3> QED BY <3>1, <3>3, <3>4, <3>5
    <2>9. Feed!Take(o)
      <3>1. Seen(cloudEvents)[o] < Len(Published(o))
        BY <2>3, <2>6, <2>8
      <3>2. Published(o)[Seen(cloudEvents)[o] + 1] = e.status
        <4>1. Seen(cloudEvents)[o] + 1 = n
          BY <2>3, <2>8
        <4> QED BY <2>6, <4>1
      <3>3. [x \in Orders |-> Published(x)'] = [x \in Orders |-> Published(x)]
        BY <1>5
      <3> QED BY <2>7, <2>8, <3>1, <3>2, <3>3 DEF Feed!Take
    <2> QED BY <2>9 DEF Feed!Next
  <1> QED BY <1>6, <1>7

LEMMA FeedInit == Init => Feed!Init
  <1> SUFFICES ASSUME Init PROVE Feed!Init
    OBVIOUS
  <1>1. cloudOrder = [o \in Orders |-> "none"] /\ cloudEvents = [o \in Orders |-> <<>>]
    BY DEF Init, CloudInit
  <1>2. ASSUME NEW o \in Orders PROVE Published(o) = <<>>
    <2>1. PublishedAre(o) /\ UploadsOf(o) = {}
      BY InitKeeps, FeedMeans DEF FeedInv, UploadsOf, Init
    <2>2. Len(Published(o)) = 0 /\ Published(o) \in Seq(Statuses)
      BY <2>1, FS_EmptySet DEF PublishedAre
    <2> QED BY <2>2, EmptySeq
  <1> QED BY <1>1, <1>2 DEF Feed!Init

\* A step in which the outbox keeps its uploads and the cloud its logs.
LEMMA FeedStutters ==
    ASSUME SyncInv, FeedInv, FeedInv', UploadsStay, DOMAIN outbox' = DOMAIN outbox,
           cloudEvents' = cloudEvents, cloudOrder' = cloudOrder
    PROVE  UNCHANGED Feed!vars
  BY SamePublished, FeedVars DEF SyncInv, TypeOK

LEMMA RowsStutter ==
    ASSUME SyncInv, NEW i \in DOMAIN outbox, NEW row,
           outbox' = [outbox EXCEPT ![i].row = row]
    PROVE  UploadsStay /\ DOMAIN outbox' = DOMAIN outbox
  <1>1. \A j \in DOMAIN outbox : outbox[j] \in UploadType
    BY OutboxDomain DEF SyncInv, TypeOK
  <1> QED BY <1>1 DEF UploadsStay, UploadType

LEMMA FeedStep ==
    SyncInv /\ FeedInv /\ FeedInv' /\ [Next]_vars => [Feed!Next]_(Feed!vars)
  <1> SUFFICES ASSUME SyncInv, FeedInv, FeedInv', [Next]_vars
               PROVE  Feed!Next \/ UNCHANGED Feed!vars
    OBVIOUS
  <1>1. ASSUME outbox' = outbox, cloudVars' = cloudVars
        PROVE  UNCHANGED Feed!vars
    <2>1. UploadsStay /\ DOMAIN outbox' = DOMAIN outbox
      BY <1>1 DEF UploadsStay
    <2> QED BY <1>1, <2>1, FeedStutters DEF cloudVars
  <1>2. ASSUME NEW i \in DOMAIN outbox, NEW row,
               outbox' = [outbox EXCEPT ![i].row = row], cloudVars' = cloudVars
        PROVE  UNCHANGED Feed!vars
    BY <1>2, RowsStutter, FeedStutters DEF cloudVars
  <1>3. \A o \in Orders : order[o] # NoOrder => cloudOrder[o] # "none"
    <2> SUFFICES ASSUME NEW o \in Orders, order[o] # NoOrder PROVE cloudOrder[o] # "none"
      OBVIOUS
    <2>1. PICK j \in applied : commands[j].what = o
      BY DEF SyncInv, ImportInv
    <2>2. j \in DOMAIN commands
      BY DEF SyncInv, TypeOK
    <2> QED BY <2>1, <2>2 DEF SyncInv, CommandInv
  <1>4. CASE Guest
    <2>1. CASE \E o \in Orders : GuestOrders(o)
      BY <2>1, FeedSubmit
    <2>2. CASE \E b \in Bills : GuestAsksForBill(b)
      <3>1. /\ UploadsStay /\ DOMAIN outbox' = DOMAIN outbox
            /\ cloudEvents' = cloudEvents /\ cloudOrder' = cloudOrder
        BY <2>2 DEF GuestAsksForBill, QueueCloudBillRequest, queueVars, UploadsStay
      <3> QED BY <3>1, FeedStutters
    <2> QED BY <1>4, <2>1, <2>2 DEF Guest
  <1>5. CASE Staff
    <2>1. ASSUME NEW o \in Orders, NEW t, TransitionOrder(o, t) PROVE Feed!Next
      <3>1. /\ Publishes({o}, t) /\ t \in Statuses /\ order[o] # NoOrder
            /\ cloudVars' = cloudVars /\ {o} \in SUBSET Orders
        BY <2>1, TransitionKeeps DEF Statuses
      <3>2. \A x \in {o} : cloudOrder[x] # "none"
        BY <1>3, <3>1
      <3> QED BY <3>1, <3>2, FeedPublish
    <2>2. ASSUME NEW s \in DOMAIN sessions, RequestSessionBill(s) PROVE Feed!Next
      <3>1. cloudVars' = cloudVars
        BY <2>2, SessionBillKeeps
      <3>2. PICK P \in SUBSET Orders : /\ Publishes(P, "bill_requested")
                                       /\ \A o \in P : order[o] # NoOrder
        BY <2>2, SessionBillKeeps
      <3>3. PICK st \in Statuses : st = "bill_requested"
        BY DEF Statuses, OrderStatuses, VALID_TRANSITIONS
      <3>4. Publishes(P, st) /\ \A o \in P : cloudOrder[o] # "none"
        BY <1>3, <3>2, <3>3
      <3> QED BY <3>1, <3>4, FeedPublish
    <2>3. ASSUME NEW s, NEW paid, BillSession(s, paid) \/ CloseSession(s)
          PROVE  UNCHANGED Feed!vars
      <3>1. outbox' = outbox /\ cloudVars' = cloudVars
        BY <2>3 DEF BillSession, CloseSession, queueVars
      <3> QED BY <1>1, <3>1
    <2> QED BY <1>5, <2>1, <2>2, <2>3 DEF Staff
  <1>6. CASE WorkerStep
    <2>1. ASSUME NEW fit \in BOOLEAN, NEW up \in BOOLEAN, ProcessInboxRow(fit, up)
          PROVE  Feed!Next \/ UNCHANGED Feed!vars
      <3>1. cloudVars' = cloudVars
        BY <2>1, ProcessKeeps
      <3>2. CASE outbox' = outbox
        BY <1>1, <3>1, <3>2
      <3>3. CASE \E c \in Orders : cloudOrder[c] # "none" /\ Publishes({c}, Awaiting)
        <4>1. PICK c \in Orders : cloudOrder[c] # "none" /\ Publishes({c}, Awaiting)
          BY <3>3
        <4>2. PICK st \in Statuses : st = Awaiting
          BY DEF Statuses
        <4>3. Publishes({c}, st) /\ {c} \in SUBSET Orders
              /\ \A o \in {c} : cloudOrder[o] # "none"
          BY <4>1, <4>2
        <4> QED BY <3>1, <4>3, FeedPublish
      <3> QED BY <2>1, <3>2, <3>3, ProcessKeeps
    <2>2. ASSUME \/ \E ready, pulled \in BOOLEAN : StartCycle(ready, pulled)
                 \/ StartOutbox \/ Send \/ EndCycle
          PROVE  UNCHANGED Feed!vars
      <3>1. outbox' = outbox /\ cloudVars' = cloudVars
        BY <2>2 DEF StartCycle, StartOutbox, Send, EndCycle, queueVars
      <3> QED BY <1>1, <3>1
    <2>3. ASSUME RecordAnswer \/ TimeOut PROVE UNCHANGED Feed!vars
      <3>1. PICK i \in worker.batch : i = First(worker.batch)
        BY <2>3, WorkerFields DEF RecordAnswer, TimeOut, SyncInv, WorkerInv
      <3>2. i \in DOMAIN outbox
        BY <2>3 DEF RecordAnswer, TimeOut, SyncInv, WorkerInv
      <3>3. /\ cloudVars' = cloudVars
            /\ \E row : outbox' = [outbox EXCEPT ![i].row = row]
        BY <2>3, <3>1 DEF RecordAnswer, TimeOut, Record
      <3> QED BY <1>2, <3>2, <3>3
    <2> QED BY <1>6, <2>1, <2>2, <2>3 DEF WorkerStep
  <1>7. ASSUME Crash \/ (\E i \in DOMAIN inbox : InboxBackoffEnds(i) \/ RetryInbound(i))
        PROVE  UNCHANGED Feed!vars
    <2>1. outbox' = outbox /\ cloudVars' = cloudVars
      BY <1>7 DEF Crash, InboxBackoffEnds, RetryInbound, queueVars
    <2> QED BY <1>1, <2>1
  <1>8. ASSUME NEW i \in DOMAIN outbox, OutboxBackoffEnds(i) \/ RetryOutbound(i)
        PROVE  UNCHANGED Feed!vars
    <2>1. cloudVars' = cloudVars
      BY <1>8 DEF OutboxBackoffEnds, RetryOutbound
    <2>2. \E row : outbox' = [outbox EXCEPT ![i].row = row]
      <3>1. CASE RetryOutbound(i)
        BY <3>1 DEF RetryOutbound
      <3>2. CASE OutboxBackoffEnds(i)
        <4>1. outbox[i] \in UploadType
          BY OutboxDomain DEF SyncInv, TypeOK
        <4>2. outbox' = [outbox EXCEPT ![i].row = [outbox[i].row EXCEPT !.state = "retry"]]
          BY <3>2, <4>1 DEF OutboxBackoffEnds, UploadType
        <4> QED BY <4>2
      <3> QED BY <1>8, <3>1, <3>2
    <2> QED BY <1>2, <2>1, <2>2
  <1>9. CASE Link
    <2>1. ASSUME NEW i \in wire, LoseRequest(i) PROVE UNCHANGED Feed!vars
      <3>1. outbox' = outbox /\ cloudVars' = cloudVars
        BY <2>1 DEF LoseRequest, queueVars
      <3> QED BY <1>1, <3>1
    <2> QED BY <1>9, <2>1, FeedTake DEF Link
  <1>10. CASE UNCHANGED vars
    BY <1>1, <1>10 DEF vars, queueVars
  <1> QED BY <1>4, <1>5, <1>6, <1>7, <1>8, <1>9, <1>10 DEF Next, Worker, Operator

\* What a guest sees of an order is a status the Cafe published, in their
\* order and none skipped (apply_local_sync_event on what the hub uploads).
THEOREM GuestsFollowTheCafe == Spec => FeedSpec
  <1>1. SyncInv => FeedInv
    BY FeedMeans
  <1>2. SyncInv /\ FeedInv /\ FeedInv' /\ [Next]_vars => [Feed!Next]_(Feed!vars)
    BY FeedStep
  <1>3. Init => Feed!Init
    BY FeedInit
  <1> QED BY <1>1, <1>2, <1>3, SyncInvariant, PTL DEF Spec, FeedSpec, Feed!Spec
=============================================================================
