------------------------------ MODULE HubSync ------------------------------
(***************************************************************************)
(* The local hub's durable synchronisation with the cloud gateway: the     *)
(* inbox and outbox tables of app/sync/service.py, the worker's cycle of   *)
(* app/sync/worker.py, the handlers that import guest orders and bill      *)
(* requests, and the staff's work on the imported orders, which publishes  *)
(* every status through the outbox in the same database transaction.       *)
(*                                                                         *)
(* The link is lossy in both directions: a request may be lost, its answer *)
(* may be lost, and a request whose sender has already timed out may still *)
(* be handled later.  The worker may crash between any two of its          *)
(* transactions and then starts a new cycle.  Time is abstract: a row that *)
(* waits for its next_attempt_at becomes due at some moment.               *)
(***************************************************************************)
EXTENDS CloudGateway

CONSTANTS BatchLimit,   \* settings.sync_batch_size
          MaxAttempts,  \* settings.sync_max_attempts
          Targets,      \* bound: the statuses the staff choose from
          MaxVersion,   \* bound: the highest version the staff move an order to
          Mishaps       \* bound: what may go wrong in this instance

ASSUME BoundsAssumption == /\ BatchLimit \in Nat \ {0}
                           /\ MaxAttempts \in Nat \ {0}
                           /\ MaxVersion \in Nat \ {0}
                           /\ Mishaps \subseteq {"misfit", "exception", "timeout", "crash"}

VARIABLES inbox,        \* sync_inbox: the staged commands, in id order
          outbox,       \* sync_outbox, in id order
          applied,      \* sync_aggregate_versions: the commands that took effect
          order,        \* the hub's cafe_orders and their cloud links
          sessions,     \* the table's table_sessions, in id order
          worker,       \* where the worker is in its cycle
          wire          \* outbox rows whose request is on its way

floorVars == <<order, sessions>>
queueVars == <<inbox, outbox, applied>>
vars == <<cloudVars, queueVars, floorVars, worker, wire>>

NoOrder == [status |-> "none", version |-> 0, session |-> 0]
Idle == [at |-> "idle", ready |-> FALSE, batch |-> {}, reply |-> "none"]

Init ==
    /\ CloudInit
    /\ inbox = <<>>
    /\ outbox = <<>>
    /\ applied = {}
    /\ order = [o \in Orders |-> NoOrder]
    /\ sessions = <<>>
    /\ worker = Idle
    /\ wire = {}

-----------------------------------------------------------------------------
(* Queue rows: of both tables, with the row's dead letter ("none" when      *)
(* there is none).  A row waiting for its backoff is "waiting"; "retry"     *)
(* once it is due.                                                          *)

NewRow == [state |-> "pending", attempts |-> 0, letter |-> "none"]
Due == {"pending", "retry"}
Queued == Due \cup {"waiting"}

\* Mutant: the dead letter of an earlier failure stays as it is.
ScheduleFailureKeepingTheLetter(row, retryable) ==
    LET n == IF row.attempts < MaxAttempts THEN row.attempts + 1 ELSE MaxAttempts
    IN  IF retryable /\ n < MaxAttempts
        THEN [row EXCEPT !.attempts = n, !.state = "waiting"]
        ELSE [row EXCEPT !.attempts = n, !.state = "dead_letter",
                         !.letter = IF @ = "none" THEN "open" ELSE @]

\* _schedule_inbox_failure and _schedule_outbox_failure: only a retryable
\* failure of a row with attempts left is tried again by itself.  (Attempts
\* count on after a manual retry; they matter up to MaxAttempts.)
ScheduleFailure(row, retryable) ==
    LET n == IF row.attempts < MaxAttempts THEN row.attempts + 1 ELSE MaxAttempts
    IN  IF retryable /\ n < MaxAttempts
        THEN [row EXCEPT !.attempts = n, !.state = "waiting"]
        ELSE [row EXCEPT !.attempts = n, !.state = "dead_letter", !.letter = "open"]

\* enqueue_outbox_event, in the caller's transaction.
Enqueue(rows) == outbox' = outbox \o rows
Upload(o, v, kind, status) ==
    [order |-> o, event |-> Event(kind, v, status), row |-> NewRow]

-----------------------------------------------------------------------------
(* The handlers of inbound commands.                                        *)

\* _active_session: the table's session that is not over.
ActiveSessions == {s \in DOMAIN sessions : sessions[s] # "closed"}
SessionOf(b) == sessions[order[BillOf[b]].session]

\* What the handler of command c makes of it.  `fit' is FALSE when the hub's
\* QR codes, prices or menu no longer match the snapshot; `up' is FALSE when
\* the handler meets an unexpected exception.
Verdict(c, fit, up) ==
    CASE ~up -> "retryable"
      [] c \in Orders ->
            IF order[c] # NoOrder THEN "already"
            ELSE IF ~fit \/ \E s \in ActiveSessions : sessions[s] # "open"
            THEN "permanent" ELSE "import"
      [] c \in Bills ->
            IF order[BillOf[c]] = NoOrder THEN "retryable"
            ELSE IF SessionOf(c) = "bill_requested" THEN "already"
            ELSE IF SessionOf(c) # "open" THEN "permanent" ELSE "bill"

\* import_cloud_cafe_order: a session if the table has none, the order, its
\* link, and the event that acknowledges the command.
ImportOrder(o) ==
    /\ sessions' = IF ActiveSessions = {} THEN Append(sessions, "open") ELSE sessions
    /\ order' = [order EXCEPT ![o] =
          [status |-> "placed", version |-> 1, session |-> Len(sessions')]]
    /\ Enqueue(<<Upload(o, 2, "imported", "awaiting_cafe_confirmation")>>)

\* apply_cloud_bill_request moves the order's session, never the order.
ApplyBillRequest(b) ==
    /\ sessions' = [sessions EXCEPT ![order[BillOf[b]].session] = "bill_requested"]
    /\ UNCHANGED <<order, outbox>>

SetInbox(i, row) == inbox' = [inbox EXCEPT ![i] = row]
Processed(i) == [inbox[i] EXCEPT !.state = "processed"]

\* _apply_inbox_record, one transaction: the handler's effects and the
\* receipt commit together.  A command whose version was applied before is
\* only marked; every command is version 1 of an aggregate of its own, so the
\* gap and the conflict branches cannot be taken.
ApplyInboxRecord(i, fit, up) ==
    LET c == commands[i].what
        verdict == IF i \in applied THEN "already" ELSE Verdict(c, fit, up)
    IN  CASE verdict = "import" ->
               ImportOrder(c) /\ SetInbox(i, Processed(i)) /\ applied' = applied \cup {i}
          [] verdict = "bill" ->
               ApplyBillRequest(c) /\ SetInbox(i, Processed(i)) /\ applied' = applied \cup {i}
          [] verdict = "already" ->
               /\ SetInbox(i, Processed(i))
               /\ applied' = applied \cup {i}
               /\ UNCHANGED <<outbox, floorVars>>
          [] OTHER ->
               /\ SetInbox(i, ScheduleFailure(inbox[i], verdict = "retryable"))
               /\ UNCHANGED <<outbox, applied, floorVars>>

-----------------------------------------------------------------------------
(* The worker's cycle, run_once.                                            *)

First(S) == CHOOSE i \in S : \A j \in S : i <= j

\* Mutant: only rows that never failed are picked up.
DueInboxNew(rows) == FirstOf({i \in DOMAIN rows : rows[i].state = "pending"}, BatchLimit)

DueInbox(rows) == FirstOf({i \in DOMAIN rows : rows[i].state \in Due}, BatchLimit)
DueOutbox == FirstOf({i \in DOMAIN outbox : outbox[i].row.state \in Due}, BatchLimit)

\* Mutant: a command is acknowledged as soon as it is pulled.
StartCycleAcknowledging(ready, pulled) ==
    LET got == IF ready /\ pulled THEN PulledCommands(BatchLimit) ELSE {}
    IN  /\ worker.at = "idle"
        /\ inbox' = [i \in DOMAIN inbox \cup got |->
                        IF i \in DOMAIN inbox THEN inbox[i] ELSE NewRow]
        /\ commands' = [i \in DOMAIN commands |->
              IF i \in got THEN [commands[i] EXCEPT !.status = "acknowledged"]
                           ELSE commands[i]]
        /\ worker' = [Idle EXCEPT !.at = "inbox", !.ready = ready,
                                  !.batch = DueInbox(inbox')]
        /\ UNCHANGED <<cloudOrder, cloudEvents, outbox, applied, floorVars, wire>>

\* The heartbeat (and the lease, see Continuity) succeeded or not, and so did
\* the pull; the pulled commands are staged, a known one is left as it is.
StartCycle(ready, pulled) ==
    LET got == IF ready /\ pulled THEN PulledCommands(BatchLimit) ELSE {}
    IN  /\ worker.at = "idle"
        /\ inbox' = [i \in DOMAIN inbox \cup got |->
                        IF i \in DOMAIN inbox THEN inbox[i] ELSE NewRow]
        /\ worker' = [Idle EXCEPT !.at = "inbox", !.ready = ready,
                                  !.batch = DueInbox(inbox')]
        /\ UNCHANGED <<cloudVars, outbox, applied, floorVars, wire>>

\* process_inbox_batch, one row of the batch.
ProcessInboxRow(fit, up) ==
    /\ worker.at = "inbox"
    /\ worker.batch # {}
    /\ ~fit => "misfit" \in Mishaps
    /\ ~up => "exception" \in Mishaps
    /\ LET i == First(worker.batch)
       IN  /\ ApplyInboxRecord(i, fit, up)
           /\ worker' = [worker EXCEPT !.batch = @ \ {i}]
    /\ UNCHANGED <<cloudVars, wire>>

\* The outbox is read only after the inbox batch and only with the cloud in
\* reach; otherwise the cycle ends.
StartOutbox ==
    /\ worker.at = "inbox"
    /\ worker.batch = {}
    /\ worker' = IF worker.ready
                 THEN [worker EXCEPT !.at = "outbox", !.batch = DueOutbox]
                 ELSE Idle
    /\ UNCHANGED <<cloudVars, queueVars, floorVars, wire>>

\* process_outbox_batch locks the next row and sends it.
Send ==
    /\ worker.at = "outbox"
    /\ worker.batch # {}
    /\ LET i == First(worker.batch)
       IN  IF outbox[i].row.state = "sent"
           THEN worker' = [worker EXCEPT !.batch = @ \ {i}] /\ wire' = wire
           ELSE worker' = [worker EXCEPT !.at = "sending"] /\ wire' = wire \cup {i}
    /\ UNCHANGED <<cloudVars, queueVars, floorVars>>

Sending(i) == worker.at = "sending" /\ i = First(worker.batch)

\* The transaction of the row being sent commits.
Record(row) ==
    LET i == First(worker.batch)
    IN  /\ outbox' = [outbox EXCEPT ![i].row = row]
        /\ worker' = [worker EXCEPT !.at = "outbox", !.reply = "none", !.batch = @ \ {i}]
        /\ UNCHANGED <<cloudVars, inbox, applied, floorVars, wire>>

\* The answer is back: a 2xx marks the row sent, a 4xx is permanent.
RecordAnswer ==
    /\ worker.at = "sending"
    /\ worker.reply # "none"
    /\ LET row == outbox[First(worker.batch)].row
       IN  Record(IF worker.reply = "rejected" THEN ScheduleFailure(row, FALSE)
                  ELSE [row EXCEPT !.state = "sent"])

\* No answer in time, a lost connection, a 5xx: worth a retry.
TimeOut ==
    /\ "timeout" \in Mishaps
    /\ worker.at = "sending"
    /\ Record(ScheduleFailure(outbox[First(worker.batch)].row, TRUE))

\* The rest of the cycle only reports, see Continuity.
EndCycle ==
    /\ worker.at = "outbox"
    /\ worker.batch = {}
    /\ worker' = Idle
    /\ UNCHANGED <<cloudVars, queueVars, floorVars, wire>>

\* The process dies or an exception ends the cycle; open transactions roll
\* back, requests already sent travel on.
Crash ==
    /\ "crash" \in Mishaps
    /\ worker.at # "idle"
    /\ worker' = Idle
    /\ UNCHANGED <<cloudVars, queueVars, floorVars, wire>>

\* next_attempt_at of a waiting row passes.
InboxBackoffEnds(i) ==
    /\ i \in DOMAIN inbox
    /\ inbox[i].state = "waiting"
    /\ SetInbox(i, [inbox[i] EXCEPT !.state = "retry"])
    /\ UNCHANGED <<cloudVars, outbox, applied, floorVars, worker, wire>>

OutboxBackoffEnds(i) ==
    /\ i \in DOMAIN outbox
    /\ outbox[i].row.state = "waiting"
    /\ outbox' = [outbox EXCEPT ![i].row.state = "retry"]
    /\ UNCHANGED <<cloudVars, inbox, applied, floorVars, worker, wire>>

-----------------------------------------------------------------------------
(* The link and the cloud.                                                  *)

LoseRequest(i) ==
    /\ "timeout" \in Mishaps
    /\ wire' = wire \ {i}
    /\ UNCHANGED <<cloudVars, queueVars, floorVars, worker>>

\* The gateway handles a request, which may be older than the one the worker
\* waits for; the worker gets an answer only to the latter.
HandleRequest(i) ==
    /\ i \in wire
    /\ wire' = wire \ {i}
    /\ ApplyLocalSyncEvent(outbox[i].order, outbox[i].event)
    /\ worker' = IF Sending(i)
                 THEN [worker EXCEPT !.reply = Answer(outbox[i].order, outbox[i].event)]
                 ELSE worker
    /\ UNCHANGED <<queueVars, floorVars>>

GuestOrders(o) ==
    /\ CreateCloudOrder(o)
    /\ UNCHANGED <<queueVars, floorVars, worker, wire>>

GuestAsksForBill(b) ==
    /\ QueueCloudBillRequest(b)
    /\ UNCHANGED <<queueVars, floorVars, worker, wire>>

-----------------------------------------------------------------------------
(* The staff, whose handlers lock the rows they change.                     *)

VALID_TRANSITIONS ==
    [placed |-> {"accepted", "rejected", "cancelled"},
     accepted |-> {"preparing", "cancelled"},
     preparing |-> {"ready", "cancelled"},
     ready |-> {"served"},
     served |-> {"bill_requested"},
     bill_requested |-> {}, billed |-> {"closed"}, closed |-> {},
     rejected |-> {}, cancelled |-> {}]

\* Mutant: the import's event is forgotten when the version is chosen.
SnapshotAfterImport(o) ==
    LET v == order'[o].version
    IN  Upload(o, IF v > 3 THEN v ELSE 3, "status_changed", order'[o].status)

\* enqueue_cafe_order_status_snapshot, after the order's version was raised.
Snapshot(o) ==
    LET v == order'[o].version + 1
    IN  Upload(o, IF v > 3 THEN v ELSE 3, "status_changed", order'[o].status)

\* transition_order: one order moves on; asked for the bill, it takes its
\* session along.  (No route moves an order to closed.)
TransitionOrder(o, target) ==
    LET s == order[o].session
    IN  /\ order[o] # NoOrder
        /\ order[o].version < MaxVersion
        /\ target \in VALID_TRANSITIONS[order[o].status] \cap (Targets \ {"closed"})
        /\ target = "bill_requested" => sessions[s] \in {"open", "bill_requested"}
        /\ sessions' = IF target = "bill_requested"
                       THEN [sessions EXCEPT ![s] = "bill_requested"] ELSE sessions
        /\ order' = [order EXCEPT ![o].status = target, ![o].version = @ + 1]
        /\ Enqueue(<<Snapshot(o)>>)
        /\ UNCHANGED <<cloudVars, inbox, applied, worker, wire>>

OrdersOf(s) == {o \in Orders : order[o].session = s}

\* The elements of a set of orders in the order they were placed.
Position(o) == CHOOSE i \in DOMAIN commands : commands[i].what = o
Placed(S) == [k \in 1..Cardinality(S) |->
                CHOOSE o \in S : Cardinality({p \in S : Position(p) < Position(o)}) = k - 1]

\* request_table_session_bill: all live orders of the session are served, and
\* move together with it.
RequestSessionBill(s) ==
    LET live == {o \in OrdersOf(s) :
                   order[o].status \notin {"rejected", "cancelled", "closed"}}
        placed == Placed(live)
    IN  /\ sessions[s] = "open"
        /\ live # {}
        /\ \A o \in live : order[o].status = "served"
        /\ sessions' = [sessions EXCEPT ![s] = "bill_requested"]
        /\ order' = [o \in Orders |->
              IF o \in live
              THEN [order[o] EXCEPT !.status = "bill_requested", !.version = @ + 1]
              ELSE order[o]]
        /\ Enqueue([k \in DOMAIN placed |-> Snapshot(placed[k])])
        /\ UNCHANGED <<cloudVars, inbox, applied, worker, wire>>

\* _mark_billed and _close_source_if_settled: billing moves the orders without
\* publishing anything; paid in full, the session is over.
BillSession(s, paid) ==
    LET billed == {o \in OrdersOf(s) :
                     order[o].status \in {"accepted", "served", "bill_requested"}}
        end == IF paid THEN "closed" ELSE "billed"
    IN  /\ sessions[s] \in {"open", "bill_requested"}
        /\ billed # {}
        /\ sessions' = [sessions EXCEPT ![s] = end]
        /\ order' = [o \in Orders |->
              IF o \in billed
              THEN [order[o] EXCEPT !.status = end, !.version = @ + (IF paid THEN 2 ELSE 1)]
              ELSE order[o]]
        /\ UNCHANGED <<cloudVars, queueVars, worker, wire>>

\* close_table_session: whatever its orders are at.
CloseSession(s) ==
    /\ sessions[s] # "closed"
    /\ sessions' = [sessions EXCEPT ![s] = "closed"]
    /\ UNCHANGED <<cloudVars, queueVars, order, worker, wire>>

-----------------------------------------------------------------------------
(* The operator.                                                            *)

\* Mutant: the letter is marked, its record stays dead.
RetriedLetterOnly(row, state) == [row EXCEPT !.letter = "retry_pending"]

\* retry_dead_letter: any dead letter, whatever became of its record; the
\* attempts stay.  A row being sent is locked.
Retried(row, state) == [row EXCEPT !.state = state, !.letter = "retry_pending"]

RetryInbound(i) ==
    /\ i \in DOMAIN inbox
    /\ inbox[i].letter # "none"
    /\ SetInbox(i, Retried(inbox[i], "pending"))
    /\ UNCHANGED <<cloudVars, outbox, applied, floorVars, worker, wire>>

RetryOutbound(i) ==
    /\ i \in DOMAIN outbox
    /\ outbox[i].row.letter # "none"
    /\ ~Sending(i)
    /\ outbox' = [outbox EXCEPT ![i].row = Retried(@, "retry")]
    /\ UNCHANGED <<cloudVars, inbox, applied, floorVars, worker, wire>>

-----------------------------------------------------------------------------

Guest == \/ \E o \in Orders : GuestOrders(o)
         \/ \E b \in Bills : GuestAsksForBill(b)

Staff == \/ \E o \in Orders, t \in Targets : TransitionOrder(o, t)
         \/ \E s \in DOMAIN sessions :
               \/ RequestSessionBill(s)
               \/ \E paid \in BOOLEAN : BillSession(s, paid)
               \/ CloseSession(s)

WorkerStep == \/ \E ready, pulled \in BOOLEAN : StartCycle(ready, pulled)
              \/ \E fit, up \in BOOLEAN : ProcessInboxRow(fit, up)
              \/ StartOutbox
              \/ Send
              \/ RecordAnswer
              \/ TimeOut
              \/ EndCycle

Worker == \/ WorkerStep
          \/ Crash
          \/ \E i \in DOMAIN inbox : InboxBackoffEnds(i)
          \/ \E i \in DOMAIN outbox : OutboxBackoffEnds(i)

Link == \E i \in wire : LoseRequest(i) \/ HandleRequest(i)

Operator == \/ \E i \in DOMAIN inbox : RetryInbound(i)
            \/ \E i \in DOMAIN outbox : RetryOutbound(i)

Next == Guest \/ Staff \/ Worker \/ Link \/ Operator

Spec == Init /\ [][Next]_vars

\* The worker's loop never ends, the link works now and then, even for a
\* given row, and every backoff ends.  (This is for instances where the worker
\* is not killed for ever: "crash" \notin Mishaps.)
Uploads == 1..(Cardinality(Orders) * MaxVersion)
Arrivals == 1..Cardinality(Orders \cup Bills)
WorkerFairness ==
    /\ WF_vars(WorkerStep)
    /\ SF_vars(StartCycle(TRUE, TRUE))
    /\ \A i \in Uploads : /\ SF_vars(HandleRequest(i) /\ Sending(i))
                          /\ SF_vars(RecordAnswer /\ Sending(i))
                          /\ WF_vars(OutboxBackoffEnds(i))
    /\ \A i \in Arrivals : WF_vars(InboxBackoffEnds(i))

\* An operator who looks after every open dead letter.
OperatorFairness ==
    /\ \A i \in Uploads : WF_vars(RetryOutbound(i) /\ outbox[i].row.letter = "open")
    /\ \A i \in Arrivals : WF_vars(RetryInbound(i) /\ inbox[i].letter = "open")

UnattendedSpec == Spec /\ WorkerFairness
AttendedSpec == UnattendedSpec /\ OperatorFairness

-----------------------------------------------------------------------------
(* Properties.                                                              *)

OrderStatuses == {"none"} \cup DOMAIN VALID_TRANSITIONS

\* No loss: whatever requests and answers were lost, doubled or late, a row
\* marked sent is in the cloud's log, at its version, as it was published.
SentIsMirrored ==
    \A i \in DOMAIN outbox :
        outbox[i].row.state = "sent" =>
            LET e == outbox[i].event
                log == cloudEvents[outbox[i].order]
            IN  e.v \in DOMAIN log /\ log[e.v] = e

\* No order is dropped on the way in: the cloud stops offering a command only
\* once the hub has the order and the receipt of its import.
AcknowledgedIsImported ==
    \A i \in DOMAIN commands :
        commands[i].status = "acknowledged" =>
            /\ commands[i].what \in Orders
            /\ order[commands[i].what] # NoOrder
            /\ i \in applied

\* Nothing is given up silently: a row that no longer moves by itself and has
\* not done its work has an open dead letter for the operator.
FailuresAreVisible ==
    /\ \A i \in DOMAIN inbox :
          \/ inbox[i].state \in Queued
          \/ inbox[i].state = "processed" /\ i \in applied
          \/ inbox[i].letter = "open"
    /\ \A i \in DOMAIN outbox :
          outbox[i].row.state \in Queued \cup {"sent"} \/ outbox[i].row.letter = "open"

\* The uploads of an order, and how many of them came before upload i.
UploadsOf(o) == {i \in DOMAIN outbox : outbox[i].order = o}
Before(i) == Cardinality({j \in UploadsOf(outbox[i].order) : j < i})

\* The cloud takes version n + 1 after version n only, so the hub must publish
\* an order's versions without a gap, though its row version also moves when
\* it is billed.
PublishedWithoutGap ==
    \A i \in DOMAIN outbox : outbox[i].event.v = 2 + Before(i)

\* The guest's view of an order follows the hub's, status by status.
Published(o) ==
    [k \in 1..Cardinality(UploadsOf(o)) |->
        outbox[CHOOSE i \in UploadsOf(o) : Before(i) = k - 1].event.status]
Feed == INSTANCE StatusFeed WITH
    Statuses <- OrderStatuses \cup {"awaiting_cafe_confirmation"},
    Awaiting <- "awaiting_cafe_confirmation",
    published <- [o \in Orders |-> Published(o)],
    seen <- [o \in Orders |-> IF cloudEvents[o] = <<>> THEN 0 ELSE Len(cloudEvents[o]) - 1],
    shown <- cloudOrder
FeedSpec == Feed!Spec

\* With somebody to retry dead letters, every status the cloud may show is
\* mirrored in the end, however often requests and answers are lost.
EverythingIsMirrored ==
    \A i \in Uploads :
        (i \in DOMAIN outbox /\ outbox[i].event.status # "cancelled")
            ~> (i \in DOMAIN outbox /\ outbox[i].row.state = "sent")

\* ... and every command takes effect or has a dead letter.
CommandsAreAnswered ==
    \A i \in Arrivals :
        (i \in DOMAIN commands)
            ~> (i \in applied \/ (i \in DOMAIN inbox /\ inbox[i].letter = "open"))

=============================================================================
