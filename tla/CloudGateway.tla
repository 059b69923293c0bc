---------------------------- MODULE CloudGateway ----------------------------
(***************************************************************************)
(* The cloud side of the hybrid deployment: what the gateway keeps of the  *)
(* Cafe orders that guests send while the local hub may be unreachable     *)
(* (app/services/hc3_cloud_orders.py, hc3_cloud_bill_requests.py and       *)
(* app/api/routes/hc3_cloud.py).                                           *)
(*                                                                         *)
(* The gateway never decides anything about an order: it queues a command  *)
(* for the hub, and mirrors the statuses the hub publishes, one event per  *)
(* aggregate version.  An idempotency key names its order (or its bill     *)
(* request), so a guest's repeated submission is the same element here     *)
(* and changes nothing.                                                    *)
(***************************************************************************)
EXTENDS Integers, Sequences, FiniteSets

CONSTANTS Orders,       \* the orders guests may submit, one per key
          Bills,        \* the bill requests guests may submit, one per key
          BillOf        \* the order a bill request is about

\* An order and a bill request are aggregates of different types.
ASSUME BillAssumption == BillOf \in [Bills -> Orders] /\ Orders \cap Bills = {}

VARIABLES cloudOrder,   \* cloud_orders.status, "none" before submission
          cloudEvents,  \* cloud_order_events of each order, as recorded
          commands      \* sync_commands in recorded_at order

cloudVars == <<cloudOrder, cloudEvents, commands>>

\* SAFE_CLOUD_STATUSES: the statuses the gateway agrees to show.
SAFE_CLOUD_STATUSES ==
    {"awaiting_cafe_confirmation", "accepted", "preparing", "ready",
     "served", "bill_requested", "billed", "rejected", "closed"}

Event(kind, v, status) == [kind |-> kind, v |-> v, status |-> status]

CloudInit ==
    /\ cloudOrder = [o \in Orders |-> "none"]
    /\ cloudEvents = [o \in Orders |-> <<>>]
    /\ commands = <<>>

\* An order arrives: the row, its first event and the hub's command.
CreateCloudOrder(o) ==
    /\ cloudOrder[o] = "none"
    /\ cloudOrder' = [cloudOrder EXCEPT ![o] = "awaiting_cafe_confirmation"]
    /\ cloudEvents' = [cloudEvents EXCEPT ![o] =
          Append(@, Event("submitted", 1, "awaiting_cafe_confirmation"))]
    /\ commands' = Append(commands, [what |-> o, status |-> "pending"])

\* A guest asks for the bill: only a command, on an aggregate of its own.
QueueCloudBillRequest(b) ==
    /\ cloudOrder[BillOf[b]] \notin {"none", "rejected", "closed", "billed"}
    /\ \A i \in DOMAIN commands : commands[i].what # b
    /\ commands' = Append(commands, [what |-> b, status |-> "pending"])
    /\ UNCHANGED <<cloudOrder, cloudEvents>>

\* The n smallest elements of a set of positions.
FirstOf(S, n) == {i \in S : Cardinality({j \in S : j <= i}) <= n}

\* pull_commands: the oldest `limit' commands nobody has acknowledged.
PulledCommands(limit) ==
    FirstOf({i \in DOMAIN commands : commands[i].status = "pending"}, limit)

\* The highest version recorded for an order.
PriorVersion(o) ==
    IF cloudEvents[o] = <<>> THEN 0
    ELSE cloudEvents[o][Len(cloudEvents[o])].v

\* Mutant: an event ahead of the next version is taken for an old one.
AnswerSwallowingGaps(o, e) ==
    CASE cloudOrder[o] = "none"         -> "rejected"
      [] e.v # PriorVersion(o) + 1      -> "duplicate"
      [] e.kind = "status_changed" /\ e.status \notin SAFE_CLOUD_STATUSES
                                        -> "rejected"
      [] OTHER                          -> "applied"

\* Mutant: a version that was recorded before is applied once more.
AnswerTwice(o, e) ==
    CASE cloudOrder[o] = "none"         -> "rejected"
      [] e.v > PriorVersion(o) + 1      -> "rejected"
      [] e.kind = "status_changed" /\ e.status \notin SAFE_CLOUD_STATUSES
                                        -> "rejected"
      [] OTHER                          -> "applied"

\* apply_local_sync_event's answer to event e of order o.
Answer(o, e) ==
    CASE cloudOrder[o] = "none"         -> "rejected"   \* 404
      [] e.v > PriorVersion(o) + 1      -> "rejected"   \* 409
      [] e.v <= PriorVersion(o)         -> "duplicate"
      [] e.kind = "status_changed" /\ e.status \notin SAFE_CLOUD_STATUSES
                                        -> "rejected"   \* 400
      [] OTHER                          -> "applied"

\* ... and its effect: the event is recorded, the status is shown, and the
\* command an import answers is acknowledged.
ApplyLocalSyncEvent(o, e) ==
    IF Answer(o, e) = "applied"
    THEN /\ cloudEvents' = [cloudEvents EXCEPT ![o] = Append(@, e)]
         /\ cloudOrder' = IF e.kind = "status_changed"
                          THEN [cloudOrder EXCEPT ![o] = e.status]
                          ELSE cloudOrder
         /\ commands' = [i \in DOMAIN commands |->
               IF e.kind = "imported" /\ commands[i].what = o
               THEN [commands[i] EXCEPT !.status = "acknowledged"]
               ELSE commands[i]]
    ELSE UNCHANGED cloudVars
=============================================================================
