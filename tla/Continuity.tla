----------------------------- MODULE Continuity -----------------------------
(***************************************************************************)
(* The writer lease of one scope and the hubs that compete for it: the     *)
(* cloud's lease row and continuity references                             *)
(* (app/api/routes/hc4_cloud.py, the heartbeat of cloud_gateway.py), each  *)
(* hub's worker (app/sync/worker.py), the continuity state it keeps in its *)
(* database (app/services/continuity.py) and the handler of references.    *)
(*                                                                         *)
(* Time is abstract: a lease expires, a request times out and a heartbeat  *)
(* grows stale at some moment; cloud and hubs agree on the clock.  A       *)
(* request whose sender has given up may still be handled.  A heartbeat    *)
(* changes nothing in the cloud that matters here, so that it and its      *)
(* answer are one step.                                                    *)
(***************************************************************************)
EXTENDS Integers, Sequences

CONSTANTS Hubs,         \* the devices registered for the scope
          References,   \* the continuity references clients record
          Nobody,       \* the owner of a lease that was never taken
          MaxEpoch      \* bound: the last lease does not expire

ASSUME HubAssumption == Nobody \notin Hubs /\ MaxEpoch \in Nat \ {0}

VARIABLES lease,        \* the writer_leases row of the scope
          granted,      \* history: the hub each epoch was given to
          references,   \* continuity_transactions: the epoch, or 0
          checked,      \* references whose epoch check is done, not yet stored
          wire,         \* lease requests on their way
          hub,          \* the memory of each hub's worker
          state,        \* continuity_states of each hub
          staged,       \* references that wait in each hub's inbox
          receipts,     \* continuity_transaction_receipts of each hub
          letters       \* references with a dead letter, by hub

cloudVars == <<lease, granted, references, checked>>
inboxVars == <<staged, receipts, letters>>
vars == <<cloudVars, wire, hub, state, inboxVars>>

Idle(epoch) == [at |-> "idle", ready |-> FALSE, epoch |-> epoch, batch |-> {}]

Init ==
    /\ lease = [owner |-> Nobody, epoch |-> 0, active |-> FALSE]
    /\ granted = <<>>
    /\ references = [r \in References |-> 0]
    /\ checked = {}
    /\ wire = {}
    /\ hub = [h \in Hubs |-> Idle(0)]
    /\ state = [h \in Hubs |-> [epoch |-> 0, mode |-> "synchronizing", contacted |-> FALSE]]
    /\ staged = [h \in Hubs |-> {}]
    /\ receipts = [h \in Hubs |-> {}]
    /\ letters = [h \in Hubs |-> {}]

-----------------------------------------------------------------------------
(* The cloud.                                                               *)

\* Mutant: only the hub's own lease is looked at.
RefusedOwnOnly(h, epoch) ==
    lease.active /\ lease.owner = h /\ epoch \notin {0, lease.epoch}

\* acquire_writer_lease refuses: the lease is active, and another hub's or
\* not at the epoch the hub names (0: it names none).
Refused(h, epoch) ==
    /\ lease.active
    /\ lease.owner = h => epoch \notin {0, lease.epoch}

\* Mutant: a takeover of an expired lease keeps its epoch.
GrantedEpochKept == IF lease.epoch > 0 THEN lease.epoch ELSE 1

\* An active lease keeps its epoch; any other one gets the next.
GrantedEpoch == IF lease.active THEN lease.epoch ELSE lease.epoch + 1

Grant(h) ==
    /\ lease' = [owner |-> h, epoch |-> GrantedEpoch, active |-> TRUE]
    /\ granted' = IF lease.active THEN granted ELSE Append(granted, h)
    /\ UNCHANGED <<references, checked>>

\* The heartbeat looks at the hub's own lease only, active or not.
HeartbeatRefused(h) ==
    lease.owner = h /\ hub[h].epoch \notin {0, lease.epoch}

\* lease_expires_at passes: nothing renews a lease before that.
Expire ==
    /\ lease.active
    /\ lease.epoch < MaxEpoch
    /\ lease' = [lease EXCEPT !.active = FALSE]
    /\ UNCHANGED <<granted, references, checked, wire, hub, state, inboxVars>>

\* create_continuity_reference reads the lease without locking it ...
CheckReference(r) ==
    /\ lease.epoch > 0
    /\ checked' = checked \cup {<<r, lease.epoch>>}
    /\ UNCHANGED <<lease, granted, references, wire, hub, state, inboxVars>>

\* ... and stores the reference and the command for the hub; one that is there
\* already is a replay or a conflict.
StoreReference(r, epoch) ==
    /\ <<r, epoch>> \in checked
    /\ checked' = checked \ {<<r, epoch>>}
    /\ references' = [references EXCEPT ![r] = IF @ = 0 THEN epoch ELSE @]
    /\ UNCHANGED <<lease, granted, wire, hub, state, inboxVars>>

-----------------------------------------------------------------------------
(* A hub's cycle, run_once.                                                 *)

\* Mutant: the mode is stored as it was asked for.
ShownUnchecked(h, mode) == mode

\* refresh_state_metrics: a dead letter outweighs every other mode.
Shown(h, mode) == IF letters[h] # {} THEN "attention_required" ELSE mode

\* _persist_state: the worker's epoch and what it found.
Persist(h, epoch, mode, contact) ==
    state' = [state EXCEPT ![h] =
        [epoch |-> epoch, mode |-> Shown(h, mode), contacted |-> @.contacted \/ contact]]

\* Without the cloud the cycle goes on with what is in the inbox.
Unready(h, mode) ==
    /\ hub' = [hub EXCEPT ![h].at = "working", ![h].ready = FALSE, ![h].batch = staged[h]]
    /\ Persist(h, hub[h].epoch, mode, FALSE)

Ready(h, epoch) ==
    /\ hub' = [hub EXCEPT ![h].at = "pulling", ![h].ready = TRUE, ![h].epoch = epoch]
    /\ Persist(h, epoch, "synchronizing", TRUE)

\* _heartbeat_and_lease: the heartbeat is not answered, refused, or answered
\* with the hub's lease; without an active one the hub asks for it.
Heartbeat(h, answered) ==
    /\ hub[h].at = "idle"
    /\ CASE ~answered -> Unready(h, "offline_local") /\ wire' = wire
         [] answered /\ HeartbeatRefused(h) ->
               Unready(h, "attention_required") /\ wire' = wire
         [] answered /\ lease.owner = h /\ lease.active /\ ~HeartbeatRefused(h) ->
               Ready(h, lease.epoch) /\ wire' = wire
         [] OTHER ->
               /\ hub' = [hub EXCEPT ![h].at = "acquiring"]
               /\ wire' = wire \cup {[hub |-> h, epoch |-> hub[h].epoch, late |-> FALSE]}
               /\ state' = state
    /\ UNCHANGED <<cloudVars, inboxVars>>

Waits(q) == ~q.late /\ hub[q.hub].at = "acquiring"

\* The cloud handles a lease request; the hub hears the answer unless it is
\* lost or the hub has given up.
HandleAcquire(q, heard) ==
    /\ q \in wire
    /\ heard => Waits(q)
    /\ wire' = wire \ {q}
    /\ IF Refused(q.hub, q.epoch)
       THEN /\ UNCHANGED cloudVars
            /\ IF heard THEN Unready(q.hub, "attention_required")
                        ELSE UNCHANGED <<hub, state>>
       ELSE /\ Grant(q.hub)
            /\ IF heard THEN Ready(q.hub, GrantedEpoch)
                        ELSE UNCHANGED <<hub, state>>
    /\ UNCHANGED inboxVars

LoseRequest(q) ==
    /\ wire' = wire \ {q}
    /\ UNCHANGED <<cloudVars, hub, state, inboxVars>>

\* The requests of a hub that does not wait for them any more.
GivenUp(h) == {IF q.hub = h THEN [q EXCEPT !.late = TRUE] ELSE q : q \in wire}

TimeOut(h) ==
    /\ hub[h].at = "acquiring"
    /\ Unready(h, "offline_local")
    /\ wire' = GivenUp(h)
    /\ UNCHANGED <<cloudVars, inboxVars>>

\* _pull_and_stage_commands, and the start of process_inbox_batch.
Pull(h, answered) ==
    LET new == {r \in References : references[r] # 0} \ (receipts[h] \cup letters[h])
    IN  /\ hub[h].at = "pulling"
        /\ staged' = [staged EXCEPT ![h] = IF answered THEN @ \cup new ELSE @]
        /\ hub' = [hub EXCEPT ![h].at = "working", ![h].batch = staged'[h]]
        /\ UNCHANGED <<cloudVars, wire, state, receipts, letters>>

\* make_continuity_reference_handler, in the transaction of the inbox row: the
\* reference must carry the epoch in the hub's database, or it is a dead letter.
Receive(h, r) ==
    /\ hub[h].at = "working"
    /\ r \in hub[h].batch
    /\ hub' = [hub EXCEPT ![h].batch = @ \ {r}]
    /\ staged' = [staged EXCEPT ![h] = @ \ {r}]
    /\ IF r \in receipts[h] \/ references[r] = state[h].epoch
       THEN /\ receipts' = [receipts EXCEPT ![h] = @ \cup {r}]
            /\ letters' = letters
       ELSE /\ letters' = [letters EXCEPT ![h] = @ \cup {r}]
            /\ receipts' = receipts
    /\ UNCHANGED <<cloudVars, wire, state>>

\* The end of run_once; with empty queues the books are reconciled.
EndCycle(h, clean) ==
    /\ hub[h].at = "working"
    /\ hub[h].batch = {}
    /\ hub' = [hub EXCEPT ![h] = Idle(@.epoch)]
    /\ IF hub[h].ready
       THEN Persist(h, hub[h].epoch,
                    CASE staged[h] # {} -> "synchronizing"
                      [] staged[h] = {} /\ clean -> "live"
                      [] OTHER -> "attention_required", TRUE)
       ELSE state' = state
    /\ UNCHANGED <<cloudVars, wire, inboxVars>>

\* Mutant: the worker starts with the epoch of its database.
RestartResuming(h) ==
    /\ hub' = [hub EXCEPT ![h] = Idle(state[h].epoch)]
    /\ wire' = GivenUp(h)
    /\ UNCHANGED <<cloudVars, state, inboxVars>>

\* The worker's process ends, anywhere, and starts again: its epoch was only in
\* its memory.
Restart(h) ==
    /\ hub' = [hub EXCEPT ![h] = Idle(0)]
    /\ wire' = GivenUp(h)
    /\ UNCHANGED <<cloudVars, state, inboxVars>>

-----------------------------------------------------------------------------
(* The hub's API.                                                           *)

\* GET /sync/continuity: a state that is not refreshed any more is shown, and
\* stored, as stale.
ReadState(h) ==
    /\ state[h].mode \in {"live", "synchronizing"}
    /\ state' = [state EXCEPT ![h].mode = Shown(h, "stale")]
    /\ UNCHANGED <<cloudVars, wire, hub, inboxVars>>

\* POST /sync/reconcile: whatever waits in the queues.
Reconcile(h, clean) ==
    /\ state' = [state EXCEPT ![h].mode =
          Shown(h, CASE ~clean -> "attention_required"
                     [] clean /\ ~state[h].contacted -> "offline_local"
                     [] OTHER -> "live")]
    /\ UNCHANGED <<cloudVars, wire, hub, inboxVars>>

\* POST /sync/dead-letters/:id/retry: the letter stays.
Retry(h, r) ==
    /\ r \in letters[h]
    /\ staged' = [staged EXCEPT ![h] = @ \cup {r}]
    /\ UNCHANGED <<cloudVars, wire, hub, state, receipts, letters>>

-----------------------------------------------------------------------------

Cycle(h) ==
    \/ \E answered \in BOOLEAN : Heartbeat(h, answered) \/ Pull(h, answered)
    \/ TimeOut(h)
    \/ \E r \in References : Receive(h, r)
    \/ \E clean \in BOOLEAN : EndCycle(h, clean)

Cloud ==
    \/ Expire
    \/ \E r \in References : CheckReference(r)
    \/ \E c \in checked : StoreReference(c[1], c[2])
    \/ \E q \in wire : LoseRequest(q) \/ \E heard \in BOOLEAN : HandleAcquire(q, heard)

Operator(h) ==
    \/ Restart(h)
    \/ ReadState(h)
    \/ \E clean \in BOOLEAN : Reconcile(h, clean)
    \/ \E r \in References : Retry(h, r)

Next == Cloud \/ \E h \in Hubs : Cycle(h) \/ Operator(h)

Spec == Init /\ [][Next]_vars

\* The workers' loops never end, and the link works now and then.
Answered(h) == \E q \in wire : q.hub = h /\ HandleAcquire(q, TRUE)
WorkerFairness ==
    \A h \in Hubs : /\ WF_vars(Cycle(h))
                    /\ SF_vars(Heartbeat(h, TRUE))
                    /\ SF_vars(Answered(h))
UnattendedSpec == Spec /\ WorkerFairness

\* An operator restarts a hub whose heartbeats are refused.
AttendedSpec ==
    UnattendedSpec /\ \A h \in Hubs : WF_vars(Restart(h) /\ HeartbeatRefused(h))

-----------------------------------------------------------------------------
(* Properties.                                                              *)

Epochs == 0..MaxEpoch
Modes == {"offline_local", "synchronizing", "live", "stale", "attention_required"}

TypeOK ==
    /\ lease \in [owner : Hubs \cup {Nobody}, epoch : Epochs, active : BOOLEAN]
    /\ granted \in Seq(Hubs)
    /\ references \in [References -> Epochs]
    /\ checked \subseteq References \X Epochs
    /\ wire \subseteq [hub : Hubs, epoch : Epochs, late : BOOLEAN]
    /\ hub \in [Hubs -> [at : {"idle", "acquiring", "pulling", "working"},
                         ready : BOOLEAN, epoch : Epochs, batch : SUBSET References]]
    /\ state \in [Hubs -> [epoch : Epochs, mode : Modes, contacted : BOOLEAN]]
    /\ staged \in [Hubs -> SUBSET References]
    /\ receipts \in [Hubs -> SUBSET References]
    /\ letters \in [Hubs -> SUBSET References]

\* No two hubs ever act under the same epoch, in memory or in their databases,
\* through lost answers, late requests, expiries and restarts.
EpochsAreExclusive ==
    \A g, h \in Hubs :
        g # h => /\ hub[g].epoch = hub[h].epoch => hub[h].epoch = 0
                 /\ state[g].epoch = state[h].epoch => state[h].epoch = 0

\* A reference takes effect on one hub at most: the one that had the lease when
\* it was recorded.
ReferencesAreReceivedOnce ==
    \A h \in Hubs : \A r \in receipts[h] :
        /\ references[r] \in DOMAIN granted
        /\ granted[references[r]] = h
        /\ \A g \in Hubs \ {h} : r \notin receipts[g]

\* The leases, the hubs' epochs and the references are a Fencing.
Fence == INSTANCE Fencing WITH
    known <- [h \in Hubs |-> state[h].epoch],
    recorded <- references,
    taken <- [r \in References |-> {h \in Hubs : r \in receipts[h]}]
FencingSpec == Fence!Spec

\* Somebody keeps synchronising, however often answers are lost and leases
\* expire.
LeaseIsRegained == []<>(\E h \in Hubs : hub[h].at = "pulling")

\* A dead letter is shown to the operator sooner or later, whatever the mode
\* was set to meanwhile.
DeadLettersAreShown ==
    \A h \in Hubs :
        (letters[h] # {}) ~> (state[h].mode = "attention_required")
=============================================================================
