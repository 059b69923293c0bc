----------------------------- MODULE HubProofs ------------------------------
(***************************************************************************)
(* Proofs about two parts of the hub that share no variable.               *)
(*                                                                         *)
(* Continuity, for any hubs, references and number of epochs: its type     *)
(* invariant, that epochs are exclusive, that a reference is received by   *)
(* the hub it was recorded for only, and that the lease protocol           *)
(* implements Fencing.  Every action is first reduced to what it does to   *)
(* the fields the invariant looks at (`Delta'); the invariant is then      *)
(* shown for Delta once.                                                   *)
(*                                                                         *)
(* HubRetail, for any requests, invoices, products and number of workers:  *)
(* invoice numbers are consecutive, an invoice is sold once, and a sale    *)
(* takes from the stock what it moves.  The invariant says what a row lock *)
(* is worth, and what a copy of an invoice that is not locked is.          *)
(***************************************************************************)
EXTENDS Continuity, HubRetail, Sums, SequenceTheorems, TLAPS

-----------------------------------------------------------------------------
(* The writer lease and failover.                                           *)


HubType == [at : {"idle", "acquiring", "pulling", "working"},
            ready : BOOLEAN, epoch : Epochs, batch : SUBSET References]
StateType == [epoch : Epochs, mode : Modes, contacted : BOOLEAN]

-----------------------------------------------------------------------------
(* The inductive invariant.                                                 *)

\* The lease row carries the last epoch granted and its owner; only an active
\* lease may carry the last epoch of all.
LeaseInv ==
    /\ lease.epoch = Len(granted)
    /\ lease.epoch > 0 => lease.owner = granted[lease.epoch]
    /\ lease.active => lease.epoch > 0
    /\ ~lease.active => lease.epoch < MaxEpoch

\* An epoch a hub knows was granted to it, and its memory is not ahead of its
\* database.
HubInv ==
    \A h \in Hubs :
        /\ state[h].epoch # 0 => /\ state[h].epoch \in 1..Len(granted)
                                 /\ granted[state[h].epoch] = h
        /\ hub[h].epoch # 0 => hub[h].epoch = state[h].epoch

\* References are recorded, and about to be recorded, under granted epochs.
ReferenceInv ==
    /\ \A r \in References : references[r] \in 0..Len(granted)
    /\ \A c \in checked : c[2] \in 1..Len(granted)

\* A hub's inbox holds recorded references only.
InboxInv ==
    \A h \in Hubs :
        \A r \in staged[h] \cup hub[h].batch \cup letters[h] : references[r] # 0

\* A reference was received by the hub of its epoch.
ReceiptInv ==
    \A h \in Hubs : \A r \in receipts[h] :
        references[r] # 0 /\ granted[references[r]] = h

Inv == TypeOK /\ LeaseInv /\ HubInv /\ ReferenceInv /\ InboxInv /\ ReceiptInv

-----------------------------------------------------------------------------
(* The parts of a cycle.                                                    *)

LEMMA ShownMode ==
    ASSUME NEW h \in Hubs, NEW mode \in Modes
    PROVE  Shown(h, mode) \in Modes
  BY DEF Shown, Modes

LEMMA PersistLeaves ==
    ASSUME TypeOK, NEW h \in Hubs, NEW epoch \in Epochs, NEW mode \in Modes,
           NEW contact \in BOOLEAN, Persist(h, epoch, mode, contact)
    PROVE  /\ state' \in [Hubs -> StateType]
           /\ state'[h].epoch = epoch
           /\ \A g \in Hubs : g # h => state'[g] = state[g]
  <1>1. Shown(h, mode) \in Modes
    BY ShownMode
  <1>2. state \in [Hubs -> StateType]
    BY DEF TypeOK, StateType
  <1>3. [epoch |-> epoch, mode |-> Shown(h, mode),
         contacted |-> state[h].contacted \/ contact] \in StateType
    BY <1>1, <1>2 DEF StateType
  <1> QED BY <1>2, <1>3 DEF Persist

LEMMA UnreadyLeaves ==
    ASSUME TypeOK, NEW h \in Hubs, NEW mode \in Modes, Unready(h, mode)
    PROVE  /\ state' \in [Hubs -> StateType]
           /\ hub' \in [Hubs -> HubType]
           /\ state'[h].epoch = hub[h].epoch
           /\ \A g \in Hubs : g # h => state'[g] = state[g]
           /\ \A g \in Hubs : /\ hub'[g].epoch = hub[g].epoch
                              /\ hub'[g].batch \subseteq hub[g].batch \cup staged[g]
  <1>1. hub \in [Hubs -> HubType] /\ staged[h] \subseteq References
    BY DEF TypeOK, HubType
  <1>2. hub[h].epoch \in Epochs
    BY <1>1 DEF HubType
  <1>3. Persist(h, hub[h].epoch, mode, FALSE)
    BY DEF Unready
  <1>4. hub' = [hub EXCEPT ![h] = [hub[h] EXCEPT !.at = "working", !.ready = FALSE,
                                                 !.batch = staged[h]]]
    BY <1>1 DEF Unready, HubType
  <1>5. [hub[h] EXCEPT !.at = "working", !.ready = FALSE, !.batch = staged[h]] \in HubType
    BY <1>1 DEF HubType
  <1>6. hub' \in [Hubs -> HubType]
    BY <1>1, <1>4, <1>5
  <1>7. \A g \in Hubs : /\ hub'[g].epoch = hub[g].epoch
                        /\ hub'[g].batch \subseteq hub[g].batch \cup staged[g]
    BY <1>1, <1>4, <1>5 DEF HubType
  <1> QED BY <1>2, <1>3, <1>6, <1>7, PersistLeaves

LEMMA ReadyLeaves ==
    ASSUME TypeOK, NEW h \in Hubs, NEW epoch \in Epochs, Ready(h, epoch)
    PROVE  /\ state' \in [Hubs -> StateType]
           /\ hub' \in [Hubs -> HubType]
           /\ state'[h].epoch = epoch /\ hub'[h].epoch = epoch
           /\ \A g \in Hubs : g # h => state'[g] = state[g] /\ hub'[g] = hub[g]
           /\ \A g \in Hubs : hub'[g].batch = hub[g].batch
  <1>1. hub \in [Hubs -> HubType]
    BY DEF TypeOK, HubType
  <1>2. Persist(h, epoch, "synchronizing", TRUE)
    BY DEF Ready
  <1>3. hub' = [hub EXCEPT ![h] = [hub[h] EXCEPT !.at = "pulling", !.ready = TRUE,
                                                 !.epoch = epoch]]
    BY <1>1 DEF Ready, HubType
  <1>4. [hub[h] EXCEPT !.at = "pulling", !.ready = TRUE, !.epoch = epoch] \in HubType
    BY <1>1 DEF HubType
  <1>5. hub' \in [Hubs -> HubType]
    BY <1>1, <1>3, <1>4
  <1>6. /\ hub'[h].epoch = epoch
        /\ \A g \in Hubs : g # h => hub'[g] = hub[g]
        /\ \A g \in Hubs : hub'[g].batch = hub[g].batch
    BY <1>1, <1>3, <1>4 DEF HubType
  <1>7. "synchronizing" \in Modes
    BY DEF Modes
  <1> QED BY <1>2, <1>5, <1>6, <1>7, PersistLeaves

-----------------------------------------------------------------------------
(* What any step does.                                                      *)

\* The lease keeps its epoch and owner, or an inactive one is granted anew.
LeaseKept ==
    /\ granted' = granted
    /\ lease'.epoch = lease.epoch /\ lease'.owner = lease.owner
    /\ lease'.active => lease.active
    /\ ~lease'.active => ~lease.active \/ lease.epoch < MaxEpoch
LeaseGranted(h) ==
    /\ ~lease.active
    /\ granted' = Append(granted, h)
    /\ lease' = [owner |-> h, epoch |-> lease.epoch + 1, active |-> TRUE]
LeaseDelta == LeaseKept \/ \E h \in Hubs : LeaseGranted(h)

\* A hub keeps, forgets or learns its epoch.
Learnt(g) ==
    /\ lease'.epoch > 0 /\ lease'.owner = g
    /\ state'[g].epoch = lease'.epoch /\ hub'[g].epoch = lease'.epoch
Kept(g) ==
    /\ state'[g].epoch \in {state[g].epoch, hub[g].epoch}
    /\ hub'[g].epoch \in {0, hub[g].epoch}
HubDelta == \A g \in Hubs : Kept(g) \/ Learnt(g)

ReferenceDelta ==
    /\ \A r \in References :
          \/ references'[r] = references[r]
          \/ references[r] = 0 /\ <<r, references'[r]>> \in checked
    /\ \A c \in checked' : c \in checked \/ (lease.epoch > 0 /\ c[2] = lease.epoch)

InboxDelta ==
    \A g \in Hubs :
        \A r \in staged'[g] \cup hub'[g].batch \cup letters'[g] :
            \/ r \in staged[g] \cup hub[g].batch \cup letters[g]
            \/ r \in References /\ references[r] # 0

ReceiptDelta ==
    \A g \in Hubs : \A r \in receipts'[g] :
        \/ r \in receipts[g]
        \/ r \in hub[g].batch /\ references[r] = state[g].epoch

Delta == LeaseDelta /\ HubDelta /\ ReferenceDelta /\ InboxDelta /\ ReceiptDelta

LEMMA ExpireStep ==
    ASSUME TypeOK, LeaseInv, Expire
    PROVE  TypeOK' /\ Delta
  <1>1. lease' \in [owner : Hubs \cup {Nobody}, epoch : Epochs, active : BOOLEAN]
    BY DEF TypeOK, Expire
  <1>2. TypeOK'
    BY <1>1 DEF TypeOK, Expire, inboxVars
  <1>3. LeaseKept
    BY DEF TypeOK, Expire, LeaseKept
  <1> QED BY <1>2, <1>3 DEF TypeOK, Expire, inboxVars, Delta, LeaseDelta,
            HubDelta, Kept, ReferenceDelta, InboxDelta, ReceiptDelta

LEMMA CheckReferenceStep ==
    ASSUME TypeOK, NEW r \in References, CheckReference(r)
    PROVE  TypeOK' /\ Delta
  <1>1. lease.epoch \in Epochs
    BY DEF TypeOK
  <1>2. TypeOK'
    BY <1>1 DEF TypeOK, CheckReference, inboxVars
  <1>3. LeaseKept
    BY DEF CheckReference, LeaseKept
  <1>4. ReferenceDelta
    BY DEF CheckReference, ReferenceDelta
  <1> QED BY <1>2, <1>3, <1>4 DEF TypeOK, CheckReference, inboxVars, Delta,
            LeaseDelta, HubDelta, Kept, InboxDelta, ReceiptDelta

LEMMA StoreReferenceStep ==
    ASSUME TypeOK, NEW r \in References, NEW epoch \in Epochs, StoreReference(r, epoch)
    PROVE  TypeOK' /\ Delta
  <1>1. references' \in [References -> Epochs]
    BY DEF TypeOK, StoreReference
  <1>2. checked' \subseteq References \X Epochs
    BY DEF TypeOK, StoreReference
  <1>3. TypeOK'
    BY <1>1, <1>2 DEF TypeOK, StoreReference, inboxVars
  <1>4. LeaseKept
    BY DEF StoreReference, LeaseKept
  <1>5. ReferenceDelta
    BY DEF TypeOK, StoreReference, ReferenceDelta
  <1> QED BY <1>3, <1>4, <1>5 DEF TypeOK, StoreReference, inboxVars, Delta,
            LeaseDelta, HubDelta, Kept, InboxDelta, ReceiptDelta

\* A step of a worker that leaves the cloud and the inbox's tables alone and
\* does not extend the inbox.
LEMMA WorkerStep ==
    ASSUME TypeOK,
           UNCHANGED <<lease, granted, references, checked, staged, receipts, letters>>,
           wire' \subseteq [hub : Hubs, epoch : Epochs, late : BOOLEAN],
           hub' \in [Hubs -> HubType], state' \in [Hubs -> StateType],
           HubDelta,
           \A g \in Hubs : hub'[g].batch \subseteq hub[g].batch \cup staged[g]
    PROVE  TypeOK' /\ Delta
  <1>1. TypeOK'
    BY DEF TypeOK, HubType, StateType
  <1>2. LeaseKept /\ ReferenceDelta /\ InboxDelta /\ ReceiptDelta
    BY DEF LeaseKept, ReferenceDelta, InboxDelta, ReceiptDelta
  <1> QED BY <1>1, <1>2 DEF Delta, LeaseDelta

LEMMA WireType ==
    ASSUME TypeOK, NEW h \in Hubs
    PROVE  /\ GivenUp(h) \subseteq [hub : Hubs, epoch : Epochs, late : BOOLEAN]
           /\ hub[h].epoch \in Epochs
  <1>1. hub \in [Hubs -> HubType]
    BY DEF TypeOK, HubType
  <1>2. hub[h].epoch \in Epochs
    BY <1>1 DEF HubType
  <1> DEFINE W == [hub : Hubs, epoch : Epochs, late : BOOLEAN]
             Now(q) == IF q.hub = h THEN [q EXCEPT !.late = TRUE] ELSE q
  <1>3. ASSUME NEW q \in wire
        PROVE  Now(q) \in W
    <2>1. q \in [hub : Hubs, epoch : Epochs, late : BOOLEAN]
      BY DEF TypeOK
    <2>2. [q EXCEPT !.late = TRUE] \in [hub : Hubs, epoch : Epochs, late : BOOLEAN]
      BY <2>1
    <2> QED BY <2>1, <2>2
  <1>4. GivenUp(h) = {Now(q) : q \in wire}
    BY DEF GivenUp
  <1>5. GivenUp(h) \subseteq W
    <2> HIDE DEF Now, W
    <2> QED BY <1>3, <1>4
  <1> QED BY <1>2, <1>5

LEMMA UnreadyHubs ==
    ASSUME TypeOK, NEW h \in Hubs, NEW mode \in Modes, Unready(h, mode)
    PROVE  HubDelta
  <1>1. \A g \in Hubs : Kept(g)
    BY UnreadyLeaves DEF Kept
  <1> QED BY <1>1 DEF HubDelta

LEMMA HeartbeatStep ==
    ASSUME TypeOK, LeaseInv, NEW h \in Hubs, NEW answered \in BOOLEAN,
           Heartbeat(h, answered)
    PROVE  TypeOK' /\ Delta
  <1>u. UNCHANGED <<lease, granted, references, checked, staged, receipts, letters>>
    BY DEF Heartbeat, cloudVars, inboxVars
  <1>w. wire \subseteq [hub : Hubs, epoch : Epochs, late : BOOLEAN]
    BY DEF TypeOK
  <1>m. "offline_local" \in Modes /\ "attention_required" \in Modes
    BY DEF Modes
  <1>1. CASE ~answered
    <2>1. Unready(h, "offline_local") /\ wire' = wire
      BY <1>1 DEF Heartbeat
    <2> QED BY <2>1, <1>u, <1>w, <1>m, UnreadyLeaves, UnreadyHubs, WorkerStep
  <1>2. CASE answered /\ HeartbeatRefused(h)
    <2>1. Unready(h, "attention_required") /\ wire' = wire
      BY <1>2 DEF Heartbeat
    <2> QED BY <2>1, <1>u, <1>w, <1>m, UnreadyLeaves, UnreadyHubs, WorkerStep
  <1>3. CASE answered /\ lease.owner = h /\ lease.active /\ ~HeartbeatRefused(h)
    <2>1. Ready(h, lease.epoch) /\ wire' = wire
      BY <1>3 DEF Heartbeat
    <2>2. lease.epoch \in Epochs /\ lease.epoch > 0
      BY <1>3 DEF TypeOK, LeaseInv
    <2>3. Learnt(h)
      BY <2>1, <2>2, <1>3, <1>u, ReadyLeaves DEF Learnt
    <2>4. \A g \in Hubs : g # h => Kept(g)
      BY <2>1, <2>2, ReadyLeaves DEF Kept
    <2>5. HubDelta
      BY <2>3, <2>4 DEF HubDelta
    <2> QED BY <2>1, <2>2, <2>5, <1>u, <1>w, ReadyLeaves, WorkerStep
  <1>4. CASE /\ answered /\ ~HeartbeatRefused(h)
             /\ ~(lease.owner = h /\ lease.active)
    <2>1. /\ hub' = [hub EXCEPT ![h].at = "acquiring"]
          /\ wire' = wire \cup {[hub |-> h, epoch |-> hub[h].epoch, late |-> FALSE]}
          /\ state' = state
      BY <1>4 DEF Heartbeat
    <2>h. hub \in [Hubs -> HubType]
      BY DEF TypeOK, HubType
    <2>r. /\ hub' = [hub EXCEPT ![h] = [hub[h] EXCEPT !.at = "acquiring"]]
          /\ [hub[h] EXCEPT !.at = "acquiring"] \in HubType
      BY <2>h, <2>1 DEF HubType
    <2>2. hub' \in [Hubs -> HubType] /\ state' \in [Hubs -> StateType]
      BY <2>h, <2>r, <2>1 DEF TypeOK, StateType
    <2>3. wire' \subseteq [hub : Hubs, epoch : Epochs, late : BOOLEAN]
      <3>1. hub[h].epoch \in Epochs
        BY WireType
      <3>2. [hub |-> h, epoch |-> hub[h].epoch, late |-> FALSE]
               \in [hub : Hubs, epoch : Epochs, late : BOOLEAN]
        BY <3>1
      <3> QED BY <2>1, <3>2, <1>w
    <2>4. \A g \in Hubs : hub'[g].epoch = hub[g].epoch /\ hub'[g].batch = hub[g].batch
      BY <2>h, <2>r DEF HubType
    <2>5. HubDelta
      BY <2>1, <2>4 DEF HubDelta, Kept
    <2> QED BY <2>2, <2>3, <2>4, <2>5, <1>u, WorkerStep
  <1> QED BY <1>1, <1>2, <1>3, <1>4

LEMMA TimeOutStep ==
    ASSUME TypeOK, NEW h \in Hubs, TimeOut(h)
    PROVE  TypeOK' /\ Delta
  <1>1. UNCHANGED <<lease, granted, references, checked, staged, receipts, letters>>
    BY DEF TimeOut, cloudVars, inboxVars
  <1>2. Unready(h, "offline_local") /\ wire' = GivenUp(h) /\ "offline_local" \in Modes
    BY DEF TimeOut, Modes
  <1> QED BY <1>1, <1>2, WireType, UnreadyLeaves, UnreadyHubs, WorkerStep

LEMMA HandleAcquireStep ==
    ASSUME TypeOK, LeaseInv, NEW q \in wire, NEW heard \in BOOLEAN,
           HandleAcquire(q, heard)
    PROVE  TypeOK' /\ Delta
  <1>q. q.hub \in Hubs /\ q.epoch \in Epochs
    BY DEF TypeOK
  <1>w. /\ wire' \subseteq [hub : Hubs, epoch : Epochs, late : BOOLEAN]
        /\ UNCHANGED <<references, checked, staged, receipts, letters>>
    BY DEF TypeOK, HandleAcquire, Grant, cloudVars, inboxVars
  <1>s. hub \in [Hubs -> HubType] /\ state \in [Hubs -> StateType]
    BY DEF TypeOK, HubType, StateType
  <1>1. CASE Refused(q.hub, q.epoch)
    <2>1. UNCHANGED <<lease, granted>>
      BY <1>1 DEF HandleAcquire, cloudVars
    <2>2. CASE heard
      <3>1. Unready(q.hub, "attention_required") /\ "attention_required" \in Modes
        BY <1>1, <2>2 DEF HandleAcquire, Modes
      <3> QED BY <3>1, <2>1, <1>q, <1>w, UnreadyLeaves, UnreadyHubs, WorkerStep
    <2>3. CASE ~heard
      <3>1. UNCHANGED <<hub, state>>
        BY <1>1, <2>3 DEF HandleAcquire
      <3>2. HubDelta
        BY <3>1 DEF HubDelta, Kept
      <3> QED BY <3>1, <3>2, <2>1, <1>w, <1>s, WorkerStep
    <2> QED BY <2>2, <2>3
  <1>2. CASE ~Refused(q.hub, q.epoch)
    <2>1. Grant(q.hub)
      BY <1>2 DEF HandleAcquire
    <2>2. LeaseDelta
      <3>1. CASE lease.active
        <4>1. lease.owner = q.hub
          BY <1>2, <3>1 DEF Refused
        <4>2. LeaseKept
          BY <2>1, <3>1, <4>1 DEF Grant, GrantedEpoch, LeaseKept
        <4> QED BY <4>2 DEF LeaseDelta
      <3>2. CASE ~lease.active
        <4>1. LeaseGranted(q.hub)
          BY <2>1, <3>2 DEF Grant, GrantedEpoch, LeaseGranted
        <4> QED BY <4>1, <1>q DEF LeaseDelta
      <3> QED BY <3>1, <3>2
    <2>3. /\ lease' = [owner |-> q.hub, epoch |-> GrantedEpoch, active |-> TRUE]
          /\ GrantedEpoch \in Epochs /\ GrantedEpoch > 0
      <3>1. lease.epoch \in 0..MaxEpoch
        BY DEF TypeOK, Epochs
      <3> QED BY <2>1, <3>1, HubAssumption DEF Grant, GrantedEpoch, LeaseInv, Epochs
    <2>4. granted' \in Seq(Hubs)
      BY <2>1, <1>q DEF Grant, TypeOK
    <2>5. /\ hub' \in [Hubs -> HubType] /\ state' \in [Hubs -> StateType]
          /\ HubDelta
          /\ \A g \in Hubs : hub'[g].batch = hub[g].batch
      <3>1. CASE heard
        <4>1. Ready(q.hub, GrantedEpoch)
          BY <1>2, <3>1 DEF HandleAcquire
        <4>2. Learnt(q.hub)
          BY <4>1, <2>3, <1>q, ReadyLeaves DEF Learnt
        <4>3. \A g \in Hubs : g # q.hub => Kept(g)
          BY <4>1, <2>3, <1>q, ReadyLeaves DEF Kept
        <4> QED BY <4>1, <4>2, <4>3, <2>3, <1>q, ReadyLeaves DEF HubDelta
      <3>2. CASE ~heard
        <4>1. UNCHANGED <<hub, state>>
          BY <1>2, <3>2 DEF HandleAcquire
        <4> QED BY <4>1, <1>s DEF HubDelta, Kept
      <3> QED BY <3>1, <3>2
    <2>6. TypeOK'
      BY <2>3, <2>4, <2>5, <1>w, <1>q DEF TypeOK, HubType, StateType
    <2>7. ReferenceDelta /\ InboxDelta /\ ReceiptDelta
      BY <2>5, <1>w DEF ReferenceDelta, InboxDelta, ReceiptDelta
    <2> QED BY <2>2, <2>5, <2>6, <2>7 DEF Delta
  <1> QED BY <1>1, <1>2

LEMMA LoseRequestStep ==
    ASSUME TypeOK, NEW q \in wire, LoseRequest(q)
    PROVE  TypeOK' /\ Delta
  <1>1. /\ UNCHANGED <<lease, granted, references, checked, staged, receipts, letters>>
        /\ UNCHANGED <<hub, state>>
        /\ wire' \subseteq [hub : Hubs, epoch : Epochs, late : BOOLEAN]
        /\ hub \in [Hubs -> HubType] /\ state \in [Hubs -> StateType]
    BY DEF LoseRequest, cloudVars, inboxVars, TypeOK, HubType, StateType
  <1>2. HubDelta
    BY <1>1 DEF HubDelta, Kept
  <1> QED BY <1>1, <1>2, WorkerStep

\* A hub's record with some fields replaced.
LEMMA HubUpdated ==
    ASSUME TypeOK, NEW h \in Hubs, NEW new \in HubType,
           hub' = [hub EXCEPT ![h] = new]
    PROVE  /\ hub' \in [Hubs -> HubType]
           /\ hub'[h] = new
           /\ \A g \in Hubs : g # h => hub'[g] = hub[g]
  BY DEF TypeOK, HubType

LEMMA PullStep ==
    ASSUME TypeOK, NEW h \in Hubs, NEW answered \in BOOLEAN, Pull(h, answered)
    PROVE  TypeOK' /\ Delta
  <1> DEFINE new == {r \in References : references[r] # 0} \ (receipts[h] \cup letters[h])
             stagedNow == IF answered THEN staged[h] \cup new ELSE staged[h]
  <1>s. /\ hub \in [Hubs -> HubType] /\ state \in [Hubs -> StateType]
        /\ staged \in [Hubs -> SUBSET References] /\ new \subseteq References
    BY DEF TypeOK, HubType, StateType
  <1>1. /\ staged' = [staged EXCEPT ![h] = stagedNow]
        /\ stagedNow \subseteq References
    BY <1>s DEF Pull
  <1>2. staged' \in [Hubs -> SUBSET References] /\ staged'[h] = stagedNow
    BY <1>1, <1>s
  <1>3. /\ hub' = [hub EXCEPT ![h] = [hub[h] EXCEPT !.at = "working", !.batch = stagedNow]]
        /\ [hub[h] EXCEPT !.at = "working", !.batch = stagedNow] \in HubType
    BY <1>s, <1>1, <1>2 DEF Pull, HubType
  <1>4. /\ hub' \in [Hubs -> HubType]
        /\ hub'[h] = [hub[h] EXCEPT !.at = "working", !.batch = stagedNow]
        /\ \A g \in Hubs : g # h => hub'[g] = hub[g]
    BY <1>3, HubUpdated
  <1>5. hub'[h].epoch = hub[h].epoch /\ hub'[h].batch = stagedNow
    BY <1>4, <1>s DEF HubType
  <1>6. UNCHANGED <<lease, granted, references, checked, wire, state, receipts, letters>>
    BY DEF Pull, cloudVars
  <1>7. TypeOK'
    BY <1>2, <1>4, <1>6 DEF TypeOK, HubType
  <1>8. HubDelta
    BY <1>4, <1>5, <1>6 DEF HubDelta, Kept
  <1>9. InboxDelta
    <2>1. \A r \in stagedNow : r \in staged[h] \/ (r \in References /\ references[r] # 0)
      OBVIOUS
    <2>2. \A g \in Hubs : g # h => staged'[g] = staged[g]
      BY <1>1, <1>s
    <2> QED BY <1>2, <1>4, <1>5, <1>6, <2>1, <2>2 DEF InboxDelta
  <1> QED BY <1>6, <1>7, <1>8, <1>9 DEF Delta, LeaseDelta, LeaseKept, ReferenceDelta,
            ReceiptDelta

\* A step that only touches one hub's inbox: its batch and its three tables.
LEMMA ReceiveStep ==
    ASSUME TypeOK, NEW h \in Hubs, NEW r \in References, Receive(h, r)
    PROVE  TypeOK' /\ Delta
  <1>s. /\ hub \in [Hubs -> HubType] /\ state \in [Hubs -> StateType]
        /\ staged \in [Hubs -> SUBSET References]
        /\ receipts \in [Hubs -> SUBSET References]
        /\ letters \in [Hubs -> SUBSET References]
    BY DEF TypeOK, HubType, StateType
  <1>1. /\ hub' = [hub EXCEPT ![h] = [hub[h] EXCEPT !.batch = hub[h].batch \ {r}]]
        /\ [hub[h] EXCEPT !.batch = hub[h].batch \ {r}] \in HubType
    BY <1>s DEF Receive, HubType
  <1>2. /\ hub' \in [Hubs -> HubType]
        /\ hub'[h] = [hub[h] EXCEPT !.batch = hub[h].batch \ {r}]
        /\ \A g \in Hubs : g # h => hub'[g] = hub[g]
    BY <1>1, HubUpdated
  <1>3. \A g \in Hubs : /\ hub'[g].epoch = hub[g].epoch
                        /\ hub'[g].batch \subseteq hub[g].batch
    BY <1>2, <1>s DEF HubType
  <1>4. /\ staged' \in [Hubs -> SUBSET References]
        /\ \A g \in Hubs : staged'[g] \subseteq staged[g]
    BY <1>s DEF Receive
  <1>5. UNCHANGED <<lease, granted, references, checked, wire, state>> /\ r \in hub[h].batch
    BY DEF Receive, cloudVars
  <1>6. CASE r \in receipts[h] \/ references[r] = state[h].epoch
    <2>1. receipts' = [receipts EXCEPT ![h] = receipts[h] \cup {r}] /\ letters' = letters
      BY <1>6, <1>s DEF Receive
    <2>2. receipts' \in [Hubs -> SUBSET References]
      BY <2>1, <1>s
    <2>3. ReceiptDelta
      BY <2>1, <1>s, <1>5, <1>6 DEF ReceiptDelta
    <2>4. TypeOK'
      BY <2>1, <2>2, <1>2, <1>4, <1>5 DEF TypeOK, HubType
    <2> QED BY <2>1, <2>3, <2>4, <1>3, <1>4, <1>5 DEF Delta, LeaseDelta, LeaseKept,
              HubDelta, Kept, ReferenceDelta, InboxDelta
  <1>7. CASE ~(r \in receipts[h] \/ references[r] = state[h].epoch)
    <2>1. letters' = [letters EXCEPT ![h] = letters[h] \cup {r}] /\ receipts' = receipts
      BY <1>7, <1>s DEF Receive
    <2>2. letters' \in [Hubs -> SUBSET References]
      BY <2>1, <1>s
    <2>3. InboxDelta
      <3>1. \A g \in Hubs : \A x \in letters'[g] : x \in letters[g] \/ x \in hub[g].batch
        BY <2>1, <1>s, <1>5
      <3> QED BY <3>1, <1>3, <1>4 DEF InboxDelta
    <2>4. TypeOK'
      BY <2>1, <2>2, <1>2, <1>4, <1>5 DEF TypeOK, HubType
    <2> QED BY <2>1, <2>3, <2>4, <1>3, <1>4, <1>5 DEF Delta, LeaseDelta, LeaseKept,
              HubDelta, Kept, ReferenceDelta, ReceiptDelta
  <1> QED BY <1>6, <1>7

LEMMA EndCycleStep ==
    ASSUME TypeOK, NEW h \in Hubs, NEW clean \in BOOLEAN, EndCycle(h, clean)
    PROVE  TypeOK' /\ Delta
  <1>s. hub \in [Hubs -> HubType] /\ state \in [Hubs -> StateType]
    BY DEF TypeOK, HubType, StateType
  <1>1. hub[h].epoch \in Epochs
    BY <1>s DEF HubType
  <1>2. hub' = [hub EXCEPT ![h] = Idle(hub[h].epoch)] /\ Idle(hub[h].epoch) \in HubType
    BY <1>1, <1>s DEF EndCycle, Idle, HubType
  <1>3. /\ hub' \in [Hubs -> HubType]
        /\ hub'[h] = Idle(hub[h].epoch)
        /\ \A g \in Hubs : g # h => hub'[g] = hub[g]
    BY <1>2, HubUpdated
  <1>4. \A g \in Hubs : /\ hub'[g].epoch = hub[g].epoch
                        /\ hub'[g].batch \subseteq hub[g].batch
    BY <1>3 DEF Idle
  <1>5. /\ state' \in [Hubs -> StateType]
        /\ \A g \in Hubs : state'[g].epoch \in {state[g].epoch, hub[g].epoch}
    <2>1. CASE hub[h].ready
      <3> DEFINE mode == CASE staged[h] # {} -> "synchronizing"
                           [] staged[h] = {} /\ clean -> "live"
                           [] OTHER -> "attention_required"
      <3>1. mode \in Modes
        BY DEF Modes
      <3>2. Persist(h, hub[h].epoch, mode, TRUE)
        BY <2>1 DEF EndCycle
      <3> HIDE DEF mode
      <3> QED BY <3>1, <3>2, <1>1, PersistLeaves
    <2>2. CASE ~hub[h].ready
      BY <2>2, <1>s DEF EndCycle
    <2> QED BY <2>1, <2>2
  <1>6. UNCHANGED <<lease, granted, references, checked, wire, staged, receipts, letters>>
    BY DEF EndCycle, cloudVars, inboxVars
  <1>7. HubDelta
    BY <1>4, <1>5 DEF HubDelta, Kept
  <1> QED BY <1>3, <1>4, <1>5, <1>6, <1>7, WorkerStep DEF TypeOK

LEMMA RestartStep ==
    ASSUME TypeOK, NEW h \in Hubs, Restart(h)
    PROVE  TypeOK' /\ Delta
  <1>1. hub' = [hub EXCEPT ![h] = Idle(0)] /\ Idle(0) \in HubType
    BY HubAssumption DEF Restart, Idle, HubType, Epochs
  <1>2. /\ hub' \in [Hubs -> HubType]
        /\ hub'[h] = Idle(0)
        /\ \A g \in Hubs : g # h => hub'[g] = hub[g]
    BY <1>1, HubUpdated
  <1>3. \A g \in Hubs : /\ hub'[g].epoch \in {0, hub[g].epoch}
                        /\ hub'[g].batch \subseteq hub[g].batch
    BY <1>2 DEF Idle
  <1>4. /\ UNCHANGED <<lease, granted, references, checked, state, staged, receipts, letters>>
        /\ wire' = GivenUp(h) /\ state \in [Hubs -> StateType]
    BY DEF Restart, cloudVars, inboxVars, TypeOK, StateType
  <1>5. HubDelta
    BY <1>3, <1>4 DEF HubDelta, Kept
  <1> QED BY <1>2, <1>3, <1>4, <1>5, WireType, WorkerStep

\* The mode alone changes: the two requests of the hub's API that set it.
LEMMA ModeStep ==
    ASSUME TypeOK, NEW h \in Hubs, NEW mode \in Modes,
           state' = [state EXCEPT ![h].mode = Shown(h, mode)],
           UNCHANGED <<lease, granted, references, checked, wire, hub,
                       staged, receipts, letters>>
    PROVE  /\ TypeOK' /\ Delta
           /\ \A g \in Hubs : state'[g].epoch = state[g].epoch
  <1>1. state \in [Hubs -> StateType] /\ Shown(h, mode) \in Modes
    BY ShownMode DEF TypeOK, StateType
  <1>2. state' = [state EXCEPT ![h] = [state[h] EXCEPT !.mode = Shown(h, mode)]]
    OBVIOUS
  <1>3. [state[h] EXCEPT !.mode = Shown(h, mode)] \in StateType
    BY <1>1 DEF StateType
  <1>4. state' \in [Hubs -> StateType] /\ \A g \in Hubs : state'[g].epoch = state[g].epoch
    BY <1>1, <1>2, <1>3 DEF StateType
  <1>5. HubDelta
    BY <1>4 DEF HubDelta, Kept
  <1>6. hub' \in [Hubs -> HubType] /\ wire' \subseteq [hub : Hubs, epoch : Epochs, late : BOOLEAN]
    BY DEF TypeOK, HubType
  <1> QED BY <1>4, <1>5, <1>6, WorkerStep

LEMMA ReadStateStep ==
    ASSUME TypeOK, NEW h \in Hubs, ReadState(h)
    PROVE  /\ TypeOK' /\ Delta
           /\ \A g \in Hubs : state'[g].epoch = state[g].epoch
  <1>1. "stale" \in Modes
    BY DEF Modes
  <1> QED BY <1>1, ModeStep DEF ReadState, cloudVars, inboxVars

LEMMA ReconcileStep ==
    ASSUME TypeOK, NEW h \in Hubs, NEW clean \in BOOLEAN, Reconcile(h, clean)
    PROVE  /\ TypeOK' /\ Delta
           /\ \A g \in Hubs : state'[g].epoch = state[g].epoch
  <1> DEFINE mode == CASE ~clean -> "attention_required"
                       [] clean /\ ~state[h].contacted -> "offline_local"
                       [] OTHER -> "live"
  <1>1. mode \in Modes
    BY DEF Modes
  <1>2. /\ state' = [state EXCEPT ![h].mode = Shown(h, mode)]
        /\ UNCHANGED <<lease, granted, references, checked, wire, hub,
                       staged, receipts, letters>>
    BY DEF Reconcile, cloudVars, inboxVars
  <1> HIDE DEF mode
  <1> QED BY <1>1, <1>2, ModeStep

LEMMA RetryStep ==
    ASSUME TypeOK, NEW h \in Hubs, NEW r \in References, Retry(h, r)
    PROVE  TypeOK' /\ Delta
  <1>1. /\ staged' = [staged EXCEPT ![h] = staged[h] \cup {r}]
        /\ r \in letters[h]
        /\ staged \in [Hubs -> SUBSET References]
    BY DEF Retry, TypeOK
  <1>2. UNCHANGED <<lease, granted, references, checked, wire, hub, state, receipts, letters>>
    BY DEF Retry, cloudVars
  <1>3. TypeOK'
    BY <1>1, <1>2 DEF TypeOK
  <1>4. InboxDelta
    BY <1>1, <1>2 DEF InboxDelta
  <1> QED BY <1>2, <1>3, <1>4 DEF Delta, LeaseDelta, LeaseKept, HubDelta, Kept,
            ReferenceDelta, ReceiptDelta

-----------------------------------------------------------------------------
(* The invariant.                                                           *)

LEMMA InitInv == Init => Inv
  <1> SUFFICES ASSUME Init PROVE Inv
    OBVIOUS
  <1>1. 0 \in Epochs /\ 0 < MaxEpoch /\ "synchronizing" \in Modes
    BY HubAssumption DEF Epochs, Modes
  <1>2. Len(granted) = 0 /\ granted \in Seq(Hubs)
    BY DEF Init
  <1>3. TypeOK
    BY <1>1, <1>2 DEF Init, Idle, TypeOK
  <1> QED BY <1>1, <1>2, <1>3 DEF Init, Idle, Inv, LeaseInv, HubInv, ReferenceInv,
            InboxInv, ReceiptInv

LEMMA NextDelta ==
    ASSUME TypeOK, LeaseInv, Next
    PROVE  TypeOK' /\ Delta
  <1>1. CASE Expire
    BY <1>1, ExpireStep
  <1>2. ASSUME NEW r \in References, CheckReference(r) PROVE TypeOK' /\ Delta
    BY <1>2, CheckReferenceStep
  <1>3. ASSUME NEW c \in checked, StoreReference(c[1], c[2]) PROVE TypeOK' /\ Delta
    <2>1. c[1] \in References /\ c[2] \in Epochs
      BY DEF TypeOK
    <2> QED BY <1>3, <2>1, StoreReferenceStep
  <1>4. ASSUME NEW q \in wire, LoseRequest(q) PROVE TypeOK' /\ Delta
    BY <1>4, LoseRequestStep
  <1>5. ASSUME NEW q \in wire, NEW heard \in BOOLEAN, HandleAcquire(q, heard)
        PROVE  TypeOK' /\ Delta
    BY <1>5, HandleAcquireStep
  <1>6. ASSUME NEW h \in Hubs, Cycle(h) PROVE TypeOK' /\ Delta
    BY <1>6, HeartbeatStep, PullStep, TimeOutStep, ReceiveStep, EndCycleStep DEF Cycle
  <1>7. ASSUME NEW h \in Hubs, Operator(h) PROVE TypeOK' /\ Delta
    BY <1>7, RestartStep, ReadStateStep, ReconcileStep, RetryStep DEF Operator
  <1> QED BY <1>1, <1>2, <1>3, <1>4, <1>5, <1>6, <1>7 DEF Next, Cloud

\* History only grows: an epoch keeps its hub.
LEMMA HistoryKept ==
    ASSUME TypeOK, LeaseInv, LeaseDelta
    PROVE  /\ Len(granted) <= Len(granted')
           /\ \A e \in 1..Len(granted) : granted'[e] = granted[e]
           /\ LeaseInv'
  <1>t. granted \in Seq(Hubs) /\ Len(granted) \in Nat
    BY DEF TypeOK
  <1>1. CASE LeaseKept
    BY <1>1, <1>t DEF LeaseKept, LeaseInv
  <1>2. ASSUME NEW h \in Hubs, LeaseGranted(h)
        PROVE  /\ Len(granted) <= Len(granted')
               /\ \A e \in 1..Len(granted) : granted'[e] = granted[e]
               /\ LeaseInv'
    <2>1. granted' = Append(granted, h)
      BY <1>2 DEF LeaseGranted
    <2>2. /\ Len(granted') = Len(granted) + 1
          /\ \A e \in 1..Len(granted) : granted'[e] = granted[e]
          /\ granted'[Len(granted) + 1] = h
      BY <2>1, <1>t
    <2> QED BY <2>2, <1>2, <1>t DEF LeaseGranted, LeaseInv
  <1> QED BY <1>1, <1>2 DEF LeaseDelta

LEMMA DeltaKeepsInv ==
    ASSUME Inv, TypeOK', Delta
    PROVE  Inv'
  <1>h. /\ Len(granted) <= Len(granted')
        /\ \A e \in 1..Len(granted) : granted'[e] = granted[e]
        /\ LeaseInv'
    BY HistoryKept DEF Inv, Delta
  <1>n. Len(granted) \in Nat /\ Len(granted') \in Nat /\ lease'.epoch = Len(granted')
    BY <1>h DEF Inv, TypeOK, LeaseInv
  <1>1. HubInv'
    <2> SUFFICES ASSUME NEW h \in Hubs
        PROVE  /\ state'[h].epoch # 0 => /\ state'[h].epoch \in 1..Len(granted')
                                         /\ granted'[state'[h].epoch] = h
               /\ hub'[h].epoch # 0 => hub'[h].epoch = state'[h].epoch
      BY DEF HubInv
    <2>1. CASE Learnt(h)
      BY <2>1, <1>h, <1>n DEF Learnt, LeaseInv
    <2>2. CASE Kept(h)
      <3>1. state[h].epoch # 0 => /\ state[h].epoch \in 1..Len(granted)
                                  /\ granted[state[h].epoch] = h
        BY DEF Inv, HubInv
      <3>2. hub[h].epoch \in {0, state[h].epoch}
        BY DEF Inv, HubInv
      <3>3. state'[h].epoch \in {0, state[h].epoch}
        BY <2>2, <3>2 DEF Kept
      <3>4. hub'[h].epoch # 0 => hub'[h].epoch = state'[h].epoch
        BY <2>2, <3>2 DEF Kept
      <3> QED BY <3>1, <3>3, <3>4, <1>h, <1>n
    <2> QED BY <2>1, <2>2 DEF Delta, HubDelta
  <1>2. ReferenceInv'
    <2>1. \A c \in checked' : c[2] \in 1..Len(granted')
      BY <1>h, <1>n DEF Inv, Delta, ReferenceDelta, ReferenceInv, LeaseInv
    <2>2. \A r \in References : references'[r] \in 0..Len(granted')
      <3> SUFFICES ASSUME NEW r \in References
          PROVE  references'[r] \in 0..Len(granted')
        OBVIOUS
      <3>1. CASE references'[r] = references[r]
        BY <3>1, <1>h, <1>n DEF Inv, ReferenceInv
      <3>2. CASE <<r, references'[r]>> \in checked
        <4>1. <<r, references'[r]>>[2] \in 1..Len(granted)
          BY <3>2 DEF Inv, ReferenceInv
        <4> QED BY <4>1, <1>h, <1>n
      <3> QED BY <3>1, <3>2 DEF Delta, ReferenceDelta
    <2> QED BY <2>1, <2>2 DEF ReferenceInv
  <1>3. \A r \in References : references[r] # 0 => references'[r] = references[r]
    BY DEF Delta, ReferenceDelta
  <1>t. \A h \in Hubs : /\ staged[h] \subseteq References
                        /\ hub[h].batch \subseteq References
                        /\ letters[h] \subseteq References
                        /\ receipts[h] \subseteq References
    BY DEF Inv, TypeOK
  <1>4. InboxInv'
    BY <1>3, <1>t DEF Inv, InboxInv, Delta, InboxDelta
  <1>5. ReceiptInv'
    <2> SUFFICES ASSUME NEW h \in Hubs, NEW r \in receipts'[h]
        PROVE  references'[r] # 0 /\ granted'[references'[r]] = h
      BY DEF ReceiptInv
    <2>1. references[r] # 0 /\ granted[references[r]] = h /\ r \in References
      <3>1. CASE r \in receipts[h]
        BY <3>1, <1>t DEF Inv, ReceiptInv
      <3>2. CASE r \in hub[h].batch /\ references[r] = state[h].epoch
        BY <3>2, <1>t DEF Inv, InboxInv, HubInv
      <3> QED BY <3>1, <3>2 DEF Delta, ReceiptDelta
    <2>2. references'[r] = references[r] /\ references[r] \in 1..Len(granted)
      BY <2>1, <1>3, <1>n DEF Inv, ReferenceInv
    <2> QED BY <2>1, <2>2, <1>h
  <1> QED BY <1>h, <1>1, <1>2, <1>4, <1>5 DEF Inv

\* The invariant, inductive: what the lease row, the hubs and the references
\* say about each other.
THEOREM LeaseInvariance == Spec => []Inv
  <1>1. Inv /\ [Next]_vars => Inv'
    <2> SUFFICES ASSUME Inv, [Next]_vars PROVE Inv'
      OBVIOUS
    <2>1. CASE Next
      BY <2>1, NextDelta, DeltaKeepsInv DEF Inv
    <2>2. CASE UNCHANGED vars
      BY <2>2 DEF vars, cloudVars, inboxVars, Inv, TypeOK, LeaseInv, HubInv,
              ReferenceInv, InboxInv, ReceiptInv
    <2> QED BY <2>1, <2>2
  <1> QED BY InitInv, <1>1, PTL DEF Spec

\* The variables of the lease protocol keep their types.
THEOREM LeaseTypeCorrect == Spec => []TypeOK
  <1>1. Inv => TypeOK
    BY DEF Inv
  <1> QED BY <1>1, LeaseInvariance, PTL

\* No two hubs ever act under the same epoch, for any number of hubs.
THEOREM ExclusiveEpochs == Spec => []EpochsAreExclusive
  <1>1. Inv => EpochsAreExclusive
    <2> SUFFICES ASSUME Inv, NEW g \in Hubs, NEW h \in Hubs, g # h
        PROVE  /\ hub[g].epoch = hub[h].epoch => hub[h].epoch = 0
               /\ state[g].epoch = state[h].epoch => state[h].epoch = 0
      BY DEF EpochsAreExclusive
    <2>1. state[g].epoch = state[h].epoch => state[h].epoch = 0
      BY DEF Inv, HubInv
    <2> QED BY <2>1 DEF Inv, HubInv
  <1> QED BY <1>1, LeaseInvariance, PTL

\* A reference is received by one hub only, the one it was recorded for.
THEOREM ReferencesReceivedOnce == Spec => []ReferencesAreReceivedOnce
  <1>1. Inv => ReferencesAreReceivedOnce
    <2> SUFFICES ASSUME Inv, NEW h \in Hubs, NEW r \in receipts[h]
        PROVE  /\ references[r] \in DOMAIN granted
               /\ granted[references[r]] = h
               /\ \A g \in Hubs \ {h} : r \notin receipts[g]
      BY DEF ReferencesAreReceivedOnce
    <2>1. references[r] # 0 /\ granted[references[r]] = h /\ r \in References
      BY DEF Inv, ReceiptInv, TypeOK
    <2>2. references[r] \in DOMAIN granted
      <3>1. granted \in Seq(Hubs) /\ references[r] \in 0..Len(granted)
        BY <2>1 DEF Inv, TypeOK, ReferenceInv
      <3> QED BY <3>1, <2>1
    <2> QED BY <2>1, <2>2 DEF Inv, ReceiptInv
  <1> QED BY <1>1, LeaseInvariance, PTL

-----------------------------------------------------------------------------
(* The refinement of Fencing.                                               *)

known == [h \in Hubs |-> state[h].epoch]
taken == [r \in References |-> {h \in Hubs : r \in receipts[h]}]

\* In the terms of the mapping: what is known and taken stays where the hubs'
\* epochs and receipts stay.
LEMMA KnownKept ==
    ASSUME \A g \in Hubs : state'[g].epoch = state[g].epoch
    PROVE  known' = known
  BY DEF known

LEMMA TakenKept ==
    ASSUME receipts' = receipts
    PROVE  taken' = taken
  BY DEF taken

LEMMA KnownOfOne ==
    ASSUME NEW h \in Hubs, \A g \in Hubs : g # h => state'[g].epoch = state[g].epoch
    PROVE  known' = [known EXCEPT ![h] = state'[h].epoch]
  BY DEF known

\* A hub that goes on without the lease keeps its epoch or forgets it.
LEMMA KeepsOrForgets ==
    ASSUME UNCHANGED <<granted, references, receipts>>, NEW h \in Hubs,
           \A g \in Hubs : g # h => state'[g].epoch = state[g].epoch,
           state'[h].epoch \in {0, state[h].epoch}
    PROVE  Fence!Forget(h) \/ UNCHANGED Fence!vars
  <1>t. taken' = taken
    BY TakenKept
  <1>1. CASE state'[h].epoch = state[h].epoch
    <2>1. known' = known
      BY <1>1, KnownKept
    <2> QED BY <1>t, <2>1 DEF Fence!vars, known, taken
  <1>2. CASE state'[h].epoch = 0
    <2>1. known' = [known EXCEPT ![h] = 0]
      BY <1>2, KnownOfOne
    <2> QED BY <1>t, <2>1 DEF Fence!Forget, known, taken
  <1> QED BY <1>1, <1>2

\* A hub that is told of its lease learns the last epoch granted.
LEMMA ReadyLearns ==
    ASSUME TypeOK, NEW h \in Hubs, NEW epoch \in Epochs, Ready(h, epoch),
           UNCHANGED <<references, receipts>>,
           granted' = granted \/ granted' = Append(granted, h),
           epoch > 0, epoch = Len(granted'), granted'[epoch] = h
    PROVE  Fence!Learn(h)
  <1>1. /\ state'[h].epoch = epoch
        /\ \A g \in Hubs : g # h => state'[g] = state[g]
    BY ReadyLeaves
  <1>2. known' = [known EXCEPT ![h] = epoch] /\ taken' = taken
    BY <1>1, KnownOfOne, TakenKept
  <1>3. granted' # <<>>
    BY DEF TypeOK
  <1> QED BY <1>2, <1>3 DEF Fence!Learn, known, taken

LEMMA HeartbeatFences ==
    ASSUME Inv, NEW h \in Hubs, NEW answered \in BOOLEAN, Heartbeat(h, answered)
    PROVE  Fence!Forget(h) \/ Fence!Learn(h) \/ UNCHANGED Fence!vars
  <1>u. UNCHANGED <<lease, granted, references, receipts>>
    BY DEF Heartbeat, cloudVars, inboxVars
  <1>e. TypeOK /\ LeaseInv /\ hub[h].epoch \in {0, state[h].epoch}
    BY DEF Inv, HubInv
  <1>m. "offline_local" \in Modes /\ "attention_required" \in Modes
    BY DEF Modes
  <1>1. CASE ~answered \/ HeartbeatRefused(h)
    <2>1. PICK mode \in Modes : Unready(h, mode)
      BY <1>1, <1>m DEF Heartbeat
    <2> QED BY <2>1, <1>u, <1>e, UnreadyLeaves, KeepsOrForgets
  <1>2. CASE answered /\ lease.owner = h /\ lease.active /\ ~HeartbeatRefused(h)
    <2>1. Ready(h, lease.epoch)
      BY <1>2 DEF Heartbeat
    <2>2. lease.epoch \in Epochs /\ lease.epoch > 0 /\ lease.epoch = Len(granted')
          /\ granted'[lease.epoch] = h
      BY <1>2, <1>e, <1>u DEF TypeOK, LeaseInv
    <2> QED BY <2>1, <2>2, <1>u, <1>e, ReadyLearns
  <1>3. CASE /\ answered /\ ~HeartbeatRefused(h)
             /\ ~(lease.owner = h /\ lease.active)
    <2>1. state' = state
      BY <1>3 DEF Heartbeat
    <2> QED BY <2>1, <1>u, KeepsOrForgets
  <1> QED BY <1>1, <1>2, <1>3

LEMMA HandleAcquireFences ==
    ASSUME Inv, NEW q \in wire, NEW heard \in BOOLEAN, HandleAcquire(q, heard)
    PROVE  \/ Fence!Grant(q.hub) \/ Fence!Learn(q.hub) \/ Fence!Forget(q.hub)
           \/ UNCHANGED Fence!vars
  <1>q. q.hub \in Hubs
    BY DEF Inv, TypeOK
  <1>t. TypeOK /\ LeaseInv /\ hub[q.hub].epoch \in {0, state[q.hub].epoch}
    BY <1>q DEF Inv, HubInv
  <1>u. UNCHANGED <<references, receipts>>
    BY DEF HandleAcquire, Grant, cloudVars, inboxVars
  <1>1. CASE Refused(q.hub, q.epoch)
    <2>1. granted' = granted
      BY <1>1 DEF HandleAcquire, cloudVars
    <2>2. CASE heard
      <3>1. Unready(q.hub, "attention_required") /\ "attention_required" \in Modes
        BY <1>1, <2>2 DEF HandleAcquire, Modes
      <3> QED BY <3>1, <2>1, <1>q, <1>t, <1>u, UnreadyLeaves, KeepsOrForgets
    <2>3. CASE ~heard
      BY <1>1, <2>3, <2>1, <1>q, <1>u, KeepsOrForgets DEF HandleAcquire
    <2> QED BY <2>2, <2>3
  <1>2. CASE ~Refused(q.hub, q.epoch)
    <2>1. Grant(q.hub)
      BY <1>2 DEF HandleAcquire
    <2>2. lease.active => lease.owner = q.hub
      BY <1>2 DEF Refused
    <2>3. granted' = granted \/ granted' = Append(granted, q.hub)
      BY <2>1 DEF Grant
    <2>4. /\ GrantedEpoch \in Epochs /\ GrantedEpoch > 0
          /\ GrantedEpoch = Len(granted') /\ granted'[GrantedEpoch] = q.hub
      <3>1. granted \in Seq(Hubs) /\ lease.epoch \in 0..MaxEpoch
        BY <1>t DEF TypeOK, Epochs
      <3>2. CASE lease.active
        BY <3>1, <3>2, <2>1, <2>2, <1>t DEF Grant, GrantedEpoch, LeaseInv, Epochs
      <3>3. CASE ~lease.active
        <4>1. GrantedEpoch = Len(granted) + 1 /\ granted' = Append(granted, q.hub)
          BY <3>3, <2>1, <1>t DEF Grant, GrantedEpoch, LeaseInv
        <4>2. GrantedEpoch \in Epochs /\ GrantedEpoch > 0
          BY <3>1, <3>3, <1>t, HubAssumption DEF GrantedEpoch, LeaseInv, Epochs
        <4> QED BY <3>1, <4>1, <4>2, <1>q
      <3> QED BY <3>2, <3>3
    <2>5. CASE heard
      <3>1. Ready(q.hub, GrantedEpoch)
        BY <1>2, <2>5 DEF HandleAcquire
      <3> HIDE DEF GrantedEpoch
      <3> QED BY <3>1, <2>3, <2>4, <1>q, <1>t, <1>u, ReadyLearns
    <2>6. CASE ~heard
      <3>1. state' = state
        BY <1>2, <2>6 DEF HandleAcquire
      <3>2. known' = known /\ taken' = taken
        BY <3>1, <1>u, KnownKept, TakenKept
      <3> QED BY <2>3, <3>2, <1>u DEF Fence!Grant, Fence!vars, known, taken
    <2> QED BY <2>5, <2>6
  <1> QED BY <1>1, <1>2

LEMMA StoreReferenceFences ==
    ASSUME Inv, NEW r \in References, NEW epoch \in Epochs, StoreReference(r, epoch)
    PROVE  Fence!Record(r) \/ UNCHANGED Fence!vars
  <1>1. UNCHANGED <<granted, state, receipts>>
    BY DEF StoreReference, inboxVars
  <1>2. known' = known /\ taken' = taken
    BY <1>1, KnownKept, TakenKept
  <1>3. references \in [References -> Epochs] /\ granted \in Seq(Hubs)
    BY DEF Inv, TypeOK
  <1>4. CASE references[r] = 0
    <2>1. references' = [references EXCEPT ![r] = epoch]
      BY <1>4, <1>3 DEF StoreReference
    <2>2. <<r, epoch>> \in checked
      BY DEF StoreReference
    <2>3. <<r, epoch>>[2] \in 1..Len(granted)
      BY <2>2 DEF Inv, ReferenceInv
    <2>4. epoch \in DOMAIN granted
      BY <2>3, <1>3
    <2> QED BY <2>1, <2>4, <1>1, <1>2, <1>4 DEF Fence!Record, known, taken
  <1>5. CASE references[r] # 0
    <2>1. references' = references
      BY <1>5, <1>3 DEF StoreReference
    <2> QED BY <2>1, <1>1, <1>2 DEF Fence!vars, known, taken
  <1> QED BY <1>4, <1>5

LEMMA ReceiveFences ==
    ASSUME Inv, NEW h \in Hubs, NEW r \in References, Receive(h, r)
    PROVE  Fence!Take(h, r) \/ UNCHANGED Fence!vars
  <1>1. UNCHANGED <<granted, state, references>>
    BY DEF Receive, cloudVars
  <1>2. known' = known
    BY <1>1, KnownKept
  <1>3. receipts \in [Hubs -> SUBSET References] /\ r \in hub[h].batch
    BY DEF Inv, TypeOK, Receive
  <1>4. CASE r \in receipts[h] \/ references[r] = state[h].epoch
    <2>1. references[r] # 0 /\ granted[references[r]] = h
      BY <1>3, <1>4 DEF Inv, InboxInv, HubInv, ReceiptInv
    <2>2. receipts' = [receipts EXCEPT ![h] = receipts[h] \cup {r}]
      BY <1>4, <1>3 DEF Receive
    <2>3. taken' = [taken EXCEPT ![r] = taken[r] \cup {h}]
      <3>1. \A x \in References : taken'[x] = IF x = r THEN taken[r] \cup {h} ELSE taken[x]
        BY <2>2, <1>3 DEF taken
      <3> QED BY <3>1 DEF taken
    <2> QED BY <2>1, <2>3, <1>1, <1>2 DEF Fence!Take, known, taken
  <1>5. CASE ~(r \in receipts[h] \/ references[r] = state[h].epoch)
    <2>1. receipts' = receipts
      BY <1>5 DEF Receive
    <2> QED BY <2>1, <1>1, <1>2, TakenKept DEF Fence!vars, known, taken
  <1> QED BY <1>4, <1>5

\* The steps that leave leases, references and receipts alone.
LEMMA QuietFences ==
    ASSUME UNCHANGED <<granted, references, receipts>>,
           \A g \in Hubs : state'[g].epoch = state[g].epoch
    PROVE  UNCHANGED Fence!vars
  BY KnownKept, TakenKept DEF Fence!vars, known, taken

LEMMA CycleFences ==
    ASSUME Inv, NEW h \in Hubs, Cycle(h)
    PROVE  Fence!Next \/ UNCHANGED Fence!vars
  <1>e. TypeOK /\ hub[h].epoch \in {0, state[h].epoch} /\ hub[h].epoch \in Epochs
    BY DEF Inv, HubInv, TypeOK
  <1>1. ASSUME NEW answered \in BOOLEAN, Heartbeat(h, answered)
        PROVE  Fence!Next \/ UNCHANGED Fence!vars
    BY <1>1, HeartbeatFences DEF Fence!Next
  <1>2. ASSUME NEW answered \in BOOLEAN, Pull(h, answered)
        PROVE  UNCHANGED Fence!vars
    BY <1>2, QuietFences DEF Pull, cloudVars
  <1>3. CASE TimeOut(h)
    <2>1. Unready(h, "offline_local") /\ UNCHANGED <<granted, references, receipts>>
      BY <1>3 DEF TimeOut, cloudVars, inboxVars
    <2>2. "offline_local" \in Modes
      BY DEF Modes
    <2> QED BY <2>1, <2>2, <1>e, UnreadyLeaves, KeepsOrForgets DEF Fence!Next
  <1>4. ASSUME NEW r \in References, Receive(h, r)
        PROVE  Fence!Next \/ UNCHANGED Fence!vars
    BY <1>4, ReceiveFences DEF Fence!Next
  <1>5. ASSUME NEW clean \in BOOLEAN, EndCycle(h, clean)
        PROVE  Fence!Next \/ UNCHANGED Fence!vars
    <2>u. UNCHANGED <<granted, references, receipts>>
      BY <1>5 DEF EndCycle, cloudVars, inboxVars
    <2>1. CASE hub[h].ready
      <3> DEFINE mode == CASE staged[h] # {} -> "synchronizing"
                           [] staged[h] = {} /\ clean -> "live"
                           [] OTHER -> "attention_required"
      <3>1. mode \in Modes
        BY DEF Modes
      <3>2. Persist(h, hub[h].epoch, mode, TRUE)
        BY <1>5, <2>1 DEF EndCycle
      <3> HIDE DEF mode
      <3>3. /\ state'[h].epoch \in {0, state[h].epoch}
            /\ \A g \in Hubs : g # h => state'[g].epoch = state[g].epoch
        BY <3>1, <3>2, <1>e, PersistLeaves
      <3> QED BY <3>3, <2>u, KeepsOrForgets DEF Fence!Next
    <2>2. CASE ~hub[h].ready
      BY <1>5, <2>2, <2>u, QuietFences DEF EndCycle
    <2> QED BY <2>1, <2>2
  <1> QED BY <1>1, <1>2, <1>3, <1>4, <1>5 DEF Cycle

LEMMA OperatorFences ==
    ASSUME Inv, NEW h \in Hubs, Operator(h)
    PROVE  UNCHANGED Fence!vars
  <1>t. TypeOK
    BY DEF Inv
  <1>1. CASE Restart(h)
    BY <1>1, QuietFences DEF Restart, cloudVars, inboxVars
  <1>2. CASE ReadState(h)
    BY <1>2, <1>t, ReadStateStep, QuietFences DEF ReadState, cloudVars, inboxVars
  <1>3. ASSUME NEW clean \in BOOLEAN, Reconcile(h, clean)
        PROVE  UNCHANGED Fence!vars
    <2>1. \A g \in Hubs : state'[g].epoch = state[g].epoch
      BY <1>3, <1>t, ReconcileStep
    <2>2. UNCHANGED <<granted, references, receipts>>
      BY <1>3 DEF Reconcile, cloudVars, inboxVars
    <2> QED BY <2>1, <2>2, QuietFences
  <1>4. ASSUME NEW r \in References, Retry(h, r)
        PROVE  UNCHANGED Fence!vars
    BY <1>4, QuietFences DEF Retry, cloudVars
  <1> QED BY <1>1, <1>2, <1>3, <1>4 DEF Operator

LEMMA CloudFences ==
    ASSUME Inv, Cloud
    PROVE  Fence!Next \/ UNCHANGED Fence!vars
  <1>1. CASE Expire
    BY <1>1, QuietFences DEF Expire, inboxVars
  <1>2. ASSUME NEW r \in References, CheckReference(r)
        PROVE  UNCHANGED Fence!vars
    BY <1>2, QuietFences DEF CheckReference, inboxVars
  <1>3. ASSUME NEW c \in checked, StoreReference(c[1], c[2])
        PROVE  Fence!Next \/ UNCHANGED Fence!vars
    <2>1. c[1] \in References /\ c[2] \in Epochs
      BY DEF Inv, TypeOK
    <2> QED BY <1>3, <2>1, StoreReferenceFences DEF Fence!Next
  <1>4. ASSUME NEW q \in wire, LoseRequest(q)
        PROVE  UNCHANGED Fence!vars
    BY <1>4, QuietFences DEF LoseRequest, cloudVars, inboxVars
  <1>5. ASSUME NEW q \in wire, NEW heard \in BOOLEAN, HandleAcquire(q, heard)
        PROVE  Fence!Next \/ UNCHANGED Fence!vars
    <2>1. q.hub \in Hubs
      BY DEF Inv, TypeOK
    <2> QED BY <1>5, <2>1, HandleAcquireFences DEF Fence!Next
  <1> QED BY <1>1, <1>2, <1>3, <1>4, <1>5 DEF Cloud

\* Leases, hubs and references implement Fencing: an epoch is granted to one
\* hub, a hub acts under an epoch granted to it, and nobody else takes what was
\* recorded under it.
THEOREM Fences == Spec => FencingSpec
  <1>1. Init => Fence!Init
    BY DEF Init, Fence!Init, known, taken
  <1>2. Inv /\ [Next]_vars => [Fence!Next]_Fence!vars
    <2> SUFFICES ASSUME Inv, [Next]_vars PROVE Fence!Next \/ UNCHANGED Fence!vars
      BY DEF Fence!vars
    <2>1. CASE Cloud
      BY <2>1, CloudFences
    <2>2. ASSUME NEW h \in Hubs, Cycle(h) \/ Operator(h)
          PROVE  Fence!Next \/ UNCHANGED Fence!vars
      BY <2>2, CycleFences, OperatorFences
    <2>3. CASE UNCHANGED vars
      BY <2>3, QuietFences DEF vars, cloudVars, inboxVars
    <2> QED BY <2>1, <2>2, <2>3 DEF Next
  <1> QED BY <1>1, <1>2, LeaseInvariance, PTL DEF Spec, Fence!Spec, FencingSpec

-----------------------------------------------------------------------------
(* The counter: its inductive invariant.                                    *)

InvoiceType == [status : Statuses, number : Nat, paid : Nat, due : Int]
Sold == Statuses \ {"none", "draft", "cancelled"}

\* The requests that ask for an invoice there is.
OnInvoice == {"issue", "cancel", "pay", "void"}

\* The type of the database, and of the open transactions.
RetailShape(d) ==
    /\ DOMAIN d = {"invoice", "next", "stock", "reversal", "booked"}
    /\ d.invoice \in [Invoices -> InvoiceType]
    /\ d.next \in Nat
    /\ d.stock \in [Products -> Int]
    /\ DOMAIN d.reversal = VoidKeys
    /\ d.booked \subseteq Requests

RetailWork ==
    /\ DOMAIN work \subseteq Workers
    /\ \A w \in DOMAIN work :
          /\ DOMAIN work[w] = {"op", "version", "at", "saw", "locked"}
          /\ work[w].op \in Requests
          /\ work[w].at \in Nat \ {0}

\* The invoices that have a number are as many as numbers were given.
Numbered == {i \in Invoices : db.invoice[i].status # "none"}
NumbersInv == IsFiniteSet(Numbered) /\ NumbersHaveNoGap

\* The number a request was given under its lock is the next one.
SequenceInv ==
    \A w \in DOMAIN work :
        /\ Sequence \in DOMAIN work[w].saw =>
              Sequence \in work[w].locked /\ work[w].saw[Sequence] = db.next
        /\ work[w].op.kind \in {"draft", "checkout"} /\ work[w].at > 1 =>
              Sequence \in DOMAIN work[w].saw

\* What a request other than an adjustment knows of the stock, it knows under a
\* lock: it is up to date.
StockInv ==
    \A w \in DOMAIN work : \A p \in Products :
        StockRow(p) \in DOMAIN work[w].saw =>
            /\ work[w].saw[StockRow(p)] \in Int
            /\ work[w].op.kind # "adjust" =>
                  /\ StockRow(p) \in work[w].locked
                  /\ work[w].saw[StockRow(p)] = db.stock[p]

\* A request has read the stock it changes.
StockReadInv ==
    \A w \in DOMAIN work :
        LET t == work[w]
        IN  /\ t.op.kind \in {"issue", "checkout"} /\ t.at > 2 =>
                  StockRow(Bill(t).product) \in DOMAIN t.saw
            /\ t.op.kind \in {"sell", "adjust"} /\ t.at > 1 =>
                  StockRow(t.op.product) \in DOMAIN t.saw

\* A request on an invoice has found one, and what its copy says of a sale is
\* so: a sale is never taken back.
CopyInv ==
    \A w \in DOMAIN work : work[w].op.kind \in OnInvoice =>
        LET t == work[w]
        IN  /\ db.invoice[t.op.invoice].status # "none"
            /\ t.at > 1 => InvoiceRow(t.op.invoice) \in DOMAIN t.saw
            /\ InvoiceRow(t.op.invoice) \in DOMAIN t.saw =>
                  /\ Copy(t) \in InvoiceType /\ Copy(t).status # "none"
                  /\ Copy(t).status \in Sold => SalesOf(t.op.invoice) # {}

\* An invoice that is not there was not sold, one that is paid for was, once.
SalesInv ==
    \A i \in Invoices :
        /\ \A r \in SalesOf(i) : \A s \in SalesOf(i) : r = s
        /\ db.invoice[i].status = "none" => SalesOf(i) = {}
        /\ db.invoice[i].status \in Sold => SalesOf(i) # {}

RetailInv ==
    /\ RetailShape(db) /\ RetailWork /\ NumbersInv /\ SequenceInv
    /\ StockInv /\ StockReadInv /\ CopyInv /\ SalesInv

-----------------------------------------------------------------------------
(* The queries of the counter.                                              *)

LEMMA RetailRequests ==
    ASSUME NEW op \in Requests
    PROVE  /\ op.kind \in {"draft", "issue", "checkout", "cancel", "pay", "void",
                           "sell", "adjust", "settle"}
           /\ op.kind \in {"draft", "checkout"} \cup OnInvoice => op.invoice \in Invoices
           /\ op.kind \in {"issue", "checkout", "pay"} => op.pay \in Nat
           /\ op.kind = "void" => op.key \in VoidKeys
           /\ op.kind \in {"sell", "adjust"} => op.product \in Products
           /\ op.kind = "sell" => op.quantity \in Nat \ {0}
           /\ op.kind = "adjust" => op.change \in Int
  BY HubRetailAssumption DEF OnInvoice

LEMMA LineFields ==
    ASSUME NEW i \in Invoices
    PROVE  /\ Line[i].product \in Products /\ Line[i].quantity \in Nat \ {0}
           /\ Line[i].total \in Nat \ {0}
  BY HubRetailAssumption

\* Rows of different tables, or of different keys, are different.
LEMMA RetailRowsDiffer ==
    ASSUME NEW x, NEW y
    PROVE  /\ StockRow(x) # Sequence /\ InvoiceRow(x) # Sequence
           /\ LedgerRow(x) # Sequence /\ VoidRow(x) # Sequence
           /\ StockRow(x) # InvoiceRow(y) /\ StockRow(x) # LedgerRow(y)
           /\ StockRow(x) # VoidRow(y)
           /\ StockRow(x) = StockRow(y) => x = y
           /\ InvoiceRow(x) = InvoiceRow(y) => x = y
  BY DEF StockRow, InvoiceRow, LedgerRow, VoidRow, Sequence

LEMMA RetailRows ==
    /\ Row(Sequence) = db.next
    /\ \A p \in Products : Row(StockRow(p)) = db.stock[p]
    /\ \A i \in Invoices : Row(InvoiceRow(i)) = db.invoice[i]
  BY DEF Row, Sequence, StockRow, InvoiceRow

LEMMA Joined ==
    ASSUME NEW a, NEW b, NEW c
    PROVE  /\ <<a>> \o (<<b>> \o <<c>>) = <<a, b, c>>
           /\ <<a>> \o (<<b>> \o <<>>) = <<a, b>>
  <1>1. PICK S : S = {a, b, c}
    OBVIOUS
  <1>2. ASSUME NEW s \in Seq(S), NEW x \in S
        PROVE  /\ <<x>> \o s \in Seq(S)
               /\ Len(<<x>> \o s) = Len(s) + 1
               /\ \A k \in 1..(Len(s) + 1) :
                     (<<x>> \o s)[k] = IF k = 1 THEN x ELSE s[k - 1]
    <2>1. <<x>> \in Seq(S) /\ Len(<<x>>) = 1 /\ <<x>>[1] = x
      OBVIOUS
    <2>2. PICK u \in Seq(S) : u = <<x>>
      BY <2>1
    <2>3. Len(u) = 1 /\ u[1] = x
      BY <2>1, <2>2
    <2>4. /\ u \o s \in Seq(S) /\ Len(u \o s) = Len(u) + Len(s)
          /\ \A k \in 1..(Len(u) + Len(s)) :
                (u \o s)[k] = IF k <= Len(u) THEN u[k] ELSE s[k - Len(u)]
      BY ConcatProperties
    <2>5. \A k \in 1..(Len(s) + 1) : (u \o s)[k] = IF k = 1 THEN x ELSE s[k - 1]
      BY <2>3, <2>4
    <2> QED BY <2>2, <2>3, <2>4, <2>5
  <1>3. ASSUME NEW x \in S PROVE <<x>> \o <<>> = <<x>>
    OBVIOUS
  <1>4. ASSUME NEW x \in S, NEW y \in S PROVE <<x>> \o <<y>> = <<x, y>>
    <2>0. <<y>> \in Seq(S)
      OBVIOUS
    <2>1. PICK s \in Seq(S) : s = <<y>>
      BY <2>0
    <2>2. Len(s) = 1 /\ s[1] = y
      BY <2>1
    <2>3. PICK u \in Seq(S) : u = <<x>> \o s
      BY <1>2
    <2>4. Len(u) = 2 /\ u[1] = x /\ u[2] = y
      BY <1>2, <2>2, <2>3
    <2>5. u = <<x, y>>
      BY <2>4
    <2> QED BY <2>1, <2>3, <2>5
  <1>5. <<a>> \o <<b, c>> = <<a, b, c>>
    <2> a \in S /\ b \in S /\ c \in S
      BY <1>1
    <2>0. <<b, c>> \in Seq(S)
      OBVIOUS
    <2>1. PICK s \in Seq(S) : s = <<b, c>>
      BY <2>0
    <2>2. Len(s) = 2 /\ s[1] = b /\ s[2] = c
      BY <2>1
    <2>3. PICK u \in Seq(S) : u = <<a>> \o s
      BY <1>1, <1>2
    <2>4. Len(u) = 3 /\ u[1] = a /\ u[2] = b /\ u[3] = c
      BY <1>1, <1>2, <2>2, <2>3
    <2>5. u = <<a, b, c>>
      BY <2>4
    <2> QED BY <2>1, <2>3, <2>5
  <1> QED BY <1>1, <1>3, <1>4, <1>5

\* What a list of two or three has at each place.
LEMMA PlacesOf ==
    ASSUME NEW a, NEW b, NEW c, NEW s, s = <<a, b, c>> \/ s = <<a, b>>,
           NEW k \in Nat \ {0}, k <= Len(s)
    PROVE  k \in 1..3 /\ (k = 1 => s[k] = a) /\ (k = 2 => s[k] = b) /\ (k = 3 => s[k] = c)
  OBVIOUS

\* The queries of a sale: the stock it takes from is the second of them.
LEMMA SaleQueries ==
    ASSUME NEW t
    PROVE  /\ IssueQueries(t) =
                IF OnCredit(t)
                THEN <<Find({InvoiceRow(t.op.invoice)}), Take({StockRow(Bill(t).product)}),
                       Find({LedgerRow(Bill(t).customer)})>>
                ELSE <<Find({InvoiceRow(t.op.invoice)}), Take({StockRow(Bill(t).product)})>>
           /\ CheckoutQueries(t) =
                IF OnCredit(t)
                THEN <<Take({Sequence}), Take({StockRow(Bill(t).product)}),
                       Find({LedgerRow(Bill(t).customer)})>>
                ELSE <<Take({Sequence}), Take({StockRow(Bill(t).product)})>>
  <1>1. PICK a : a = Find({InvoiceRow(t.op.invoice)})
    OBVIOUS
  <1>2. PICK s : s = Take({Sequence})
    OBVIOUS
  <1>3. PICK b : b = Take({StockRow(Bill(t).product)})
    OBVIOUS
  <1>4. PICK c : c = Find({LedgerRow(Bill(t).customer)})
    OBVIOUS
  <1>5. GoodsQueries(t) = <<b>> \o IF OnCredit(t) THEN <<c>> ELSE <<>>
    BY <1>3, <1>4 DEF GoodsQueries
  <1>6. IssueQueries(t) = <<a>> \o GoodsQueries(t) /\ CheckoutQueries(t) = <<s>> \o GoodsQueries(t)
    BY <1>1, <1>2 DEF IssueQueries, CheckoutQueries, DraftQueries
  <1>7. CASE OnCredit(t)
    <2>1. GoodsQueries(t) = <<b>> \o <<c>>
      BY <1>5, <1>7
    <2>2. <<a>> \o GoodsQueries(t) = <<a, b, c>> /\ <<s>> \o GoodsQueries(t) = <<s, b, c>>
      BY <2>1, Joined
    <2> QED BY <1>1, <1>2, <1>3, <1>4, <1>6, <1>7, <2>2
  <1>8. CASE ~OnCredit(t)
    <2>1. GoodsQueries(t) = <<b>> \o <<>>
      BY <1>5, <1>8
    <2>2. <<a>> \o GoodsQueries(t) = <<a, b>> /\ <<s>> \o GoodsQueries(t) = <<s, b>>
      BY <2>1, Joined
    <2> QED BY <1>1, <1>2, <1>3, <1>4, <1>6, <1>8, <2>2
  <1> QED BY <1>7, <1>8

\* Sales and numbers lock what they read; nothing is read again.
Locking(t, q) ==
    /\ q.refresh = FALSE
    /\ Sequence \in q.look => Sequence \in q.lock
    /\ t.op.kind # "adjust" =>
          \A p \in Products : StockRow(p) \in q.look => StockRow(p) \in q.lock

LEMMA LockingForms ==
    ASSUME NEW t
    PROVE  /\ \A rows : Locking(t, Take(rows))
           /\ \A x : Locking(t, Find({InvoiceRow(x)})) /\ Locking(t, Find({LedgerRow(x)}))
           /\ \A x, y : Locking(t, Find({InvoiceRow(x), VoidRow(y)}))
           /\ \A x : t.op.kind = "adjust" => Locking(t, Find({StockRow(x)}))
  BY RetailRowsDiffer DEF Locking, Find, Take

\* What each request asks, and when.
LEMMA RetailQueries ==
    ASSUME NEW t, t.op \in Requests, t.at \in Nat \ {0}, t.at <= Len(Queries(t))
    PROVE  LET q == Queries(t)[t.at]
           IN  /\ Locking(t, q)
               /\ t.op.kind \in {"draft", "checkout"} /\ t.at = 1 => Sequence \in q.look
               /\ t.op.kind \in {"issue", "checkout"} /\ t.at = 2 =>
                     StockRow(Bill(t).product) \in q.look
               /\ t.op.kind \in {"sell", "adjust"} /\ t.at = 1 =>
                     StockRow(t.op.product) \in q.look
               /\ t.op.kind \in OnInvoice /\ t.at = 1 => InvoiceRow(t.op.invoice) \in q.look
  <1>q. PICK q : q = Queries(t)[t.at]
    OBVIOUS
  <1>1. CASE t.op.kind = "draft"
    <2>1. q = Take({Sequence}) /\ t.at = 1
      BY <1>q, <1>1 DEF Queries, DraftQueries
    <2>2. Locking(t, q) /\ q.look = {Sequence}
      BY <2>1, LockingForms DEF Take
    <2> QED BY <1>q, <1>1, <2>1, <2>2 DEF OnInvoice
  <1>2. CASE t.op.kind = "issue"
    <2>1. /\ t.at \in 1..3
          /\ t.at = 1 => q = Find({InvoiceRow(t.op.invoice)})
          /\ t.at = 2 => q = Take({StockRow(Bill(t).product)})
          /\ t.at = 3 => q = Find({LedgerRow(Bill(t).customer)})
      <3>1. PICK a : a = Find({InvoiceRow(t.op.invoice)})
        OBVIOUS
      <3>2. PICK b : b = Take({StockRow(Bill(t).product)})
        OBVIOUS
      <3>3. PICK c : c = Find({LedgerRow(Bill(t).customer)})
        OBVIOUS
      <3>4. PICK s : s = Queries(t)
        OBVIOUS
      <3>5. s = <<a, b, c>> \/ s = <<a, b>>
        BY <1>2, <3>1, <3>2, <3>3, <3>4, SaleQueries DEF Queries
      <3>6. t.at \in Nat \ {0} /\ t.at <= Len(s) /\ q = s[t.at]
        BY <1>q, <3>4
      <3> QED BY <3>1, <3>2, <3>3, <3>5, <3>6, PlacesOf
    <2>2. Locking(t, q)
      <3>1. \/ q = Find({InvoiceRow(t.op.invoice)}) \/ q = Take({StockRow(Bill(t).product)})
            \/ q = Find({LedgerRow(Bill(t).customer)})
        BY <2>1
      <3> QED BY <3>1, LockingForms
    <2>3. /\ t.at = 1 => q.look = {InvoiceRow(t.op.invoice)}
          /\ t.at = 2 => q.look = {StockRow(Bill(t).product)}
      BY <2>1 DEF Find, Take
    <2> QED BY <1>q, <1>2, <2>2, <2>3
  <1>3. CASE t.op.kind = "checkout"
    <2>1. /\ t.at \in 1..3
          /\ t.at = 1 => q = Take({Sequence})
          /\ t.at = 2 => q = Take({StockRow(Bill(t).product)})
          /\ t.at = 3 => q = Find({LedgerRow(Bill(t).customer)})
      <3>1. PICK a : a = Take({Sequence})
        OBVIOUS
      <3>2. PICK b : b = Take({StockRow(Bill(t).product)})
        OBVIOUS
      <3>3. PICK c : c = Find({LedgerRow(Bill(t).customer)})
        OBVIOUS
      <3>4. PICK s : s = Queries(t)
        OBVIOUS
      <3>5. s = <<a, b, c>> \/ s = <<a, b>>
        BY <1>3, <3>1, <3>2, <3>3, <3>4, SaleQueries DEF Queries
      <3>6. t.at \in Nat \ {0} /\ t.at <= Len(s) /\ q = s[t.at]
        BY <1>q, <3>4
      <3> QED BY <3>1, <3>2, <3>3, <3>5, <3>6, PlacesOf
    <2>2. Locking(t, q)
      <3>1. \/ q = Take({Sequence}) \/ q = Take({StockRow(Bill(t).product)})
            \/ q = Find({LedgerRow(Bill(t).customer)})
        BY <2>1
      <3> QED BY <3>1, LockingForms
    <2>3. /\ t.at = 1 => q.look = {Sequence}
          /\ t.at = 2 => q.look = {StockRow(Bill(t).product)}
      BY <2>1 DEF Take
    <2> QED BY <1>q, <1>3, <2>2, <2>3 DEF OnInvoice
  <1>4. CASE t.op.kind \in {"cancel", "pay"}
    <2>1. q = Find({InvoiceRow(t.op.invoice)})
      BY <1>q, <1>4 DEF Queries, CopyQueries
    <2>2. Locking(t, q) /\ q.look = {InvoiceRow(t.op.invoice)}
      BY <2>1, LockingForms DEF Find
    <2> QED BY <1>q, <1>4, <2>2
  <1>5. CASE t.op.kind = "void"
    <2>1. q = Find({InvoiceRow(t.op.invoice), VoidRow(t.op.key)})
      BY <1>q, <1>5 DEF Queries, VoidQueries
    <2>2. Locking(t, q) /\ InvoiceRow(t.op.invoice) \in q.look
      BY <2>1, LockingForms DEF Find
    <2> QED BY <1>q, <1>5, <2>2
  <1>6. CASE t.op.kind = "sell"
    <2>1. q = Take({StockRow(t.op.product)})
      BY <1>q, <1>6 DEF Queries, SellQueries
    <2>2. Locking(t, q) /\ q.look = {StockRow(t.op.product)}
      BY <2>1, LockingForms DEF Take
    <2> QED BY <1>q, <1>6, <2>2 DEF OnInvoice
  <1>7. CASE t.op.kind = "adjust"
    <2>1. q = Find({StockRow(t.op.product)})
      BY <1>q, <1>7 DEF Queries, AdjustQueries
    <2>2. Locking(t, q) /\ q.look = {StockRow(t.op.product)}
      BY <1>7, <2>1, LockingForms DEF Find
    <2> QED BY <1>q, <1>7, <2>2 DEF OnInvoice
  <1>8. CASE t.op.kind = "settle"
    BY <1>8 DEF Queries
  <1> QED BY <1>1, <1>2, <1>3, <1>4, <1>5, <1>6, <1>7, <1>8, <1>q, RetailRequests

\* A sale that commits has asked for the stock.
LEMMA SaleIsLast ==
    ASSUME NEW t, t.op.kind \in {"issue", "checkout"}, t.at \in Nat, t.at > Len(Queries(t))
    PROVE  t.at > 2 /\ t.at > 1
  <1>1. PICK s : s = Queries(t)
    OBVIOUS
  <1>2. \E a, b, c : s = <<a, b, c>> \/ s = <<a, b>>
    BY <1>1, SaleQueries DEF Queries
  <1>3. Len(s) \in {2, 3}
    BY <1>2
  <1>4. PICK n \in {2, 3} : n = Len(s)
    BY <1>3
  <1>5. t.at > n
    BY <1>1, <1>4
  <1> QED BY <1>4, <1>5

-----------------------------------------------------------------------------
(* The steps of the counter that read.                                      *)

LEMMA BooksAreKept ==
    ASSUME NumbersInv, SalesInv, db' = db
    PROVE  NumbersInv' /\ SalesInv'
  <1>1. NumbersInv'
    BY DEF NumbersInv, NumbersHaveNoGap, Numbered
  <1>2. SalesInv'
    BY DEF SalesInv, SalesOf, Booked
  <1> QED BY <1>1, <1>2

LEMMA RetailBeginKeeps ==
    ASSUME RetailInv, NEW w \in Workers, Begin(w)
    PROVE  RetailInv'
  <1>1. PICK op \in Requests : /\ w \notin DOMAIN work /\ db' = db
                               /\ op.kind \in OnInvoice => db.invoice[op.invoice].status # "none"
                               /\ OpenTxn(w, op, 0)
    BY DEF Begin, OnInvoice
  <1> DEFINE t == [op |-> op, version |-> 0, at |-> 1, saw |-> <<>>, locked |-> {}]
  <1>2. /\ DOMAIN work' = DOMAIN work \cup {w}
        /\ work'[w] = t
        /\ \A v \in DOMAIN work : work'[v] = work[v]
    BY <1>1 DEF OpenTxn
  <1>3. DOMAIN t.saw = {} /\ t.locked = {} /\ t.at = 1 /\ t.op = op
        /\ DOMAIN t = {"op", "version", "at", "saw", "locked"}
    OBVIOUS
  <1> HIDE DEF t
  <1>4. RetailShape(db)' /\ RetailWork'
    BY <1>1, <1>2, <1>3 DEF RetailInv, RetailWork, RetailShape
  <1>5. SequenceInv' /\ StockInv' /\ StockReadInv'
    BY <1>1, <1>2, <1>3 DEF RetailInv, SequenceInv, StockInv, StockReadInv, Bill
  <1>6. CopyInv'
    BY <1>1, <1>2, <1>3 DEF RetailInv, CopyInv, Copy, SalesOf, Booked
  <1>7. NumbersInv' /\ SalesInv'
    BY <1>1, BooksAreKept DEF RetailInv
  <1> QED BY <1>4, <1>5, <1>6, <1>7 DEF RetailInv

LEMMA RetailRollBackKeeps ==
    ASSUME RetailInv, NEW w \in Workers, RollBack(w)
    PROVE  RetailInv'
  <1>1. /\ DOMAIN work' = DOMAIN work \ {w} /\ db' = db
        /\ \A v \in DOMAIN work' : work'[v] = work[v]
    BY DEF RollBack, EndTxn
  <1>2. RetailShape(db)' /\ RetailWork'
    BY <1>1 DEF RetailInv, RetailWork, RetailShape
  <1>3. SequenceInv' /\ StockInv' /\ StockReadInv'
    BY <1>1 DEF RetailInv, SequenceInv, StockInv, StockReadInv, Bill
  <1>4. CopyInv'
    BY <1>1 DEF RetailInv, CopyInv, Copy, SalesOf, Booked
  <1>5. NumbersInv' /\ SalesInv'
    BY <1>1, BooksAreKept DEF RetailInv
  <1> QED BY <1>2, <1>3, <1>4, <1>5 DEF RetailInv

LEMMA RetailQueryKeeps ==
    ASSUME RetailInv, NEW w \in Workers, Query(w)
    PROVE  RetailInv'
  <1> DEFINE t == work[w]
             q == Queries(t)[t.at]
             found == [r \in q.look |-> Row(r)]
             saw == Over(t.saw, found)
  <1>1. /\ w \in DOMAIN work /\ t.at <= Len(Queries(t)) /\ db' = db
        /\ Load(w, q.lock, found, q.refresh)
    BY DEF Query
  <1>2. /\ DOMAIN t = {"op", "version", "at", "saw", "locked"}
        /\ t.op \in Requests /\ t.at \in Nat \ {0}
    BY <1>1 DEF RetailInv, RetailWork
  <1>3. Locking(t, q)
    BY <1>1, <1>2, RetailQueries
  <1>4. /\ DOMAIN work' = DOMAIN work
        /\ \A v \in DOMAIN work : v # w => work'[v] = work[v]
        /\ DOMAIN work'[w] = DOMAIN t
        /\ work'[w].op = t.op /\ work'[w].at = t.at + 1
        /\ work'[w].locked = t.locked \cup q.lock
        /\ work'[w].saw = saw
    BY <1>1, <1>2, <1>3 DEF Load, Locking
  <1>5. /\ DOMAIN saw = DOMAIN t.saw \cup q.look
        /\ \A r \in DOMAIN t.saw : saw[r] = t.saw[r]
        /\ \A r \in q.look : r \notin DOMAIN t.saw => saw[r] = Row(r)
    BY DEF Over
  <1>6. /\ t.op.kind \in {"draft", "checkout"} /\ t.at = 1 => Sequence \in q.look
        /\ t.op.kind \in {"issue", "checkout"} /\ t.at = 2 =>
              StockRow(Bill(t).product) \in q.look
        /\ t.op.kind \in {"sell", "adjust"} /\ t.at = 1 => StockRow(t.op.product) \in q.look
        /\ t.op.kind \in OnInvoice /\ t.at = 1 => InvoiceRow(t.op.invoice) \in q.look
    BY <1>1, <1>2, RetailQueries
  <1> HIDE DEF saw, found, q
  <1>7. RetailShape(db)' /\ RetailWork'
    <2>1. RetailShape(db)'
      BY <1>1 DEF RetailInv, RetailShape
    <2>2. t.at + 1 \in Nat \ {0}
      BY <1>2
    <2>3. RetailWork'
      BY <1>2, <1>4, <2>2 DEF RetailInv, RetailWork
    <2> QED BY <2>1, <2>3
  <1>8. SequenceInv'
    <2>1. Sequence \in DOMAIN saw =>
             Sequence \in t.locked \cup q.lock /\ saw[Sequence] = db.next
      BY <1>1, <1>3, <1>5, RetailRows DEF RetailInv, SequenceInv, Locking
    <2>2. t.op.kind \in {"draft", "checkout"} /\ t.at + 1 > 1 => Sequence \in DOMAIN saw
      BY <1>1, <1>2, <1>5, <1>6 DEF RetailInv, SequenceInv
    <2> QED BY <1>1, <1>4, <2>1, <2>2 DEF RetailInv, SequenceInv
  <1>9. StockInv'
    <2>1. ASSUME NEW p \in Products, StockRow(p) \in DOMAIN saw
          PROVE  /\ saw[StockRow(p)] \in Int
                 /\ t.op.kind # "adjust" => /\ StockRow(p) \in t.locked \cup q.lock
                                            /\ saw[StockRow(p)] = db.stock[p]
      <3>1. db.stock[p] \in Int
        BY DEF RetailInv, RetailShape
      <3>2. CASE StockRow(p) \in DOMAIN t.saw
        BY <1>1, <1>5, <3>2 DEF RetailInv, StockInv
      <3>3. CASE StockRow(p) \notin DOMAIN t.saw
        BY <1>3, <1>5, <2>1, <3>1, <3>3, RetailRows DEF Locking
      <3> QED BY <3>2, <3>3
    <2> QED BY <1>1, <1>4, <2>1 DEF RetailInv, StockInv
  <1>10. StockReadInv'
    <2>1. t.op.kind \in {"issue", "checkout"} /\ t.at + 1 > 2 =>
             StockRow(Bill(t).product) \in DOMAIN saw
      BY <1>1, <1>2, <1>5, <1>6 DEF RetailInv, StockReadInv
    <2>2. t.op.kind \in {"sell", "adjust"} /\ t.at + 1 > 1 =>
             StockRow(t.op.product) \in DOMAIN saw
      BY <1>1, <1>2, <1>5, <1>6 DEF RetailInv, StockReadInv
    <2> QED BY <1>1, <1>4, <2>1, <2>2 DEF RetailInv, StockReadInv, Bill
  <1>11. CopyInv'
    <2>1. ASSUME t.op.kind \in OnInvoice
          PROVE  LET copy == saw[InvoiceRow(t.op.invoice)]
                 IN  /\ InvoiceRow(t.op.invoice) \in DOMAIN saw
                     /\ copy \in InvoiceType /\ copy.status # "none"
                     /\ copy.status \in Sold => SalesOf(t.op.invoice) # {}
      <3>1. t.op.invoice \in Invoices
        BY <1>2, <2>1, RetailRequests
      <3>2. InvoiceRow(t.op.invoice) \in DOMAIN saw
        BY <1>1, <1>2, <1>5, <1>6, <2>1 DEF RetailInv, CopyInv
      <3>3. CASE InvoiceRow(t.op.invoice) \in DOMAIN t.saw
        BY <1>1, <1>5, <2>1, <3>2, <3>3 DEF RetailInv, CopyInv, Copy
      <3>4. CASE InvoiceRow(t.op.invoice) \notin DOMAIN t.saw
        <4>1. saw[InvoiceRow(t.op.invoice)] = db.invoice[t.op.invoice]
          BY <1>5, <3>1, <3>2, <3>4, RetailRows
        <4>2. db.invoice[t.op.invoice].status # "none"
          BY <1>1, <2>1 DEF RetailInv, CopyInv
        <4> QED BY <3>1, <3>2, <4>1, <4>2 DEF RetailInv, RetailShape, SalesInv
      <3> QED BY <3>3, <3>4
    <2>2. \A i : SalesOf(i)' = SalesOf(i)
      BY <1>1 DEF SalesOf, Booked
    <2> QED BY <1>1, <1>4, <2>1, <2>2 DEF RetailInv, CopyInv, Copy
  <1>12. NumbersInv' /\ SalesInv'
    BY <1>1, BooksAreKept DEF RetailInv
  <1> QED BY <1>7, <1>8, <1>9, <1>10, <1>11, <1>12 DEF RetailInv

-----------------------------------------------------------------------------
(* What the counter writes.                                                 *)

\* What a commit leaves to the requests that are still underway: it changes a
\* number or a stock that nobody else has locked, and forgets nothing.
RetailKeeps(next, written) ==
    /\ RetailShape(next)
    /\ next.next # db.next => Sequence \in written
    /\ \A p \in Products : next.stock[p] # db.stock[p] => StockRow(p) \in written
    /\ \A i \in Invoices : db.invoice[i].status # "none" => next.invoice[i].status # "none"
    /\ db.booked \subseteq next.booked

LEMMA RetailCommitKeeps ==
    ASSUME RetailInv, NEW w \in DOMAIN work, NEW next, NEW written,
           CommitTxn(w, written, next), RetailKeeps(next, written)
    PROVE  /\ RetailShape(db)' /\ RetailWork' /\ SequenceInv'
           /\ StockInv' /\ StockReadInv' /\ CopyInv'
  <1>1. /\ DOMAIN work' = DOMAIN work \ {w} /\ db' = next
        /\ \A v \in DOMAIN work' : work'[v] = work[v]
    BY DEF CommitTxn, EndTxn
  <1>2. \A v \in DOMAIN work' : \A r \in written : r \notin work[v].locked
    BY <1>1 DEF CommitTxn, Free
  <1>3. RetailShape(db)'
    BY <1>1 DEF RetailKeeps, RetailShape
  <1>4. RetailWork'
    BY <1>1 DEF RetailInv, RetailWork
  <1>5. SequenceInv'
    BY <1>1, <1>2 DEF RetailInv, SequenceInv, RetailKeeps
  <1>6. StockInv'
    BY <1>1, <1>2 DEF RetailInv, StockInv, RetailKeeps
  <1>7. StockReadInv'
    BY <1>1 DEF RetailInv, StockReadInv, Bill
  <1>8. CopyInv'
    <2>1. ASSUME NEW i, SalesOf(i) # {} PROVE SalesOf(i)' # {}
      BY <1>1, <2>1 DEF SalesOf, Booked, RetailKeeps
    <2>2. ASSUME NEW v \in DOMAIN work, work[v].op.kind \in OnInvoice
          PROVE  next.invoice[work[v].op.invoice].status # "none"
      <3>1. work[v].op.invoice \in Invoices
        BY <2>2, RetailRequests DEF RetailInv, RetailWork
      <3> QED BY <2>2, <3>1 DEF RetailInv, CopyInv, RetailKeeps
    <2>3. \A v \in DOMAIN work' : v \in DOMAIN work /\ work'[v] = work[v]
      BY <1>1
    <2> QED BY <1>1, <2>1, <2>2, <2>3 DEF RetailInv, CopyInv, Copy
  <1> QED BY <1>3, <1>4, <1>5, <1>6, <1>7, <1>8

LEMMA RetailWritesFacts ==
    ASSUME RetailInv, NEW w \in Workers, NEW kind, Writes(w, kind)
    PROVE  /\ w \in DOMAIN work /\ work[w].op \in Requests /\ work[w].op.kind = kind
           /\ work[w].at \in Nat \ {0} /\ work[w].at > Len(Queries(work[w]))
           /\ GoesOn(work[w]) /\ work[w].op \notin db.booked
  BY DEF Writes, RetailInv, RetailWork

LEMMA StatusForIsSold ==
    ASSUME NEW i \in Invoices, NEW paid \in Nat
    PROVE  StatusFor(Line[i], paid) \in Sold
  BY LineFields DEF StatusFor, Sold, Statuses

LEMMA PaidIs ==
    ASSUME NEW i \in Invoices, NEW invoice \in InvoiceType, NEW paid \in Nat
    PROVE  /\ Paid(i, invoice, paid) \in InvoiceType
           /\ Paid(i, invoice, paid).status \in Sold
           /\ Paid(i, invoice, paid).number = invoice.number
  <1>1. PICK s \in Sold : s = StatusFor(Line[i], paid)
    BY StatusForIsSold
  <1>2. PICK due \in Int : due = Line[i].total - paid
    BY LineFields
  <1>3. Paid(i, invoice, paid) = [invoice EXCEPT !.status = s, !.paid = paid, !.due = due]
    BY <1>1, <1>2 DEF Paid
  <1>4. s \in Statuses
    BY DEF Sold
  <1> QED BY <1>3, <1>4 DEF InvoiceType

\* An UPDATE writes a status that is new and leaves a number that is not.
LEMMA WrittenIs ==
    ASSUME NEW row \in InvoiceType, NEW copy \in InvoiceType, NEW new \in InvoiceType,
           new.number = copy.number
    PROVE  /\ Written(row, copy, new) \in InvoiceType
           /\ Written(row, copy, new).number = row.number
           /\ Written(row, copy, new).status =
                IF new.status # copy.status THEN new.status ELSE row.status
  <1>1. DOMAIN row = {"status", "number", "paid", "due"}
    BY DEF InvoiceType
  <1>2. PICK x : x = Written(row, copy, new)
    OBVIOUS
  <1>3. /\ x = [c \in {"status", "number", "paid", "due"} |->
                  IF new[c] # copy[c] THEN new[c] ELSE row[c]]
    BY <1>1, <1>2 DEF Written
  <1>4. /\ x.status = IF new.status # copy.status THEN new.status ELSE row.status
        /\ x.number = row.number
        /\ x.paid = new.paid \/ x.paid = row.paid
        /\ x.due = new.due \/ x.due = row.due
    BY <1>3
  <1>5. x = [status |-> x.status, number |-> x.number, paid |-> x.paid, due |-> x.due]
    BY <1>3
  <1>6. /\ x.status \in Statuses /\ x.number \in Nat /\ x.paid \in Nat /\ x.due \in Int
    BY <1>4 DEF InvoiceType
  <1>7. x \in InvoiceType
    BY <1>5, <1>6 DEF InvoiceType
  <1> QED BY <1>2, <1>4, <1>7

-----------------------------------------------------------------------------
(* The books of the counter: numbers and sales.                             *)

\* The numbers are untouched.
LEMMA NumbersKept ==
    ASSUME NumbersInv, db'.next = db.next,
           \A i \in Invoices :
              /\ db'.invoice[i].number = db.invoice[i].number
              /\ db'.invoice[i].status = "none" <=> db.invoice[i].status = "none"
    PROVE  NumbersInv'
  <1>1. Numbered' = Numbered
    BY DEF Numbered
  <1>2. {db.invoice[i].number : i \in Numbered}' = {db.invoice[i].number : i \in Numbered}
    <2>1. \A i \in Numbered : db'.invoice[i].number = db.invoice[i].number
      BY DEF Numbered
    <2> QED BY <1>1, <2>1
  <1> QED BY <1>1, <1>2 DEF NumbersInv, NumbersHaveNoGap, Numbered

\* One invoice gets the next number.
LEMMA NumberGiven ==
    ASSUME NumbersInv, NEW i \in Invoices,
           db.invoice[i].status = "none",
           db'.invoice[i].status # "none", db'.invoice[i].number = db.next,
           db'.next = db.next + 1,
           \A j \in Invoices \ {i} : db'.invoice[j] = db.invoice[j]
    PROVE  NumbersInv'
  <1> DEFINE n == Cardinality(Numbered)
  <1>1. Numbered' = Numbered \cup {i} /\ i \notin Numbered
    BY DEF Numbered
  <1>2. IsFiniteSet(Numbered) /\ n \in Nat
    BY FS_CardinalityType DEF NumbersInv
  <1>3. IsFiniteSet(Numbered') /\ Cardinality(Numbered') = n + 1
    BY <1>1, <1>2, FS_AddElement
  <1>4. {db.invoice[j].number : j \in Numbered} = 1..n /\ db.next = n + 1
    BY DEF NumbersInv, NumbersHaveNoGap, Numbered
  <1>5. {db'.invoice[j].number : j \in Numbered'} = 1..(n + 1)
    <2>1. \A j \in Numbered : db'.invoice[j].number = db.invoice[j].number
      BY <1>1 DEF Numbered
    <2>2. {db'.invoice[j].number : j \in Numbered'}
            = {db.invoice[j].number : j \in Numbered} \cup {n + 1}
      BY <1>1, <1>4, <2>1
    <2>3. (1..n) \cup {n + 1} = 1..(n + 1)
      BY <1>2
    <2> QED BY <1>4, <2>2, <2>3
  <1>6. db'.next = Cardinality(Numbered') + 1
    BY <1>3, <1>4
  <1> QED BY <1>3, <1>5, <1>6 DEF NumbersInv, NumbersHaveNoGap, Numbered

\* Nothing is sold, and an invoice counts as sold only if it was.
LEMMA SalesKept ==
    ASSUME SalesInv, \A i \in Invoices : SalesOf(i)' = SalesOf(i),
           \A i \in Invoices :
              /\ db'.invoice[i].status = "none" => db.invoice[i].status = "none"
              /\ db'.invoice[i].status \in Sold =>
                    db.invoice[i].status \in Sold \/ SalesOf(i) # {}
    PROVE  SalesInv'
  <1> SUFFICES ASSUME NEW i \in Invoices
               PROVE  /\ \A r \in SalesOf(i) : \A s \in SalesOf(i) : r = s
                      /\ db'.invoice[i].status = "none" => SalesOf(i) = {}
                      /\ db'.invoice[i].status \in Sold => SalesOf(i) # {}
    BY DEF SalesInv
  <1> QED BY DEF SalesInv

\* The request op sells an invoice that was not sold.
LEMMA SaleAdded ==
    ASSUME SalesInv, NEW op, op.kind \in {"issue", "checkout"}, op.invoice \in Invoices,
           SalesOf(op.invoice) = {}, db'.booked = db.booked \cup {op},
           db'.invoice[op.invoice].status # "none",
           \A j \in Invoices \ {op.invoice} : db'.invoice[j] = db.invoice[j]
    PROVE  SalesInv'
  <1>1. SalesOf(op.invoice)' = {op}
    BY DEF SalesOf, Booked
  <1>2. \A j \in Invoices \ {op.invoice} : SalesOf(j)' = SalesOf(j)
    BY DEF SalesOf, Booked
  <1> SUFFICES ASSUME NEW i \in Invoices
               PROVE  /\ \A r \in SalesOf(i)' : \A s \in SalesOf(i)' : r = s
                      /\ db'.invoice[i].status = "none" => SalesOf(i)' = {}
                      /\ db'.invoice[i].status \in Sold => SalesOf(i)' # {}
    BY DEF SalesInv
  <1>3. CASE i = op.invoice
    BY <1>1, <1>3
  <1>4. CASE i # op.invoice
    BY <1>2, <1>4 DEF SalesInv
  <1> QED BY <1>3, <1>4

\* A request that sells no invoice leaves the sales of invoices alone.
LEMMA NoSale ==
    ASSUME NEW op, \/ db'.booked = db.booked
                   \/ /\ db'.booked = db.booked \cup {op}
                      /\ op.kind \notin {"issue", "checkout"}
    PROVE  \A i \in Invoices : SalesOf(i)' = SalesOf(i)
  BY DEF SalesOf, Booked

-----------------------------------------------------------------------------
(* Drafts and sales.                                                        *)

LEMMA DraftedIs ==
    ASSUME NEW i \in Invoices, NEW number \in Nat
    PROVE  /\ Drafted(i, number) \in InvoiceType
           /\ Drafted(i, number).status = "draft" /\ Drafted(i, number).number = number
  BY LineFields DEF Drafted, InvoiceType, Statuses

\* Who drafts an invoice was given the next number.
LEMMA NumberIsNext ==
    ASSUME RetailInv, NEW w \in DOMAIN work, work[w].op.kind \in {"draft", "checkout"},
           work[w].at > Len(Queries(work[w]))
    PROVE  work[w].saw[Sequence] = db.next /\ db.next \in Nat
  <1> DEFINE t == work[w]
  <1>1. t.at > 1 /\ t.at \in Nat
    <2>1. t.at \in Nat /\ t.op \in Requests
      BY DEF RetailInv, RetailWork
    <2>2. CASE t.op.kind = "draft"
      BY <2>1, <2>2 DEF Queries, DraftQueries
    <2>3. CASE t.op.kind = "checkout"
      BY <2>1, <2>3, SaleIsLast
    <2> QED BY <2>1, <2>2, <2>3
  <1>2. Sequence \in DOMAIN t.saw
    BY <1>1 DEF RetailInv, SequenceInv
  <1> QED BY <1>2 DEF RetailInv, SequenceInv, RetailShape

\* The goods of a sale are there: its copy of the stock is the stock.
LEMMA GoodsAreThere ==
    ASSUME RetailInv, NEW w \in DOMAIN work, work[w].op.kind \in {"issue", "checkout"},
           work[w].at > Len(Queries(work[w])), GoesOn(work[w])
    PROVE  LET t == work[w]
               p == Bill(t).product
           IN  /\ t.op.invoice \in Invoices /\ t.op.pay \in Nat /\ p \in Products
               /\ t.saw[StockRow(p)] = db.stock[p]
               /\ db.stock[p] - Bill(t).quantity \in Nat
  <1> DEFINE t == work[w]
  <1>1. t.op \in Requests /\ t.op.invoice \in Invoices /\ t.op.pay \in Nat
    <2>1. t.op \in Requests
      BY DEF RetailInv, RetailWork
    <2> QED BY <2>1, RetailRequests DEF OnInvoice
  <1>2. t.at > 2
    BY <1>1, SaleIsLast DEF RetailInv, RetailWork
  <1>3. PICK p \in Products : p = Bill(t).product
    BY <1>1, LineFields DEF Bill
  <1>4. StockRow(p) \in DOMAIN t.saw
    BY <1>2, <1>3 DEF RetailInv, StockReadInv
  <1>5. t.saw[StockRow(p)] = db.stock[p] /\ db.stock[p] \in Int
    BY <1>4 DEF RetailInv, StockInv, RetailShape
  <1>6. Bill(t).quantity \in Nat
    BY <1>1, LineFields DEF Bill
  <1>7. Bill(t).quantity <= t.saw[StockRow(p)]
    <2>1. GoodsGoOn(t)
      BY DEF GoesOn, IssueGoesOn
    <2> QED BY <1>2, <1>3, <2>1 DEF GoodsGoOn
  <1>8. db.stock[p] - Bill(t).quantity \in Nat
    BY <1>5, <1>6, <1>7
  <1> QED BY <1>1, <1>3, <1>5, <1>8

\* The fields of a database in which an invoice is drafted, or issued.
LEMMA DraftFields ==
    ASSUME NEW t, NEW n, n = t.saw[Sequence], RetailShape(db), t.op.invoice \in Invoices, n \in Nat
    PROVE  /\ RetailShape(DraftEffect(t))
           /\ DraftEffect(t).invoice =
                 [db.invoice EXCEPT ![t.op.invoice] = Drafted(t.op.invoice, n)]
           /\ DraftEffect(t).next = n + 1
           /\ DraftEffect(t).stock = db.stock /\ DraftEffect(t).booked = db.booked
  <1>1. PICK i \in Invoices : i = t.op.invoice
    OBVIOUS
  <1>2. PICK row \in InvoiceType : row = Drafted(i, n)
    BY DraftedIs
  <1>3. PICK next : next = [db EXCEPT !.invoice[i] = row, !.next = n + 1]
    OBVIOUS
  <1>4. DraftEffect(t) = next
    BY <1>1, <1>2, <1>3 DEF DraftEffect
  <1>5. /\ DOMAIN next = DOMAIN db
        /\ next.invoice = [db.invoice EXCEPT ![i] = row]
        /\ next.next = n + 1
        /\ next.stock = db.stock /\ next.booked = db.booked /\ next.reversal = db.reversal
    BY <1>3 DEF RetailShape
  <1>6. next.invoice \in [Invoices -> InvoiceType] /\ next.next \in Nat
    BY <1>5 DEF RetailShape
  <1>7. RetailShape(next)
    BY <1>5, <1>6 DEF RetailShape
  <1> QED BY <1>1, <1>2, <1>4, <1>5, <1>7

LEMMA IssuedFields ==
    ASSUME NEW t, NEW d, RetailShape(d), NEW draft \in InvoiceType, draft.status = "draft",
           t.op \in Requests, t.op.invoice \in Invoices, t.op.pay \in Nat,
           Bill(t).product \in Products,
           NEW left \in Int, left = t.saw[StockRow(Bill(t).product)] - Bill(t).quantity
    PROVE  LET next == Issued(t, d, draft)
               i    == t.op.invoice
           IN  /\ RetailShape(next)
               /\ next.invoice[i].status \in Sold /\ next.invoice[i].number = d.invoice[i].number
               /\ \A j \in Invoices \ {i} : next.invoice[j] = d.invoice[j]
               /\ next.next = d.next
               /\ next.stock = [d.stock EXCEPT ![Bill(t).product] = left]
               /\ next.booked = d.booked \cup {t.op}
  <1>1. PICK i \in Invoices : i = t.op.invoice
    OBVIOUS
  <1>2. PICK paid \in InvoiceType : paid = Paid(i, draft, t.op.pay)
    BY <1>1, PaidIs
  <1>3. paid.status \in Sold /\ paid.number = draft.number
    BY <1>1, <1>2, PaidIs
  <1>4. d.invoice[i] \in InvoiceType
    BY DEF RetailShape
  <1>5. PICK row \in InvoiceType : row = Written(d.invoice[i], draft, paid)
    BY <1>3, <1>4, WrittenIs
  <1>6. row.status \in Sold /\ row.number = d.invoice[i].number
    <2>1. paid.status # draft.status
      BY <1>3 DEF Sold
    <2> QED BY <1>3, <1>4, <1>5, <2>1, WrittenIs
  <1>7. PICK p \in Products : p = Bill(t).product
    OBVIOUS
  <1>8. PICK next : next = [d EXCEPT !.invoice[i] = row, !.stock[p] = left,
                                     !.booked = @ \cup {t.op}]
    OBVIOUS
  <1>9. Issued(t, d, draft) = next
    BY <1>1, <1>2, <1>5, <1>7, <1>8 DEF Issued
  <1>10. /\ DOMAIN next = DOMAIN d
         /\ next.invoice = [d.invoice EXCEPT ![i] = row]
         /\ next.stock = [d.stock EXCEPT ![p] = left]
         /\ next.booked = d.booked \cup {t.op}
         /\ next.next = d.next /\ next.reversal = d.reversal
    BY <1>8 DEF RetailShape
  <1>11. /\ next.invoice \in [Invoices -> InvoiceType] /\ next.stock \in [Products -> Int]
         /\ next.booked \subseteq Requests
    BY <1>10 DEF RetailShape
  <1>12. RetailShape(next)
    BY <1>10, <1>11 DEF RetailShape
  <1>13. next.invoice[i] = row /\ \A j \in Invoices \ {i} : next.invoice[j] = d.invoice[j]
    BY <1>10 DEF RetailShape
  <1> QED BY <1>1, <1>6, <1>7, <1>9, <1>10, <1>12, <1>13

LEMMA RetailDraftKeeps ==
    ASSUME RetailInv, NEW w \in Workers, Draft(w)
    PROVE  RetailInv' /\ db'.booked = db.booked
  <1> DEFINE t == work[w]
             i == t.op.invoice
             next == DraftEffect(t)
  <1>1. /\ w \in DOMAIN work /\ t.op.kind = "draft" /\ t.op \in Requests
        /\ t.at > Len(Queries(t))
    BY RetailWritesFacts DEF Draft
  <1>2. i \in Invoices
    BY <1>1, RetailRequests
  <1>3. t.saw[Sequence] = db.next /\ db.next \in Nat
    BY <1>1, NumberIsNext
  <1>4. NumberIsNew(t) /\ CommitTxn(w, {Sequence}, next) /\ db' = next
    BY DEF Draft, CommitTxn
  <1>5. /\ RetailShape(next)
        /\ next.invoice = [db.invoice EXCEPT ![i] = Drafted(i, db.next)]
        /\ next.next = db.next + 1
        /\ next.stock = db.stock /\ next.booked = db.booked
    BY <1>2, <1>3, DraftFields DEF RetailInv
  <1>6. /\ next.invoice[i] = Drafted(i, db.next)
        /\ \A j \in Invoices \ {i} : next.invoice[j] = db.invoice[j]
    BY <1>2, <1>5 DEF RetailInv, RetailShape
  <1>7. Drafted(i, db.next).status = "draft" /\ Drafted(i, db.next).number = db.next
    BY <1>2, <1>3, DraftedIs
  <1>8. db.invoice[i].status = "none"
    BY <1>4 DEF NumberIsNew
  <1> HIDE DEF next, i
  <1>9. RetailKeeps(next, {Sequence})
    BY <1>5, <1>6, <1>7 DEF RetailKeeps
  <1>10. NumbersInv'
    BY <1>2, <1>4, <1>5, <1>6, <1>7, <1>8, NumberGiven DEF RetailInv
  <1>11. SalesInv'
    <2>1. \A j \in Invoices : SalesOf(j)' = SalesOf(j)
      BY <1>4, <1>5 DEF SalesOf, Booked
    <2>2. \A j \in Invoices :
             /\ db'.invoice[j].status = "none" => db.invoice[j].status = "none"
             /\ db'.invoice[j].status \in Sold => db.invoice[j].status \in Sold \/ SalesOf(j) # {}
      BY <1>4, <1>6, <1>7 DEF Sold
    <2> QED BY <2>1, <2>2, SalesKept DEF RetailInv
  <1> QED BY <1>1, <1>4, <1>5, <1>9, <1>10, <1>11, RetailCommitKeeps DEF RetailInv

LEMMA RetailIssueKeeps ==
    ASSUME RetailInv, NEW w \in Workers, Issue(w)
    PROVE  /\ RetailInv'
           /\ db'.booked = db.booked \cup {work[w].op}
           /\ db'.stock = [db.stock EXCEPT ![Bill(work[w]).product] = @ - Bill(work[w]).quantity]
  <1> DEFINE t == work[w]
             i == t.op.invoice
             next == IssueEffect(t)
  <1>1. /\ w \in DOMAIN work /\ t.op.kind = "issue" /\ t.op \in Requests
        /\ t.at > Len(Queries(t)) /\ GoesOn(t) /\ t.at \in Nat
    BY RetailWritesFacts DEF Issue
  <1>2. PICK p \in Products : p = Bill(t).product
    BY <1>1, GoodsAreThere
  <1>3. /\ i \in Invoices /\ t.op.pay \in Nat
        /\ t.saw[StockRow(p)] = db.stock[p] /\ db.stock[p] - Bill(t).quantity \in Nat
    BY <1>1, <1>2, GoodsAreThere
  <1>4. /\ SaleIsNew(t) /\ db' = next
        /\ CommitTxn(w, {InvoiceOf(w), StockRow(p)}, next)
    BY <1>2 DEF Issue, CommitTxn
  <1>5. PICK draft \in InvoiceType : draft = t.saw[InvoiceRow(i)] /\ draft.status = "draft"
    <2>1. t.at > 1
      BY <1>1, SaleIsLast
    <2>2. InvoiceRow(i) \in DOMAIN t.saw /\ Copy(t) \in InvoiceType
      BY <1>1, <2>1 DEF RetailInv, CopyInv, OnInvoice
    <2>3. t.saw[InvoiceRow(i)].status = "draft"
      BY <1>1, <2>1 DEF GoesOn, IssueGoesOn
    <2> QED BY <2>2, <2>3 DEF Copy
  <1>6. next = Issued(t, db, draft)
    BY <1>5 DEF IssueEffect
  <1>7. PICK left \in Int : left = t.saw[StockRow(p)] - Bill(t).quantity
    BY <1>3
  <1>8. /\ RetailShape(next)
        /\ next.invoice[i].status \in Sold /\ next.invoice[i].number = db.invoice[i].number
        /\ \A j \in Invoices \ {i} : next.invoice[j] = db.invoice[j]
        /\ next.next = db.next
        /\ next.stock = [db.stock EXCEPT ![p] = left]
        /\ next.booked = db.booked \cup {t.op}
    <2>1. RetailShape(db) /\ Bill(t).product \in Products
      BY <1>2 DEF RetailInv
    <2>2. left = t.saw[StockRow(Bill(t).product)] - Bill(t).quantity
      BY <1>2, <1>7
    <2>3. t.op \in Requests /\ t.op.invoice \in Invoices /\ t.op.pay \in Nat
      BY <1>1, <1>3
    <2> HIDE DEF next, t
    <2> QED BY <1>2, <1>5, <1>6, <2>1, <2>2, <2>3, IssuedFields
  <1>9. db.invoice[i].status # "none"
    BY <1>1 DEF RetailInv, CopyInv, OnInvoice
  <1>10. SalesOf(i) = {}
    BY <1>4 DEF SaleIsNew
  <1> HIDE DEF next, i
  <1>11. RetailKeeps(next, {InvoiceOf(w), StockRow(p)})
    <2>1. \A q \in Products : next.stock[q] # db.stock[q] => q = p
      BY <1>8 DEF RetailInv, RetailShape
    <2>2. \A j \in Invoices : db.invoice[j].status # "none" => next.invoice[j].status # "none"
      BY <1>8 DEF Sold
    <2> QED BY <1>8, <2>1, <2>2 DEF RetailKeeps
  <1>12. NumbersInv'
    <2>1. \A j \in Invoices :
             /\ next.invoice[j].number = db.invoice[j].number
             /\ next.invoice[j].status = "none" <=> db.invoice[j].status = "none"
      BY <1>8, <1>9 DEF Sold
    <2> QED BY <1>4, <1>8, <2>1, NumbersKept DEF RetailInv
  <1>13. SalesInv'
    <2>1. next.invoice[i].status # "none"
      BY <1>8 DEF Sold
    <2> QED BY <1>1, <1>3, <1>4, <1>8, <1>10, <2>1, SaleAdded DEF RetailInv, i
  <1>14. db'.stock = [db.stock EXCEPT ![p] = @ - Bill(t).quantity]
    BY <1>3, <1>4, <1>7, <1>8
  <1> QED BY <1>1, <1>2, <1>4, <1>8, <1>11, <1>12, <1>13, <1>14, RetailCommitKeeps DEF RetailInv

LEMMA RetailCheckoutKeeps ==
    ASSUME RetailInv, NEW w \in Workers, Checkout(w)
    PROVE  /\ RetailInv'
           /\ db'.booked = db.booked \cup {work[w].op}
           /\ db'.stock = [db.stock EXCEPT ![Bill(work[w]).product] = @ - Bill(work[w]).quantity]
  <1> DEFINE t == work[w]
             i == t.op.invoice
             next == CheckoutEffect(t)
  <1>1. /\ w \in DOMAIN work /\ t.op.kind = "checkout" /\ t.op \in Requests
        /\ t.at > Len(Queries(t)) /\ GoesOn(t) /\ t.at \in Nat
    BY RetailWritesFacts DEF Checkout
  <1>2. PICK p \in Products : p = Bill(t).product
    BY <1>1, GoodsAreThere
  <1>3. /\ i \in Invoices /\ t.op.pay \in Nat
        /\ t.saw[StockRow(p)] = db.stock[p] /\ db.stock[p] - Bill(t).quantity \in Nat
    BY <1>1, <1>2, GoodsAreThere
  <1>4. t.saw[Sequence] = db.next /\ db.next \in Nat
    BY <1>1, NumberIsNext
  <1>5. /\ NumberIsNew(t) /\ db' = next
        /\ CommitTxn(w, {Sequence, StockRow(p)}, next)
    BY <1>2 DEF Checkout, CommitTxn
  <1>6. PICK d : d = DraftEffect(t)
    OBVIOUS
  <1>7. PICK draft \in InvoiceType : draft = Drafted(i, t.saw[Sequence])
    BY <1>3, <1>4, DraftedIs
  <1>8. draft.status = "draft" /\ draft.number = db.next
    BY <1>3, <1>4, <1>7, DraftedIs
  <1>9. /\ RetailShape(d)
        /\ d.invoice = [db.invoice EXCEPT ![i] = draft] /\ d.next = db.next + 1
        /\ d.stock = db.stock /\ d.booked = db.booked
    BY <1>3, <1>4, <1>6, <1>7, DraftFields DEF RetailInv
  <1>10. next = Issued(t, d, draft)
    BY <1>6, <1>7 DEF CheckoutEffect
  <1>11. PICK left \in Int : left = t.saw[StockRow(p)] - Bill(t).quantity
    BY <1>3
  <1>12. /\ RetailShape(next)
         /\ next.invoice[i].status \in Sold /\ next.invoice[i].number = d.invoice[i].number
         /\ \A j \in Invoices \ {i} : next.invoice[j] = d.invoice[j]
         /\ next.next = d.next
         /\ next.stock = [d.stock EXCEPT ![p] = left]
         /\ next.booked = d.booked \cup {t.op}
    <2>1. Bill(t).product \in Products /\ draft.status = "draft" /\ draft \in InvoiceType
      BY <1>2, <1>7, <1>8
    <2>2. left = t.saw[StockRow(Bill(t).product)] - Bill(t).quantity
      BY <1>2, <1>11
    <2>3. RetailShape(d)
      BY <1>9
    <2>4. t.op \in Requests /\ t.op.invoice \in Invoices /\ t.op.pay \in Nat
      BY <1>1, <1>3
    <2> HIDE DEF next, t
    <2> QED BY <1>2, <1>10, <2>1, <2>2, <2>3, <2>4, IssuedFields
  <1>13. d.invoice[i] = draft /\ \A j \in Invoices \ {i} : d.invoice[j] = db.invoice[j]
    BY <1>3, <1>9 DEF RetailInv, RetailShape
  <1>14. db.invoice[i].status = "none" /\ SalesOf(i) = {}
    BY <1>3, <1>5 DEF NumberIsNew, RetailInv, SalesInv
  <1> HIDE DEF next, i
  <1>15. RetailKeeps(next, {Sequence, StockRow(p)})
    <2>1. \A q \in Products : next.stock[q] # db.stock[q] => q = p
      BY <1>9, <1>12 DEF RetailInv, RetailShape
    <2>2. \A j \in Invoices : db.invoice[j].status # "none" => next.invoice[j].status # "none"
      BY <1>12, <1>13, <1>14
    <2> QED BY <1>9, <1>12, <2>1, <2>2 DEF RetailKeeps
  <1>16. next.invoice[i].status # "none"
    BY <1>12 DEF Sold
  <1>17. NumbersInv'
    BY <1>3, <1>5, <1>8, <1>9, <1>12, <1>13, <1>14, <1>16, NumberGiven DEF RetailInv
  <1>18. SalesInv'
    BY <1>1, <1>3, <1>5, <1>9, <1>12, <1>13, <1>14, <1>16, SaleAdded DEF RetailInv, i
  <1>19. db'.stock = [db.stock EXCEPT ![p] = @ - Bill(t).quantity]
    BY <1>3, <1>5, <1>9, <1>11, <1>12
  <1> QED BY <1>1, <1>2, <1>5, <1>9, <1>12, <1>15, <1>17, <1>18, <1>19, RetailCommitKeeps
          DEF RetailInv

-----------------------------------------------------------------------------
(* Cancellations, payments and voids; the stock.                            *)

\* A commit that sells no invoice and gives no number.
LEMMA QuietCommitKeeps ==
    ASSUME RetailInv, NEW w \in DOMAIN work, NEW next, NEW written,
           CommitTxn(w, written, next), RetailShape(next), next.next = db.next,
           \A p \in Products : next.stock[p] # db.stock[p] => StockRow(p) \in written,
           \/ next.booked = db.booked
           \/ /\ next.booked = db.booked \cup {work[w].op}
              /\ work[w].op.kind \notin {"issue", "checkout"},
           \A i \in Invoices :
              \/ next.invoice[i] = db.invoice[i]
              \/ /\ next.invoice[i].number = db.invoice[i].number
                 /\ db.invoice[i].status # "none" /\ next.invoice[i].status # "none"
                 /\ next.invoice[i].status \in Sold =>
                       db.invoice[i].status \in Sold \/ SalesOf(i) # {}
    PROVE  RetailInv'
  <1>1. db' = next
    BY DEF CommitTxn
  <1>2. RetailKeeps(next, written)
    BY DEF RetailKeeps
  <1>3. NumbersInv'
    BY <1>1, NumbersKept DEF RetailInv
  <1>4. SalesInv'
    <2>1. \A i \in Invoices : SalesOf(i)' = SalesOf(i)
      BY <1>1, NoSale
    <2>2. \A i \in Invoices :
             /\ db'.invoice[i].status = "none" => db.invoice[i].status = "none"
             /\ db'.invoice[i].status \in Sold => db.invoice[i].status \in Sold \/ SalesOf(i) # {}
      BY <1>1
    <2> QED BY <2>1, <2>2, SalesKept DEF RetailInv
  <1> QED BY <1>2, <1>3, <1>4, RetailCommitKeeps DEF RetailInv

\* An invoice that is written from a copy of it.
LEMMA RewrittenIs ==
    ASSUME RetailInv, NEW w \in DOMAIN work, work[w].op.kind \in {"cancel", "pay", "void"},
           work[w].at > Len(Queries(work[w]))
    PROVE  LET t == work[w]
               i == t.op.invoice
           IN  /\ i \in Invoices /\ Copy(t) \in InvoiceType /\ t.at > 1
               /\ db.invoice[i].status # "none"
               /\ \A new \in InvoiceType :
                     /\ new.number = Copy(t).number /\ new.status # "none"
                     /\ new.status \in Sold => SalesOf(i) # {}
                     => LET row == Rewritten(t, new)
                        IN  /\ row \in InvoiceType /\ row.number = db.invoice[i].number
                            /\ row.status # "none"
                            /\ row.status \in Sold =>
                                  db.invoice[i].status \in Sold \/ SalesOf(i) # {}
  <1> DEFINE t == work[w]
             i == t.op.invoice
  <1>1. t.op \in Requests /\ t.at \in Nat /\ t.op.kind \in OnInvoice
    BY DEF RetailInv, RetailWork, OnInvoice
  <1>2. i \in Invoices
    BY <1>1, RetailRequests
  <1>3. t.at > 1
    BY <1>1 DEF Queries, CopyQueries, VoidQueries
  <1>4. Copy(t) \in InvoiceType /\ db.invoice[i].status # "none"
    BY <1>1, <1>3 DEF RetailInv, CopyInv
  <1>5. db.invoice[i] \in InvoiceType
    BY <1>2 DEF RetailInv, RetailShape
  <1>6. ASSUME NEW new \in InvoiceType, new.number = Copy(t).number, new.status # "none",
               new.status \in Sold => SalesOf(i) # {}
        PROVE  LET row == Rewritten(t, new)
               IN  /\ row \in InvoiceType /\ row.number = db.invoice[i].number
                   /\ row.status # "none"
                   /\ row.status \in Sold => db.invoice[i].status \in Sold \/ SalesOf(i) # {}
    <2>1. PICK row : row = Written(db.invoice[i], Copy(t), new)
      OBVIOUS
    <2>2. /\ row \in InvoiceType /\ row.number = db.invoice[i].number
          /\ row.status = IF new.status # Copy(t).status THEN new.status
                          ELSE db.invoice[i].status
      BY <1>4, <1>5, <1>6, <2>1, WrittenIs
    <2>3. Rewritten(t, new) = row
      BY <2>1 DEF Rewritten
    <2>4. row.status \in {new.status, db.invoice[i].status}
      BY <2>2
    <2> QED BY <1>4, <1>6, <2>2, <2>3, <2>4
  <1> QED BY <1>2, <1>3, <1>4, <1>6

LEMMA RetailCancelKeeps ==
    ASSUME RetailInv, NEW w \in Workers, Cancel(w)
    PROVE  RetailInv' /\ db'.booked = db.booked
  <1> DEFINE t == work[w]
             i == t.op.invoice
             new == [Copy(t) EXCEPT !.status = "cancelled"]
  <1>1. w \in DOMAIN work /\ t.op.kind = "cancel" /\ t.at > Len(Queries(t))
    BY RetailWritesFacts DEF Cancel
  <1>2. i \in Invoices /\ Copy(t) \in InvoiceType /\ db.invoice[i].status # "none"
    BY <1>1, RewrittenIs
  <1>3. /\ new \in InvoiceType /\ new.number = Copy(t).number
        /\ new.status = "cancelled" /\ new.status \notin Sold
    BY <1>2 DEF InvoiceType, Statuses, Sold
  <1>4. PICK row \in InvoiceType :
           /\ row = Rewritten(t, new) /\ row.number = db.invoice[i].number
           /\ row.status # "none"
           /\ row.status \in Sold => db.invoice[i].status \in Sold \/ SalesOf(i) # {}
    <2> HIDE DEF new
    <2> QED BY <1>1, <1>3, RewrittenIs
  <1>5. PICK next : next = [db EXCEPT !.invoice[i] = row]
    OBVIOUS
  <1>6. next = CancelEffect(t) /\ CommitTxn(w, {InvoiceOf(w)}, next) /\ db' = next
    BY <1>4, <1>5 DEF Cancel, CancelEffect, CommitTxn
  <1>7. /\ DOMAIN next = DOMAIN db /\ next.invoice = [db.invoice EXCEPT ![i] = row]
        /\ next.next = db.next /\ next.stock = db.stock /\ next.reversal = db.reversal
        /\ next.booked = db.booked
    BY <1>5 DEF RetailInv, RetailShape
  <1>8. /\ RetailShape(next) /\ next.invoice[i] = row
        /\ \A j \in Invoices \ {i} : next.invoice[j] = db.invoice[j]
    <2>1. next.booked \subseteq Requests
      BY <1>7 DEF RetailInv, RetailShape
    <2> QED BY <1>2, <1>4, <1>7, <2>1 DEF RetailInv, RetailShape
  <1> HIDE DEF t, i
  <1>9. RetailInv'
    <2>1. \A j \in Invoices :
             \/ next.invoice[j] = db.invoice[j]
             \/ /\ next.invoice[j].number = db.invoice[j].number
                /\ db.invoice[j].status # "none" /\ next.invoice[j].status # "none"
                /\ next.invoice[j].status \in Sold =>
                      db.invoice[j].status \in Sold \/ SalesOf(j) # {}
      BY <1>2, <1>4, <1>8
    <2> QED BY <1>1, <1>6, <1>7, <1>8, <2>1, QuietCommitKeeps
  <1> QED BY <1>6, <1>7, <1>9

LEMMA RetailPayKeeps ==
    ASSUME RetailInv, NEW w \in Workers, Pay(w)
    PROVE  RetailInv' /\ db'.booked = db.booked \cup {work[w].op}
  <1> DEFINE t == work[w]
             i == t.op.invoice
             new == Paid(i, Copy(t), Copy(t).paid + t.op.pay)
  <1>1. /\ w \in DOMAIN work /\ t.op.kind = "pay" /\ t.at > Len(Queries(t))
        /\ t.op \in Requests /\ GoesOn(t)
    BY RetailWritesFacts DEF Pay
  <1>2. /\ i \in Invoices /\ Copy(t) \in InvoiceType /\ t.at > 1
        /\ db.invoice[i].status # "none"
    BY <1>1, RewrittenIs
  <1>3. Copy(t).paid + t.op.pay \in Nat
    <2>1. t.op.pay \in Nat
      BY <1>1, RetailRequests
    <2> QED BY <1>2, <2>1 DEF InvoiceType
  <1>4. new \in InvoiceType /\ new.number = Copy(t).number /\ new.status \in Sold
    BY <1>2, <1>3, PaidIs
  <1>5. new.status # "none"
    BY <1>4 DEF Sold
  <1>6. SalesOf(i) # {}
    <2>1. /\ Copy(t).status \in Statuses /\ Copy(t).status # "none"
          /\ Copy(t).status \in Sold => SalesOf(i) # {}
      BY <1>1, <1>2 DEF RetailInv, CopyInv, OnInvoice, InvoiceType
    <2>2. Copy(t).status \notin {"draft", "cancelled"}
      BY <1>1, <1>2 DEF GoesOn, PayGoesOn
    <2> QED BY <2>1, <2>2 DEF Sold
  <1>7. PICK row \in InvoiceType :
           /\ row = Rewritten(t, new) /\ row.number = db.invoice[i].number
           /\ row.status # "none"
           /\ row.status \in Sold => db.invoice[i].status \in Sold \/ SalesOf(i) # {}
    <2> HIDE DEF new
    <2> QED BY <1>1, <1>4, <1>5, <1>6, RewrittenIs
  <1>8. PICK next : next = [db EXCEPT !.invoice[i] = row, !.booked = @ \cup {t.op}]
    OBVIOUS
  <1>9. next = PayEffect(t) /\ CommitTxn(w, {InvoiceOf(w)}, next) /\ db' = next
    BY <1>7, <1>8 DEF Pay, PayEffect, CommitTxn
  <1>10. /\ DOMAIN next = DOMAIN db /\ next.invoice = [db.invoice EXCEPT ![i] = row]
         /\ next.next = db.next /\ next.stock = db.stock /\ next.reversal = db.reversal
         /\ next.booked = db.booked \cup {t.op}
    BY <1>8 DEF RetailInv, RetailShape
  <1>11. /\ RetailShape(next) /\ next.invoice[i] = row
         /\ \A j \in Invoices \ {i} : next.invoice[j] = db.invoice[j]
    <2>1. next.booked \subseteq Requests
      BY <1>1, <1>10 DEF RetailInv, RetailShape
    <2> QED BY <1>2, <1>7, <1>10, <2>1 DEF RetailInv, RetailShape
  <1> HIDE DEF t, i
  <1>12. RetailInv'
    <2>1. \A j \in Invoices :
             \/ next.invoice[j] = db.invoice[j]
             \/ /\ next.invoice[j].number = db.invoice[j].number
                /\ db.invoice[j].status # "none" /\ next.invoice[j].status # "none"
                /\ next.invoice[j].status \in Sold =>
                      db.invoice[j].status \in Sold \/ SalesOf(j) # {}
      BY <1>2, <1>7, <1>11
    <2>2. next.booked = db.booked \cup {work[w].op} /\ work[w].op.kind \notin {"issue", "checkout"}
      BY <1>1, <1>10 DEF t
    <2> QED BY <1>1, <1>9, <1>10, <1>11, <2>1, <2>2, QuietCommitKeeps
  <1> QED BY <1>9, <1>10, <1>12 DEF t

LEMMA RetailVoidKeeps ==
    ASSUME RetailInv, NEW w \in Workers, Void(w)
    PROVE  RetailInv' /\ db'.booked = db.booked
  <1> DEFINE t == work[w]
             i == t.op.invoice
             new == [Copy(t) EXCEPT !.status = "cancelled", !.due = 0]
  <1>1. w \in DOMAIN work /\ t.op.kind = "void" /\ t.at > Len(Queries(t))
    BY RetailWritesFacts DEF Void
  <1>2. i \in Invoices /\ Copy(t) \in InvoiceType /\ db.invoice[i].status # "none"
    BY <1>1, RewrittenIs
  <1>3. /\ new \in InvoiceType /\ new.number = Copy(t).number
        /\ new.status = "cancelled" /\ new.status \notin Sold
    <2>1. PICK c \in InvoiceType : c = Copy(t)
      BY <1>2
    <2>2. [c EXCEPT !.status = "cancelled", !.due = 0]
             = [status |-> "cancelled", number |-> c.number, paid |-> c.paid, due |-> 0]
      <3>1. PICK d : d = [c EXCEPT !.status = "cancelled", !.due = 0]
        OBVIOUS
      <3>2. /\ DOMAIN d = {"status", "number", "paid", "due"}
            /\ d.status = "cancelled" /\ d.number = c.number /\ d.paid = c.paid /\ d.due = 0
        BY <3>1 DEF InvoiceType
      <3>3. d = [status |-> d.status, number |-> d.number, paid |-> d.paid, due |-> d.due]
        BY <3>1, <3>2
      <3> QED BY <3>1, <3>2, <3>3
    <2> QED BY <2>1, <2>2 DEF InvoiceType, Statuses, Sold
  <1>4. PICK row \in InvoiceType :
           /\ row = Rewritten(t, new) /\ row.number = db.invoice[i].number
           /\ row.status # "none"
           /\ row.status \in Sold => db.invoice[i].status \in Sold \/ SalesOf(i) # {}
    <2> HIDE DEF new
    <2> QED BY <1>1, <1>3, RewrittenIs
  <1>5. PICK next : next = [db EXCEPT !.invoice[i] = row, !.reversal[t.op.key] = i]
    OBVIOUS
  <1>6. next = VoidEffect(t) /\ CommitTxn(w, {InvoiceOf(w)}, next) /\ db' = next
    BY <1>4, <1>5 DEF Void, VoidEffect, CommitTxn
  <1>7. /\ DOMAIN next = DOMAIN db /\ next.invoice = [db.invoice EXCEPT ![i] = row]
        /\ next.next = db.next /\ next.stock = db.stock
        /\ DOMAIN next.reversal = DOMAIN db.reversal
        /\ next.booked = db.booked
    BY <1>5 DEF RetailInv, RetailShape
  <1>8. /\ RetailShape(next) /\ next.invoice[i] = row
        /\ \A j \in Invoices \ {i} : next.invoice[j] = db.invoice[j]
    <2>1. next.booked \subseteq Requests
      BY <1>7 DEF RetailInv, RetailShape
    <2> QED BY <1>2, <1>4, <1>7, <2>1 DEF RetailInv, RetailShape
  <1> HIDE DEF t, i
  <1>9. RetailInv'
    <2>1. \A j \in Invoices :
             \/ next.invoice[j] = db.invoice[j]
             \/ /\ next.invoice[j].number = db.invoice[j].number
                /\ db.invoice[j].status # "none" /\ next.invoice[j].status # "none"
                /\ next.invoice[j].status \in Sold =>
                      db.invoice[j].status \in Sold \/ SalesOf(j) # {}
      BY <1>2, <1>4, <1>8
    <2> QED BY <1>1, <1>6, <1>7, <1>8, <2>1, QuietCommitKeeps
  <1> QED BY <1>6, <1>7, <1>9

\* The database with another stock of product p and one booking more.
Restocked(p, left, op) == [db EXCEPT !.stock[p] = left, !.booked = @ \cup {op}]

LEMMA RestockedFields ==
    ASSUME RetailInv, NEW p \in Products, NEW left \in Int, NEW op \in Requests
    PROVE  LET next == Restocked(p, left, op)
           IN  /\ RetailShape(next) /\ next.next = db.next /\ next.invoice = db.invoice
               /\ next.stock = [db.stock EXCEPT ![p] = left]
               /\ \A q \in Products : next.stock[q] # db.stock[q] => q = p
               /\ next.booked = db.booked \cup {op}
  <1> DEFINE next == Restocked(p, left, op)
  <1>1. /\ DOMAIN next = DOMAIN db /\ next.stock = [db.stock EXCEPT ![p] = left]
        /\ next.next = db.next /\ next.invoice = db.invoice /\ next.reversal = db.reversal
        /\ next.booked = db.booked \cup {op}
    BY DEF RetailInv, RetailShape, Restocked
  <1> HIDE DEF next
  <1>2. next.stock \in [Products -> Int] /\ next.booked \subseteq Requests
    BY <1>1 DEF RetailInv, RetailShape
  <1>3. \A q \in Products : next.stock[q] # db.stock[q] => q = p
    BY <1>1 DEF RetailInv, RetailShape
  <1>4. RetailShape(next)
    BY <1>1, <1>2 DEF RetailInv, RetailShape
  <1> QED BY <1>1, <1>3, <1>4 DEF next

LEMMA RetailSellKeeps ==
    ASSUME RetailInv, NEW w \in Workers, Sell(w)
    PROVE  LET op == work[w].op
           IN  /\ RetailInv' /\ db'.booked = db.booked \cup {op}
               /\ op.product \in Products /\ op.quantity \in Nat
               /\ db.stock[op.product] - op.quantity \in Nat
               /\ db'.stock = [db.stock EXCEPT ![op.product] = @ - op.quantity]
  <1> DEFINE t == work[w]
  <1>1. /\ w \in DOMAIN work /\ t.op.kind = "sell" /\ t.at > Len(Queries(t))
        /\ t.op \in Requests /\ GoesOn(t) /\ t.at \in Nat
    BY RetailWritesFacts DEF Sell
  <1>2. PICK p \in Products : p = t.op.product
    BY <1>1, RetailRequests
  <1>3. PICK n \in Nat : n = t.op.quantity
    BY <1>1, RetailRequests
  <1>4. t.at > 1
    BY <1>1 DEF Queries, SellQueries
  <1>5. StockRow(p) \in DOMAIN t.saw
    BY <1>1, <1>2, <1>4 DEF RetailInv, StockReadInv
  <1>6. OnHand(t) = db.stock[p] /\ db.stock[p] \in Int
    BY <1>1, <1>2, <1>5 DEF RetailInv, StockInv, RetailShape, OnHand
  <1>7. n <= OnHand(t)
    BY <1>1, <1>3, <1>4 DEF GoesOn, SellGoesOn
  <1>8. PICK left \in Nat : left = db.stock[p] - n
    BY <1>6, <1>7
  <1>9o. PICK op \in Requests : op = t.op
    BY <1>1
  <1>9. PICK next : next = Restocked(p, left, op)
    OBVIOUS
  <1>10. next = SellEffect(t) /\ CommitTxn(w, {StockRow(p)}, next) /\ db' = next
    BY <1>2, <1>3, <1>6, <1>8, <1>9, <1>9o DEF Sell, SellEffect, Restocked, CommitTxn
  <1>11. /\ RetailShape(next) /\ next.next = db.next /\ next.invoice = db.invoice
         /\ next.stock = [db.stock EXCEPT ![p] = left]
         /\ \A q \in Products : next.stock[q] # db.stock[q] => q = p
         /\ next.booked = db.booked \cup {t.op}
    <2>1. left \in Int
      BY <1>8
    <2> HIDE DEF t
    <2> QED BY <1>2, <1>9, <1>9o, <2>1, RestockedFields
  <1>12. RetailInv'
    BY <1>1, <1>10, <1>11, QuietCommitKeeps
  <1> QED BY <1>2, <1>3, <1>8, <1>10, <1>11, <1>12

LEMMA RetailAdjustKeeps ==
    ASSUME RetailInv, NEW w \in Workers, Adjust(w)
    PROVE  RetailInv' /\ db'.booked = db.booked \cup {work[w].op}
  <1> DEFINE t == work[w]
  <1>1. /\ w \in DOMAIN work /\ t.op.kind = "adjust" /\ t.at > Len(Queries(t))
        /\ t.op \in Requests /\ t.at \in Nat
    BY RetailWritesFacts DEF Adjust
  <1>2. PICK p \in Products : p = t.op.product
    BY <1>1, RetailRequests
  <1>3. t.at > 1
    BY <1>1 DEF Queries, AdjustQueries
  <1>4. StockRow(p) \in DOMAIN t.saw
    BY <1>1, <1>2, <1>3 DEF RetailInv, StockReadInv
  <1>5. OnHand(t) \in Int /\ t.op.change \in Int
    BY <1>1, <1>2, <1>4, RetailRequests DEF RetailInv, StockInv, OnHand
  <1>6. PICK left \in Int : left = OnHand(t) + t.op.change
    BY <1>5
  <1>7o. PICK op \in Requests : op = t.op
    BY <1>1
  <1>7. PICK next : next = Restocked(p, left, op)
    OBVIOUS
  <1>8. next = AdjustEffect(t) /\ CommitTxn(w, {StockRow(p)}, next) /\ db' = next
    BY <1>2, <1>6, <1>7, <1>7o DEF Adjust, AdjustEffect, Restocked, CommitTxn
  <1>9. /\ RetailShape(next) /\ next.next = db.next /\ next.invoice = db.invoice
        /\ \A q \in Products : next.stock[q] # db.stock[q] => q = p
        /\ next.stock = [db.stock EXCEPT ![p] = left]
        /\ next.booked = db.booked \cup {t.op}
    BY <1>2, <1>6, <1>7, <1>7o, RestockedFields
  <1>10. RetailInv'
    BY <1>1, <1>8, <1>9, QuietCommitKeeps
  <1> QED BY <1>8, <1>9, <1>10

LEMMA RetailSettleKeeps ==
    ASSUME RetailInv, NEW w \in Workers, Settle(w)
    PROVE  RetailInv' /\ db'.booked = db.booked \cup {work[w].op}
  <1> DEFINE t == work[w]
  <1>1. w \in DOMAIN work /\ t.op.kind = "settle" /\ t.op \in Requests
    BY RetailWritesFacts DEF Settle
  <1>2. PICK next : next = [db EXCEPT !.booked = @ \cup {t.op}]
    OBVIOUS
  <1>3. CommitTxn(w, {}, next) /\ db' = next
    BY <1>2 DEF Settle, SettleEffect, CommitTxn
  <1>4. /\ DOMAIN next = DOMAIN db /\ next.invoice = db.invoice /\ next.next = db.next
        /\ next.stock = db.stock /\ next.reversal = db.reversal
        /\ next.booked = db.booked \cup {t.op}
    BY <1>2 DEF RetailInv, RetailShape
  <1>5. RetailShape(next)
    BY <1>1, <1>4 DEF RetailInv, RetailShape
  <1>6. RetailInv'
    BY <1>1, <1>3, <1>4, <1>5, QuietCommitKeeps
  <1> QED BY <1>3, <1>4, <1>6

-----------------------------------------------------------------------------
(* The theorems of the counter.                                             *)

LEMMA RetailInitInv == RetailInit => RetailInv
  <1> SUFFICES ASSUME RetailInit PROVE RetailInv
    OBVIOUS
  <1>1. DOMAIN work = {}
    BY DEF RetailInit
  <1>2. RetailShape(db)
    BY HubRetailAssumption DEF RetailInit, RetailShape, InvoiceType, Statuses
  <1>3. \A i \in Invoices : db.invoice[i].status = "none"
    BY DEF RetailInit
  <1>4. NumbersInv
    <2>1. Numbered = {}
      BY <1>3 DEF Numbered
    <2>2. IsFiniteSet({}) /\ Cardinality({}) = 0
      BY FS_EmptySet
    <2>3. {db.invoice[i].number : i \in {}} = {} /\ 1..0 = {}
      OBVIOUS
    <2>4. db.next = 1
      BY DEF RetailInit
    <2>5. IsFiniteSet(Numbered) /\ Cardinality(Numbered) = 0
      BY <2>1, <2>2
    <2>6. {db.invoice[i].number : i \in Numbered} = {} /\ 1..Cardinality(Numbered) = {}
      BY <2>1, <2>3, <2>5
    <2>7. db.next = Cardinality(Numbered) + 1
      BY <2>4, <2>5
    <2> QED BY <2>5, <2>6, <2>7 DEF NumbersInv, NumbersHaveNoGap, Numbered
  <1>5. SalesInv
    <2>1. db.booked = {}
      BY DEF RetailInit
    <2>2. \A i : SalesOf(i) = {}
      BY <2>1 DEF SalesOf, Booked
    <2> QED BY <1>3, <2>2 DEF SalesInv, Sold
  <1> QED BY <1>1, <1>2, <1>4, <1>5
          DEF RetailInv, RetailWork, SequenceInv, StockInv, StockReadInv, CopyInv

LEMMA RetailStep ==
    ASSUME RetailInv, [RetailNext]_txnVars
    PROVE  RetailInv'
  <1>1. ASSUME NEW w \in Workers, Begin(w) \/ Query(w) \/ RollBack(w)
        PROVE  RetailInv'
    BY <1>1, RetailBeginKeeps, RetailQueryKeeps, RetailRollBackKeeps
  <1>2. ASSUME NEW w \in Workers, Draft(w) \/ Issue(w) \/ Checkout(w)
        PROVE  RetailInv'
    BY <1>2, RetailDraftKeeps, RetailIssueKeeps, RetailCheckoutKeeps
  <1>3. ASSUME NEW w \in Workers, Cancel(w) \/ Pay(w) \/ Void(w)
        PROVE  RetailInv'
    BY <1>3, RetailCancelKeeps, RetailPayKeeps, RetailVoidKeeps
  <1>4. ASSUME NEW w \in Workers, Sell(w) \/ Adjust(w) \/ Settle(w)
        PROVE  RetailInv'
    BY <1>4, RetailSellKeeps, RetailAdjustKeeps, RetailSettleKeeps
  <1>5. CASE UNCHANGED txnVars
    <2>1. db' = db /\ work' = work
      BY <1>5 DEF txnVars
    <2>2. RetailShape(db)' /\ RetailWork' /\ SequenceInv' /\ StockInv' /\ StockReadInv'
      BY <2>1 DEF RetailInv, RetailShape, RetailWork, SequenceInv, StockInv, StockReadInv, Bill
    <2>3. CopyInv'
      BY <2>1 DEF RetailInv, CopyInv, Copy, SalesOf, Booked
    <2> QED BY <2>1, <2>2, <2>3, BooksAreKept DEF RetailInv
  <1> QED BY <1>1, <1>2, <1>3, <1>4, <1>5 DEF RetailNext

\* The inductive invariant of the hub's counter: what a request knows of the
\* number sequence and, unless it adjusts it, of the stock, it knows under a
\* row lock and is so; an invoice it asks for exists; what a copy of an
\* invoice says of its sale is so.
THEOREM RetailInvariance == RetailSpec => []RetailInv
  <1>1. RetailInit => RetailInv
    BY RetailInitInv
  <1>2. RetailInv /\ [RetailNext]_txnVars => RetailInv'
    BY RetailStep
  <1> QED BY <1>1, <1>2, PTL DEF RetailSpec

\* Invoice numbers are consecutive: generate_next_invoice_number gives them
\* under a lock that is kept until the invoice is committed.
THEOREM InvoiceNumbersAreConsecutive == RetailSpec => []NumbersHaveNoGap
  <1>1. RetailInv => NumbersHaveNoGap
    BY DEF RetailInv, NumbersInv
  <1> QED BY <1>1, RetailInvariance, PTL

\* An invoice has one Sale at most, and one when it counts as sold, whatever
\* copies of it issue_invoice, add_invoice_payment and void_invoice act on.
THEOREM InvoicesSoldOnce == RetailSpec => []InvoicesAreSoldOnce
  <1>1. ASSUME RetailInv, NEW i \in Invoices
        PROVE  /\ Cardinality(SalesOf(i)) <= 1
               /\ db.invoice[i].status \notin {"none", "draft", "cancelled"} => SalesOf(i) # {}
    <2>1. db.invoice[i].status \in Statuses
      BY <1>1 DEF RetailInv, RetailShape, InvoiceType
    <2>2. \A r \in SalesOf(i) : \A s \in SalesOf(i) : r = s
      BY <1>1 DEF RetailInv, SalesInv
    <2>3. SalesOf(i) = {} \/ \E r : SalesOf(i) = {r}
      BY <2>2
    <2>4. Cardinality(SalesOf(i)) <= 1
      <3>1. CASE SalesOf(i) = {}
        <4>1. Cardinality(SalesOf(i)) = 0
          BY <3>1, FS_EmptySet
        <4> QED BY <4>1
      <3>2. ASSUME NEW r, SalesOf(i) = {r} PROVE Cardinality(SalesOf(i)) <= 1
        <4>1. Cardinality(SalesOf(i)) = 1
          BY <3>2, FS_Singleton
        <4> QED BY <4>1
      <3> QED BY <2>3, <3>1, <3>2
    <2>5. db.invoice[i].status \in Sold => SalesOf(i) # {}
      BY <1>1 DEF RetailInv, SalesInv
    <2> QED BY <2>1, <2>4, <2>5 DEF Sold
  <1>2. RetailInv => InvoicesAreSoldOnce
    BY <1>1 DEF InvoicesAreSoldOnce
  <1> QED BY <1>2, RetailInvariance, PTL

-----------------------------------------------------------------------------
(* What a sale takes from the stock.                                        *)

LEMMA SoldByIs ==
    ASSUME NEW r \in Requests, NEW p \in Products
    PROVE  SoldBy(r, p) \in Nat
  <1>1. CASE r.kind \in {"issue", "checkout"}
    <2>1. PICK i \in Invoices : i = r.invoice
      BY <1>1, RetailRequests DEF OnInvoice
    <2>2. SoldBy(r, p) = IF Line[i].product = p THEN Line[i].quantity ELSE 0
      BY <1>1, <2>1 DEF SoldBy
    <2> QED BY <2>2, LineFields
  <1>2. CASE r.kind = "sell"
    BY <1>2, RetailRequests DEF SoldBy
  <1>3. CASE r.kind \notin {"issue", "checkout", "sell"}
    BY <1>3 DEF SoldBy
  <1> QED BY <1>1, <1>2, <1>3

SoldIn(S, p) == MapThenSumSet(LAMBDA r : SoldBy(r, p), S)

LEMMA SoldInIs ==
    ASSUME NEW S \in SUBSET Requests, IsFiniteSet(S), NEW p \in Products
    PROVE  SoldIn(S, p) = SumOver(S, [r \in Requests |-> SoldBy(r, p)])
  <1> DEFINE f == [r \in Requests |-> SoldBy(r, p)]
             g == CHOOSE g : g = [s \in SUBSET S |->
                    IF s = {} THEN 0 ELSE SoldBy(One(s), p) + g[s \ {One(s)}]]
  <1>1. SoldIn(S, p) = g[S]
    BY Zenon DEF SoldIn, MapThenSumSet, MapThenFoldSet, One
  <1>2. \A s \in SUBSET S : s # {} => f[One(s)] = SoldBy(One(s), p)
    BY OneIn
  <1>3. PICK k : Adds(S, f, k)
    BY AddsExist
  <1>4. k = [s \in SUBSET S |-> IF s = {} THEN 0 ELSE SoldBy(One(s), p) + k[s \ {One(s)}]]
    <2> HIDE DEF f
    <2> QED BY <1>2, <1>3 DEF Adds
  <1>5. g = [s \in SUBSET S |-> IF s = {} THEN 0 ELSE SoldBy(One(s), p) + g[s \ {One(s)}]]
    <2> HIDE DEF f
    <2> QED BY <1>4
  <1> HIDE DEF g, f
  <1>6. Adds(S, f, g)
    BY <1>2, <1>5 DEF Adds
  <1>7. SumOver(S, f) = g[S]
    BY <1>6, SumIs
  <1> QED BY <1>1, <1>7 DEF f

LEMMA NothingSold == ASSUME NEW p \in Products PROVE SoldIn({}, p) = 0
  <1>1. {} \in SUBSET Requests /\ IsFiniteSet({})
    BY FS_EmptySet
  <1> QED BY <1>1, SoldInIs, SumEmpty

LEMMA OneSold ==
    ASSUME NEW r \in Requests, NEW p \in Products
    PROVE  SoldIn({r}, p) = SoldBy(r, p)
  <1>1. PICK f : f = [s \in Requests |-> SoldBy(s, p)]
    OBVIOUS
  <1>2. {r} \in SUBSET Requests /\ IsFiniteSet({r})
    BY FS_Singleton
  <1>3. SoldIn({r}, p) = SumOver({r}, f)
    BY <1>1, <1>2, SoldInIs
  <1>4. f[r] = SoldBy(r, p) /\ f[r] \in Int
    BY <1>1, SoldByIs
  <1>5. SumOver({r}, f) = f[r] + SumOver({r} \ {r}, f)
    <2>1. \A x \in {r} : f[x] \in Int
      BY <1>4
    <2> QED BY <1>2, <2>1, SumTake
  <1>6. SumOver({r} \ {r}, f) = 0
    <2>1. {r} \ {r} = {}
      OBVIOUS
    <2> QED BY <2>1, SumEmpty
  <1> QED BY <1>3, <1>4, <1>5, <1>6

\* What a step that books op has to do to the stock, and one that books nothing.
LEMMA OneBooked ==
    ASSUME RetailInv, NEW op \in Requests, op \notin db.booked,
           db'.booked = db.booked \cup {op}
    PROVE  \A p \in Products : SoldIn(db'.booked \ db.booked, p) = SoldBy(op, p)
  <1>1. db'.booked \ db.booked = {op}
    OBVIOUS
  <1> QED BY <1>1, OneSold

LEMMA NoneBooked ==
    ASSUME db'.booked = db.booked
    PROVE  \A p \in Products : SoldIn(db'.booked \ db.booked, p) = 0
  <1>1. db'.booked \ db.booked = {}
    OBVIOUS
  <1> QED BY <1>1, NothingSold

\* The step takes from each stock what it sells, and no more than there is.
Moved == \A p \in Products :
    LET sold == SoldIn(db'.booked \ db.booked, p)
    IN  sold > 0 => db'.stock[p] = db.stock[p] - sold /\ db'.stock[p] >= 0

\* The step of a sale: op takes n of product p.
LEMMA SaleMoves ==
    ASSUME RetailInv, NEW op \in Requests, op \notin db.booked,
           db'.booked = db.booked \cup {op},
           NEW p \in Products, NEW n \in Nat, db.stock[p] - n \in Nat,
           \A q \in Products : SoldBy(op, q) = IF q = p THEN n ELSE 0,
           db'.stock = [db.stock EXCEPT ![p] = @ - n]
    PROVE  Moved
  <1>1. \A q \in Products : SoldIn(db'.booked \ db.booked, q) = SoldBy(op, q)
    BY OneBooked
  <1>2. db'.stock[p] = db.stock[p] - n
    BY DEF RetailInv, RetailShape
  <1>3. ASSUME NEW q \in Products, SoldBy(op, q) > 0 PROVE q = p /\ SoldBy(op, q) = n
    BY <1>3
  <1>4. db'.stock[p] >= 0
    BY <1>2
  <1> SUFFICES ASSUME NEW q \in Products, SoldIn(db'.booked \ db.booked, q) > 0
               PROVE  /\ db'.stock[q] = db.stock[q] - SoldIn(db'.booked \ db.booked, q)
                      /\ db'.stock[q] >= 0
    BY DEF Moved
  <1>5. q = p /\ SoldIn(db'.booked \ db.booked, q) = n
    BY <1>1, <1>3
  <1> QED BY <1>2, <1>4, <1>5

LEMMA InvoiceMoves ==
    ASSUME RetailInv, NEW w \in Workers, Issue(w) \/ Checkout(w)
    PROVE  Moved
  <1> DEFINE t == work[w]
  <1>1. /\ w \in DOMAIN work /\ t.op \in Requests /\ t.op.kind \in {"issue", "checkout"}
        /\ t.at > Len(Queries(t)) /\ GoesOn(t) /\ t.op \notin db.booked
    BY RetailWritesFacts DEF Issue, Checkout
  <1>2. PICK p \in Products : p = Bill(t).product
    BY <1>1, GoodsAreThere
  <1>3. PICK n \in Nat : n = Bill(t).quantity
    BY <1>1, RetailRequests, LineFields DEF Bill, OnInvoice
  <1>4. db.stock[p] - n \in Nat
    BY <1>1, <1>2, <1>3, GoodsAreThere
  <1>5. /\ db'.booked = db.booked \cup {t.op}
        /\ db'.stock = [db.stock EXCEPT ![p] = @ - n]
    BY <1>2, <1>3, RetailIssueKeeps, RetailCheckoutKeeps
  <1>6. \A q \in Products : SoldBy(t.op, q) = IF q = p THEN n ELSE 0
    BY <1>1, <1>2, <1>3 DEF SoldBy, Bill
  <1> QED BY <1>1, <1>4, <1>5, <1>6, SaleMoves

LEMMA SellMoves ==
    ASSUME RetailInv, NEW w \in Workers, Sell(w)
    PROVE  Moved
  <1> DEFINE op == work[w].op
  <1>1. op \in Requests /\ op.kind = "sell" /\ op \notin db.booked
    BY RetailWritesFacts DEF Sell
  <1>2. /\ db'.booked = db.booked \cup {op}
        /\ op.product \in Products /\ op.quantity \in Nat
        /\ db.stock[op.product] - op.quantity \in Nat
        /\ db'.stock = [db.stock EXCEPT ![op.product] = @ - op.quantity]
    BY RetailSellKeeps
  <1>3. \A q \in Products : SoldBy(op, q) = IF q = op.product THEN op.quantity ELSE 0
    BY <1>1 DEF SoldBy
  <1> HIDE DEF op
  <1> QED BY <1>1, <1>2, <1>3, SaleMoves

LEMMA OthersMoveNothing ==
    ASSUME RetailInv, NEW w \in Workers, Pay(w) \/ Adjust(w) \/ Settle(w)
    PROVE  Moved
  <1> DEFINE op == work[w].op
  <1>1. op \in Requests /\ op.kind \in {"pay", "adjust", "settle"} /\ op \notin db.booked
    BY RetailWritesFacts DEF Pay, Adjust, Settle
  <1>2. db'.booked = db.booked \cup {op}
    BY RetailPayKeeps, RetailAdjustKeeps, RetailSettleKeeps
  <1>3. \A q \in Products : SoldBy(op, q) = 0
    BY <1>1 DEF SoldBy
  <1> HIDE DEF op
  <1> QED BY <1>1, <1>2, <1>3, OneBooked DEF Moved

\* A sale, of an invoice or without one, takes from the stock what it moves
\* and no more than there is: create_sale and validate_stock_for_invoice keep
\* the stock they read locked until they commit.
THEOREM SalesMoveStock == RetailSpec => SalesTakeWhatTheyMove
  <1>1. ASSUME RetailInv, [RetailNext]_txnVars PROVE Moved
    <2>1. ASSUME NEW w \in Workers, Issue(w) \/ Checkout(w) PROVE Moved
      BY <1>1, <2>1, InvoiceMoves
    <2>2. ASSUME NEW w \in Workers, Sell(w) PROVE Moved
      BY <1>1, <2>2, SellMoves
    <2>3. ASSUME NEW w \in Workers, Pay(w) \/ Adjust(w) \/ Settle(w) PROVE Moved
      BY <1>1, <2>3, OthersMoveNothing
    <2>4. CASE db'.booked = db.booked
      BY <2>4, NoneBooked DEF Moved
    <2>5. ASSUME NEW w \in Workers, Begin(w) \/ Query(w) \/ RollBack(w)
          PROVE  db'.booked = db.booked
      BY <2>5 DEF Begin, Query, RollBack
    <2>6. ASSUME NEW w \in Workers, Draft(w) \/ Cancel(w) \/ Void(w)
          PROVE  db'.booked = db.booked
      BY <1>1, <2>6, RetailDraftKeeps, RetailCancelKeeps, RetailVoidKeeps
    <2>7. CASE UNCHANGED txnVars
      BY <2>4, <2>7 DEF txnVars
    <2> QED BY <1>1, <2>1, <2>2, <2>3, <2>4, <2>5, <2>6, <2>7 DEF RetailNext
  <1>2. RetailInv /\ [RetailNext]_txnVars =>
           [\A p \in Products :
              LET sold == MapThenSumSet(LAMBDA r : SoldBy(r, p), db'.booked \ db.booked)
              IN  sold > 0 => /\ db'.stock[p] = db.stock[p] - sold
                              /\ db'.stock[p] >= 0]_txnVars
    BY <1>1 DEF Moved, SoldIn
  <1> QED BY <1>2, RetailInvariance, PTL DEF RetailSpec, SalesTakeWhatTheyMove
=============================================================================
