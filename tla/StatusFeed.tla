----------------------------- MODULE StatusFeed -----------------------------
(***************************************************************************)
(* What a guest is promised about an order that was sent to the cloud: the *)
(* status on the phone is one the Cafe really published, the published     *)
(* statuses appear in their order and none is skipped.                     *)
(***************************************************************************)
EXTENDS Naturals, Sequences

CONSTANTS Orders, Statuses, Awaiting

VARIABLES published,    \* the statuses the Cafe has published, oldest first
          seen,         \* how many of them the cloud has taken
          shown         \* the status the guest sees

vars == <<published, seen, shown>>

Init ==
    /\ published = [o \in Orders |-> <<>>]
    /\ seen = [o \in Orders |-> 0]
    /\ shown = [o \in Orders |-> "none"]

Submit(o) ==
    /\ shown[o] = "none"
    /\ shown' = [shown EXCEPT ![o] = Awaiting]
    /\ UNCHANGED <<published, seen>>

\* One act of the Cafe may concern every order of a table.
Publish(P, s) ==
    /\ \A o \in P : shown[o] # "none"
    /\ published' = [o \in Orders |-> IF o \in P THEN Append(published[o], s)
                                                ELSE published[o]]
    /\ UNCHANGED <<seen, shown>>

Take(o) ==
    /\ seen[o] < Len(published[o])
    /\ seen' = [seen EXCEPT ![o] = @ + 1]
    /\ shown' = [shown EXCEPT ![o] = published[o][seen[o] + 1]]
    /\ UNCHANGED published

Next ==
    \/ \E o \in Orders : Submit(o) \/ Take(o)
    \/ \E P \in SUBSET Orders, s \in Statuses : Publish(P, s)

Spec == Init /\ [][Next]_vars
=============================================================================
