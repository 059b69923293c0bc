----------------------------- MODULE MCSaleDesk -----------------------------
(***************************************************************************)
(* Instances of SaleDesk.                                                  *)
(***************************************************************************)
EXTENDS SaleDesk, FiniteSets, TLC

CONSTANTS h1, h2, owner, clerk

TwoUsers == {owner, clerk}
TwoHandlers == {h1, h2}
OneHandler == {h1}
HandlerSymmetry == Permutations(TwoHandlers)

To(u, role, active) == [user |-> u, role |-> role, active |-> active]
Promotion == {To(clerk, "super_admin", TRUE)}
Suspension == {To(clerk, "staff", FALSE), To(clerk, "staff", TRUE)}
Transfer == {To(clerk, "kitchen", TRUE)}
EveryChange == Promotion \cup Suspension \cup Transfer
NoChanges == {}

CounterAndGuest == {"cafe", "guest"}
RetailCounter == {"retail"}
EverySurprise == AllSurprises
NetworkOnly == {"network"}

\* The behaviours desk follows: accounts alone, with two requests underway, where
\* the second authenticator and the second time step come one at a time, and the
\* owner's sessions end in the presence of the first or while he works alone; the
\* cafe's counter, while the seller signs in and out and the owner transfers him;
\* or a guest.
ClerkUnused ==
    /\ account[clerk].version = 1
    /\ \A i \in DOMAIN sessions : sessions[i].user = owner
    /\ \A h \in DOMAIN request : request[h].user = owner /\ request[h].op # "manage"
AccountsMenu ==
    /\ sales = 0
    /\ Len(sessions) <= 2
    /\ step = 0 \/ secrets = 1
    /\ account[clerk].active \/ (secrets = 1 /\ step = 0)
    /\ account[clerk].stepped => account[clerk].role = "super_admin"
    /\ \A u \in Users : account[u].role # "kitchen"
    /\ \A h \in DOMAIN request : request[h].change \notin Transfer
    /\ secrets = 1 \/ account[owner].version = 1 \/ ClerkUnused
Untouched(p) == desk[p] = Idle /\ \A s \in posted : s.page # p
CounterMenu ==
    /\ Untouched("guest")
    /\ desk["cafe"].cart.edit = 0 /\ sales <= 1
    /\ Len(sessions) < 3 \/ \E i \in DOMAIN sessions : sessions[i].user = owner
    /\ step = 0 /\ secrets = 1
    /\ account[clerk].active /\ account[clerk].role # "super_admin"
    /\ ~account[clerk].stepped
    /\ account[owner].version = 1 /\ account[owner].last <= 0
    /\ account[owner].recovery = {1}
    /\ \A h, g \in DOMAIN request : h = g
    /\ \A h \in DOMAIN request :
          /\ request[h].op \in IF request[h].user = owner
                               THEN {"login", "step_up", "manage"} ELSE {"login", "logout"}
          /\ request[h].code.kind # "recovery" /\ request[h].code.step <= 0
          /\ request[h].change \in Transfer \cup {NoChange}
GuestMenu == Untouched("cafe") /\ sessions = <<>> /\ step = 0 /\ secrets = 1
                /\ DOMAIN request = {}
Menu == AccountsMenu \/ CounterMenu \/ GuestMenu
=============================================================================
