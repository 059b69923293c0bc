----------------------------- MODULE MCHubSync -----------------------------
(***************************************************************************)
(* Instances of HubSync.                                                   *)
(***************************************************************************)
EXTENDS HubSync

CONSTANTS o1, o2, b1

TwoOrders == {o1, o2}
OneOrder == {o1}
OneBill == {b1}
NoBill == {}
AboutO1 == [b \in Bills |-> o1]

Course == {"accepted", "preparing", "ready", "served", "bill_requested", "cancelled"}
Accept == {"accepted"}

AnythingGoesWrong == {"misfit", "exception", "timeout", "crash"}
TheHandlersAndTheLinkFail == {"misfit", "exception", "timeout"}

\* The behaviours hub_sync follows: one order with a bill request and two
\* uploads, where either inbound or outbound attempts fail; the whole course of
\* one order, or two orders that share the table, while none does.
InboundWorks == \A i \in DOMAIN inbox : inbox[i].attempts = 0
OutboundWorks == \A i \in DOMAIN outbox : outbox[i].row.attempts = 0
Menu ==
    \/ /\ cloudOrder[o2] = "none"
       /\ Len(outbox) <= 2
       /\ InboundWorks \/ OutboundWorks
    \/ /\ cloudOrder[o2] = "none"
       /\ Len(commands) <= 1
       /\ InboundWorks /\ OutboundWorks
    \/ /\ Len(outbox) <= 3
       /\ InboundWorks /\ OutboundWorks
=============================================================================
