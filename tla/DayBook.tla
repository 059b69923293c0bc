------------------------------ MODULE DayBook ------------------------------
(***************************************************************************)
(* What the business-day closing of a branch promises, without requests,   *)
(* transactions or documents: money is collected into a day that is not    *)
(* finalised and has begun; submitting a day fixes the count of            *)
(* what was collected; only a reopened day changes again.                  *)
(*                                                                         *)
(* The code has two kinds of collection that do not look at the closing of *)
(* the day they collect on (a payment on a customer account, a checkout    *)
(* whose invoice_date is another day).  They are here as what they are:    *)
(* strays, which a count may or may not have seen.                         *)
(***************************************************************************)
EXTENDS Integers

CONSTANTS LastDay

VARIABLES today, closing, booked, stray

bookVars == <<today, closing, booked, stray>>

BookDays == 1..LastDay

Settled(d) == closing[d].status \in {"submitted", "closed"}

Init ==
    /\ today = 1
    /\ closing = [d \in BookDays |-> [status |-> "none", count |-> 0]]
    /\ booked = [d \in BookDays |-> 0]
    /\ stray = [d \in BookDays |-> 0]

Midnight ==
    /\ today < LastDay
    /\ today' = today + 1
    /\ UNCHANGED <<closing, booked, stray>>

\* Only the day d of the totals f changes, to g, and it does not shrink.
Grows(f, g, d) == g = [f EXCEPT ![d] = g[d]] /\ g[d] >= f[d]

Collect(d) ==
    /\ d <= today /\ ~Settled(d)
    /\ Grows(booked, booked', d)
    /\ UNCHANGED <<today, closing, stray>>

CollectUnchecked(d) ==
    /\ d <= today
    /\ Grows(stray, stray', d)
    /\ UNCHANGED <<today, closing, booked>>

\* A day is opened on the day itself.  The date is read before the record is
\* written, so midnight may have passed in between.
Open(d) ==
    /\ d <= today
    /\ closing[d].status = "none"
    /\ closing' = [closing EXCEPT ![d] = [status |-> "open", count |-> 0]]
    /\ UNCHANGED <<today, booked, stray>>

Submit(d) ==
    /\ closing[d].status \in {"open", "reopened"}
    /\ \E seen \in 0..stray[d] :
          closing' = [closing EXCEPT ![d] = [status |-> "submitted",
                                             count |-> booked[d] + seen]]
    /\ UNCHANGED <<today, booked, stray>>

Close(d) ==
    /\ closing[d].status = "submitted"
    /\ closing' = [closing EXCEPT ![d].status = "closed"]
    /\ UNCHANGED <<today, booked, stray>>

Reopen(d) ==
    /\ Settled(d)
    /\ closing' = [closing EXCEPT ![d].status = "reopened"]
    /\ UNCHANGED <<today, booked, stray>>

Next ==
    \/ Midnight
    \/ \E d \in BookDays : \/ Collect(d) \/ CollectUnchecked(d)
                           \/ Open(d) \/ Submit(d) \/ Close(d) \/ Reopen(d)

Spec == Init /\ [][Next]_bookVars
=============================================================================
