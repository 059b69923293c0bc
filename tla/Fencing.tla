------------------------------ MODULE Fencing ------------------------------
(***************************************************************************)
(* What a writer lease with fencing epochs promises to the hubs of one     *)
(* scope: every epoch is granted to one hub, a hub acts under an epoch     *)
(* that was granted to it, and what was recorded under an epoch is taken   *)
(* by nobody else.                                                         *)
(***************************************************************************)
EXTENDS Naturals, Sequences

CONSTANTS Hubs, References

VARIABLES granted,      \* granted[e] is the hub that was given epoch e
          known,        \* the epoch each hub acts under, 0 for none
          recorded,     \* the epoch each reference was recorded under, or 0
          taken         \* the hubs that took each reference

vars == <<granted, known, recorded, taken>>

Init ==
    /\ granted = <<>>
    /\ known = [h \in Hubs |-> 0]
    /\ recorded = [r \in References |-> 0]
    /\ taken = [r \in References |-> {}]

Grant(h) ==
    /\ granted' = Append(granted, h)
    /\ UNCHANGED <<known, recorded, taken>>

\* The new epoch's hub hears of it, at once or later, if it is not over.
Learn(h) ==
    /\ \/ granted' = granted
       \/ granted' = Append(granted, h)
    /\ granted' # <<>>
    /\ granted'[Len(granted')] = h
    /\ known' = [known EXCEPT ![h] = Len(granted')]
    /\ UNCHANGED <<recorded, taken>>

Forget(h) ==
    /\ known' = [known EXCEPT ![h] = 0]
    /\ UNCHANGED <<granted, recorded, taken>>

Record(r) ==
    /\ recorded[r] = 0
    /\ \E e \in DOMAIN granted : recorded' = [recorded EXCEPT ![r] = e]
    /\ UNCHANGED <<granted, known, taken>>

Take(h, r) ==
    /\ recorded[r] # 0
    /\ granted[recorded[r]] = h
    /\ taken' = [taken EXCEPT ![r] = @ \cup {h}]
    /\ UNCHANGED <<granted, known, recorded>>

Next == \/ \E h \in Hubs : Grant(h) \/ Learn(h) \/ Forget(h)
        \/ \E r \in References : Record(r) \/ \E h \in Hubs : Take(h, r)

Spec == Init /\ [][Next]_vars
=============================================================================
