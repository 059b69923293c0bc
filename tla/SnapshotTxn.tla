---------------------------- MODULE SnapshotTxn ----------------------------
(***************************************************************************)
(* The MongoDB transactions every handler of apps/web/src/server runs in.  *)
(*                                                                         *)
(* query.transaction (and the identical withTransaction calls of           *)
(* billing.checkout and closing) opens a session, runs the handler against *)
(* a snapshot of the database and commits its writes together.  A document *)
(* that somebody else committed after the snapshot was taken cannot be     *)
(* written: the server answers with a write conflict, a                    *)
(* TransientTransactionError, and the driver runs the handler again on a   *)
(* fresh snapshot.  Documents that are only read are not checked.          *)
(*                                                                         *)
(* A component that EXTENDS this module supplies the database `db', the    *)
(* names of the documents a handler writes and the new value of db.        *)
(***************************************************************************)

CONSTANT Handlers       \* server invocations that may run at the same time

VARIABLES db,           \* the committed database
          run           \* the open transactions, a function on the handlers
                        \* that have one

txnVars == <<db, run>>

\* Transaction h starts the work `op' on the current snapshot, on the business
\* date `day'.
OpenTxn(h, op, day) ==
    run' = [g \in DOMAIN run \cup {h} |->
              IF g = h
              THEN [op |-> op, snap |-> db, day |-> day, missed |-> {}]
              ELSE run[g]]

\* No document of W was committed by another transaction since h's snapshot.
NoConflict(h, W) == run[h].missed \cap W = {}

\* h ends having written the documents W; the others have now missed them.
EndTxn(h, W) ==
    run' = [g \in DOMAIN run \ {h} |->
              [run[g] EXCEPT !.missed = @ \cup W]]

\* h ends without a write: an early return, an HttpError, a crash.
AbortTxn(h) == run' = [g \in DOMAIN run \ {h} |-> run[g]]

\* First committer wins.
CommitTxn(h, W, next) ==
    /\ NoConflict(h, W)
    /\ db' = next
    /\ EndTxn(h, W)
=============================================================================
