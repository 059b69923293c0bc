------------------------------ MODULE RowLocks ------------------------------
(***************************************************************************)
(* The PostgreSQL transactions the services of the Local Hub run in: one   *)
(* SQLAlchemy session per request, READ COMMITTED, no autoflush             *)
(* (db/session.py).                                                        *)
(*                                                                         *)
(* A handler reads rows one query after the other and writes at its        *)
(* commit.  A query sees what is committed when it runs.  The rows a query *)
(* names with_for_update() stay locked until the transaction ends: another *)
(* query that locks them, or a commit that writes them, waits.  A row the  *)
(* session has loaded keeps the values of the first time, whatever a later *)
(* query, a locking one included, finds in the database: only db.refresh   *)
(* reads it again.  A commit writes the columns the handler assigned, with *)
(* the values it computed from its copies.                                 *)
(*                                                                         *)
(* Any transaction may be rolled back at any moment: a refusal, a          *)
(* constraint, a lost connection, a crash or PostgreSQL ending a deadlock. *)
(***************************************************************************)
EXTENDS Integers, Sequences

CONSTANT Workers        \* requests the hub serves at the same time

VARIABLES db,           \* the committed database
          work          \* the open transactions, a function on the workers
                        \* that have one

txnVars == <<db, work>>

\* Worker w takes up the request op, sent by a client that was shown version
\* `version' of what it asks to change.
OpenTxn(w, op, version) ==
    work' = [v \in DOMAIN work \cup {w} |->
               IF v = w THEN [op |-> op, version |-> version, at |-> 1,
                              saw |-> <<>>, locked |-> {}]
               ELSE work[v]]

\* Nobody else has locked row r.
Free(w, r) == \A v \in DOMAIN work \ {w} : r \notin work[v].locked

\* What `first' knows, and what only `second' knows.
Over(first, second) ==
    [r \in DOMAIN first \cup DOMAIN second |->
       IF r \in DOMAIN first THEN first[r] ELSE second[r]]

\* The next query of w: it locks the rows of `locks' and loads the rows of
\* `found'; those the session has already keep their values unless the query
\* is a refresh.
Load(w, locks, found, refresh) ==
    /\ \A r \in locks : Free(w, r)
    /\ work' = [work EXCEPT ![w].at = @ + 1,
                            ![w].locked = @ \cup locks,
                            ![w].saw = IF refresh THEN Over(found, @) ELSE Over(@, found)]

\* The kinds of query: rows are looked up, read again, or read and locked.
Find(rows)  == [lock |-> {}, look |-> rows, refresh |-> FALSE]
Again(rows) == [lock |-> {}, look |-> rows, refresh |-> TRUE]
Take(rows)  == [lock |-> rows, look |-> rows, refresh |-> FALSE]

EndTxn(w) == work' = [v \in DOMAIN work \ {w} |-> work[v]]

\* The rows `written' are updated, or inserted where nobody could lock them.
CommitTxn(w, written, next) ==
    /\ \A r \in written : Free(w, r)
    /\ db' = next
    /\ EndTxn(w)
=============================================================================
