---------------------------- MODULE Transactions ----------------------------
(***************************************************************************)
(* One connection to the item database (m_mysql2) and the wrapper every    *)
(* item handler uses over it (SQLTransaction, sql_transaction.hpp).  The   *)
(* rows are whatever the module that extends this one says.                *)
(*                                                                         *)
(* A statement succeeds, or is undone alone, or is the victim of a         *)
(* deadlock, which undoes its whole transaction, or finds the connection   *)
(* gone.  Outside a transaction each statement commits by itself.  A lost  *)
(* connection is never opened again: only a restart of the process does.   *)
(***************************************************************************)

CONSTANT Deadlocks   \* do other users of the database deadlock with this one?

ASSUME DeadlocksAssumption == Deadlocks \in BOOLEAN

VARIABLES
    table,           \* the rows as this connection sees them
    durable,         \* the rows as committed
    inTransaction,   \* is a transaction open on the connection?
    connected        \* does the server still know the connection?

db == <<table, durable, inTransaction, connected>>

\* The server drops what was not committed.
Undone == table' = durable /\ UNCHANGED durable /\ inTransaction' = FALSE

ConnectionLost == Undone /\ connected' = FALSE

\* START TRANSACTION; a transaction already open is committed first.
Started ==
    /\ connected
    /\ durable' = table
    /\ inTransaction' = TRUE
    /\ UNCHANGED <<table, connected>>

\* A statement that succeeds and leaves the rows t.
Executed(t) ==
    /\ connected
    /\ table' = t
    /\ durable' = IF inTransaction THEN durable ELSE t
    /\ UNCHANGED <<inTransaction, connected>>

StatementFailed ==
    \/ UNCHANGED db
    \/ Deadlocks /\ Undone /\ UNCHANGED connected
    \/ ConnectionLost

\* SQLTransaction::Commit.
Committed ==
    /\ connected
    /\ durable' = table
    /\ inTransaction' = FALSE
    /\ UNCHANGED <<table, connected>>

\* A commit that is reported as failed: the connection went before the server
\* saw it, or after the server did it.
CommitFailed ==
    \/ ConnectionLost
    \/ /\ connected
       /\ durable' = table
       /\ UNCHANGED table
       /\ inTransaction' = FALSE
       /\ connected' = FALSE

\* SQLTransaction::Rollback, from the destructor when Commit did not succeed; if
\* the statement that failed took the connection along, nothing is left to undo.
RolledBack == Undone /\ connected' \in {connected, FALSE}

\* A new process opens a new connection.
Reopened == Undone /\ connected' = TRUE
=============================================================================
