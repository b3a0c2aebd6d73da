------------------------------ MODULE MCBackends ------------------------------
(***************************************************************************)
(* The nested transactions over each kind of engine in one run: a          *)
(* behaviour is one of TransactionHistory over the engine chosen at the    *)
(* beginning.  The bounds are those that let every case of the engine      *)
(* happen: three levels where the engine has savepoints, one nested level  *)
(* where they are emulated over transactions (SQLite), and no nested level *)
(* where there are no transactions at all.                                 *)
(***************************************************************************)
EXTENDS Sequences, Naturals

CONSTANTS Keys, Values, NoRow, Cursors, NoCursor, NoSavePoint, NoBuffer

VARIABLES
    engine,
    table, durable, serverSP, aborted,
    transaction_, currentSavePoint_, stackSavePoints_, queueSavePoints_, lastActiveCursor_,
    alive, transactionsOpened_, modeAccess_, bufferCopy_,
    editIndex, undo, loop,
    entry, target, last

Psql == INSTANCE TransactionHistory WITH
            Backend <- "psql", Events <- {"refuse", "crash", "fail"},
            MaxLevel <- 3, MaxOps <- 0, MaxSavePoints <- 3, MaxOpened <- 3

MySql == INSTANCE TransactionHistory WITH
            Backend <- "mysql", Events <- {"stale", "refuse", "crash", "fail"},
            MaxLevel <- 3, MaxOps <- 0, MaxSavePoints <- 4, MaxOpened <- 3

SQLite == INSTANCE TransactionHistory WITH
            Backend <- "sqlite", Events <- {"crash"},
            MaxLevel <- 2, MaxOps <- 3, MaxSavePoints <- 3, MaxOpened <- 2

NoInnoDB == INSTANCE TransactionHistory WITH
            Backend <- "mysql_no_innodb", Events <- {"refuse"},
            MaxLevel <- 1, MaxOps <- 4, MaxSavePoints <- 3, MaxOpened <- 1

vars == <<engine, Psql!hvars>>

Init ==
    /\ engine \in {"psql", "mysql", "sqlite", "mysql_no_innodb"}
    /\ Psql!HInit

Next ==
    /\ \/ engine = "psql" /\ Psql!HNext
       \/ engine = "mysql" /\ MySql!HNext
       \/ engine = "sqlite" /\ SQLite!HNext
       \/ engine = "mysql_no_innodb" /\ NoInnoDB!HNext
    /\ UNCHANGED engine

Spec == Init /\ [][Next]_vars

-----------------------------------------------------------------------------
\* Without transactions in the engine a write is durable at once: there a rollback is all
\* that can be promised.
NoTable == [k \in Keys |-> NoRow]
Promised == engine # "mysql_no_innodb"

NT == INSTANCE NestedTransactions WITH
          Tables <- Psql!Tables,
          table <- IF Promised THEN target ELSE NoTable,
          durable <- IF Promised THEN durable ELSE NoTable,
          stack <- IF Promised THEN entry ELSE <<>>,
          last <- IF Promised THEN last ELSE "write"

(***************************************************************************)
(* Over every engine that has transactions, doTransaction, doCommit and    *)
(* doRollback implement NestedTransactions, with savepoints of the engine  *)
(* or emulated, refused rollbacks, failures of the engine and crashes      *)
(* included.                                                               *)
(***************************************************************************)
Nested == NT!Spec

(***************************************************************************)
(* TransactionHistory!RollbackRestores without transactions in the engine: *)
(* undoing the operations of the only level restores the table.            *)
(***************************************************************************)
FlatRollback == [][engine = "mysql_no_innodb" => NoInnoDB!RollbackStep]_vars

=============================================================================
