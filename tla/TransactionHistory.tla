------------------------- MODULE TransactionHistory -------------------------
(***************************************************************************)
(* FLSqlDatabase with three history variables, which no action reads: the  *)
(* table as it was when each open level began, the table the program owes  *)
(* its caller, which differs from the actual one only while an emulated    *)
(* rollback is being carried out, and the operation it last performed.     *)
(***************************************************************************)
EXTENDS FLSqlDatabase

VARIABLES
    entry,   \* entry[i]: the table when level i was opened
    target,  \* the table as promised
    last     \* begin, write, commit, rollback, or lose (the connection or the process)

hvars == <<vars, entry, target, last>>

HInit == Init /\ entry = <<>> /\ target = table /\ last = "write"

TrackLevels ==
    entry' = IF transaction_' > transaction_ THEN Append(entry, table)
             ELSE SubSeq(entry, 1, transaction_')

TrackTarget ==
    target' = IF undo'.phase = "none" THEN table'
              ELSE IF undo.phase = "none" THEN entry[transaction_]
              ELSE target

RollsBack(c) == CloseLevel(c) /\ (RollbackTransaction(c) \/ RollbackServer(c) \/ RollbackEmulated(c))

\* the steps that carry out an emulated rollback are part of it
TrackOperation ==
    last' = IF crash \/ Finish \/ (transaction_' < transaction_ /\ EndFails) THEN "lose"
            ELSE IF transaction_' > transaction_ THEN "begin"
            ELSE IF Undoing THEN last
            ELSE IF transaction_' = transaction_ THEN "write"
            ELSE IF \E c \in Cursors : RollsBack(c) THEN "rollback"
            ELSE "commit"

HNext == Next /\ TrackLevels /\ TrackTarget /\ TrackOperation

HSpec == HInit /\ [][HNext]_hvars

(***************************************************************************)
(* The nesting implements NestedTransactions.  Behaviour: doTransaction,   *)
(* doCommit and doRollback together with whatever carries the levels,      *)
(* engine savepoints or the emulated stack and queue.                      *)
(***************************************************************************)
NT == INSTANCE NestedTransactions WITH table <- target, stack <- entry

Nested == NT!Spec

RollbackStep ==
    /\ EndRollback => table = target
    /\ \A c \in Cursors : CloseLevel(c) /\ RollbackServer(c) => table' = entry[transaction_]

(***************************************************************************)
(* A rollback leaves the table as it was when the level it ends began      *)
(* (FLSqlCursor.h, rollback: "Deshace las operaciones de una transaccion   *)
(* y la acaba").                                                           *)
(***************************************************************************)
RollbackRestores == [][RollbackStep]_hvars

=============================================================================
