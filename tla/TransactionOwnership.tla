------------------------ MODULE TransactionOwnership ------------------------
(***************************************************************************)
(* Which cursor answers for which open level.  FLSqlDatabase counts levels *)
(* for the whole connection; each cursor keeps the stack of the levels it  *)
(* opened, and its destructor rolls back as many levels as it has there.   *)
(***************************************************************************)
EXTENDS FLSqlDatabase, FiniteSets

\* <<c, i>>: the level at position i of the record of cursor c
OnRecord == UNION {{c} \X DOMAIN transactionsOpened_[c] : c \in Cursors}

LevelsOnRecord == Cardinality(OnRecord)

(***************************************************************************)
(* Behaviour: the stack transactionsOpened_, pushed by doTransaction,      *)
(* popped by doCommit, doRollback and the destructor's rollbackOpened.     *)
(* Every open level is on the record of some cursor, whose destruction     *)
(* would close it: no level stays open with nobody left to end it          *)
(* (~FLSqlCursor: "Se van a cancelar las transacciones pendientes.").      *)
(***************************************************************************)
EveryLevelOnRecord == transaction_ <= LevelsOnRecord

(***************************************************************************)
(* FLSqlCursor.h on commit: "Hace efectiva la transaccion y la acaba".     *)
(* What the connection sees when the outermost commit reports success is   *)
(* durable.                                                                *)
(***************************************************************************)
CommitIsEffective ==
    [][\A c \in Cursors, notify \in BOOLEAN :
           CloseLevel(c) /\ CommitTransaction(c, notify) => durable' = table]_vars

=============================================================================
