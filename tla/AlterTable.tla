----------------------------- MODULE AlterTable -----------------------------
(***************************************************************************)
(* A table is rebuilt when its metadata change: the drivers rename the     *)
(* table to a backup, create it with the new fields and copy the records,  *)
(* in one transaction where the engine can undo CREATE, RENAME and DROP    *)
(* (PostgreSQL, SQLite), statement by statement where it cannot (MySQL).   *)
(* FLManager asks for it when the key of the metadata in flmetadata is not *)
(* the one of the .mtd file, Mr_Proper and regenTable when the fields of   *)
(* the table are not those of its metadata.  One table is modelled, with   *)
(* its backups; the records are what users stored in it.                   *)
(***************************************************************************)
EXTENDS Naturals, FiniteSets, Sequences, SequencesExt

CONSTANTS
    Records,       \* what users may store in the table
    Engines,       \* the engines considered, a subset of AllEngines
    Faults,        \* per engine: "crash" and "commit" (COMMIT refused), if they may happen
    LIMIT_RESULT,  \* records per statement when they are copied one by one
    MaxShape,      \* bound: versions of the metadata
    MaxBackups     \* bound: backups when a rebuild starts

AllEngines == {"psql", "sqlite", "innodb", "myisam"}

ASSUME AlterAssumption ==
    /\ Engines \subseteq AllEngines
    /\ Faults \in [Engines -> SUBSET {"crash", "commit"}]
    /\ LIMIT_RESULT \in Nat \ {0}
    /\ MaxShape \in Nat \ {0}
    /\ MaxBackups \in Nat

VARIABLES
    engine,    \* the engine of the connection
    mtd,       \* the version of the metadata in the .mtd file
    table,     \* the table, as the auxiliary connection sees it
    backups,   \* the renamed tables, the newest last
    key,       \* the version recorded in flmetadata
    dictKey,   \* dictKeyMetaData_: the version recorded in memory, 0 if none
    listed,    \* listTables_ has the table
    pc,        \* the next statement of the rebuild
    caller,    \* who asked for it
    force,     \* the parameter of alterTable2
    todo,      \* the records of the backup not copied yet
    result,    \* what alterTable returned
    inTrans,   \* a transaction of the auxiliary connection is open
    saved,     \* the tables when it was opened (PostgreSQL, SQLite)
    live,      \* the records users stored and did not remove
    doubt      \* a version was once recorded without a rebuild that took effect

dbVars == <<table, backups>>
keyVars == <<key, dictKey, doubt>>
callVars == <<caller, force>>
transVars == <<inTrans, saved>>
vars == <<engine, mtd, dbVars, keyVars, listed, pc, callVars, todo, result, transVars, live>>

\* a table that does not exist has the shape 0
Tables == [shape : 0..MaxShape, rows : SUBSET Records]
NoTable == [shape |-> 0, rows |-> {}]
Fresh == [shape |-> mtd, rows |-> {}]
NoSave == [table |-> NoTable, backups |-> <<>>]

Steps == {"idle", "rename", "create", "insert", "copy", "commit", "drop", "restore",
          "returned", "exists", "clean"}
Callers == {"metadata", "cleanup", "proper", "regen"}

TypeOK ==
    /\ engine \in Engines
    /\ mtd \in 1..MaxShape
    /\ table \in Tables
    /\ backups \in Seq(Tables)
    /\ key \in 1..MaxShape
    /\ dictKey \in 0..MaxShape
    /\ listed \in BOOLEAN
    /\ pc \in Steps
    /\ caller \in Callers
    /\ force \in BOOLEAN
    /\ todo \in SUBSET Records
    /\ result \in BOOLEAN
    /\ inTrans \in BOOLEAN
    /\ saved \in [table : Tables, backups : Seq(Tables)]
    /\ live \in SUBSET Records
    /\ doubt \in BOOLEAN

Init ==
    /\ engine \in Engines
    /\ mtd = 1
    /\ table = [shape |-> 1, rows |-> {}]
    /\ backups = <<>>
    /\ key = 1
    /\ dictKey = 1
    /\ listed = TRUE
    /\ pc = "idle"
    /\ caller = "metadata"
    /\ force = FALSE
    /\ todo = {}
    /\ result = FALSE
    /\ inTrans = FALSE
    /\ saved = NoSave
    /\ live = {}
    /\ doubt = FALSE

-----------------------------------------------------------------------------
\* the engine undoes CREATE, RENAME and DROP with the transaction they are part of
TransactionalDDL == engine \in {"psql", "sqlite"}

Exists == table.shape # 0

Stored == table.rows \cup UNION {backups[i].rows : i \in DOMAIN backups}

\* FLManager::existsTable, with the list of tables read at the start
existsTable == listed \/ Exists

\* QPSQLDriver::mismatchedTable and its like: the fields are not those of the metadata.
\* (Two versions differ in a field that is new or changed: fields only dropped go unnoticed.)
mismatchedTable == Exists /\ table.shape # mtd

\* A ROLLBACK of the auxiliary connection, or its end.  In MySQL only the records copied
\* are undone; without InnoDB there is no transaction.
Undo ==
    /\ IF inTrans /\ TransactionalDDL
         THEN table' = saved.table /\ backups' = saved.backups
         ELSE /\ table' = IF inTrans /\ engine = "innodb" THEN [table EXCEPT !.rows = {}]
                                                          ELSE table
              /\ UNCHANGED backups
    /\ inTrans' = FALSE
    /\ saved' = NoSave

Return(ok) == result' = ok /\ pc' = "returned"

\* the call that asked for the rebuild is over
Finish == pc' = "idle" /\ caller' = "metadata" /\ force' = FALSE /\ result' = FALSE

-----------------------------------------------------------------------------
(***************************************************************************)
(* Users and the administrator, while no rebuild is going on.  PostgreSQL  *)
(* and SQLite lock the table until the transaction ends.                   *)
(***************************************************************************)
MayWrite == Exists /\ ~inTrans /\ (pc = "idle" \/ TransactionalDDL)

StoreRecord(r) ==
    /\ MayWrite
    /\ r \notin live
    /\ table' = [table EXCEPT !.rows = @ \cup {r}]
    /\ live' = live \cup {r}
    /\ UNCHANGED <<engine, mtd, backups, keyVars, listed, pc, callVars, todo, result, transVars>>

RemoveRecord(r) ==
    /\ MayWrite
    /\ r \in table.rows
    /\ table' = [table EXCEPT !.rows = @ \ {r}]
    /\ live' = live \ {r}
    /\ UNCHANGED <<engine, mtd, backups, keyVars, listed, pc, callVars, todo, result, transVars>>

\* a new version of the module is loaded
NewMtd ==
    /\ pc = "idle"
    /\ mtd < MaxShape
    /\ mtd' = mtd + 1
    /\ UNCHANGED <<engine, dbVars, keyVars, listed, pc, callVars, todo, result, transVars, live>>

-----------------------------------------------------------------------------
\* The checks of alterTable2 before the first statement.
alterTable2(who, forced) ==
    /\ Len(backups) < MaxBackups
    /\ caller' = who
    /\ force' = forced
    /\ IF existsTable
         THEN pc' = "rename" /\ UNCHANGED result
         ELSE Return(FALSE)

\* Mutant: the version looked up, which may be none, is recorded instead of the one in use.
metadataDevKeepsKey(who) ==
    /\ pc = "idle"
    /\ LET known == IF who = "cleanup" THEN key ELSE dictKey IN
       IF known \in {0, mtd}
         THEN /\ key' = known
              /\ dictKey' = mtd
              /\ caller' = who
              /\ pc' = "exists"
              /\ UNCHANGED <<doubt, force, result>>
         ELSE /\ dictKey' = known
              /\ alterTable2(who, FALSE)
              /\ UNCHANGED <<key, doubt>>
    /\ listed' = IF who = "cleanup" THEN Exists ELSE listed
    /\ UNCHANGED <<engine, mtd, dbVars, todo, transVars, live>>

\* FLManager::metadataDev, for a cursor that is opened or from cleanupMetaData, which reads
\* the list of tables and flmetadata again.
metadataDev(who) ==
    /\ pc = "idle"
    /\ who \in {"metadata", "cleanup"}
    /\ LET known == IF who = "cleanup" THEN key ELSE dictKey IN
       \/ /\ known = 0                      \* nothing recorded: the version is taken as it is
          /\ key' = mtd
          /\ dictKey' = mtd
          /\ doubt' = TRUE
          /\ caller' = who
          /\ pc' = "exists"
          /\ UNCHANGED <<force, result>>
       \/ /\ known = mtd
          /\ dictKey' = known
          /\ caller' = who
          /\ pc' = "exists"
          /\ UNCHANGED <<key, doubt, force, result>>
       \/ /\ known \notin {0, mtd}
          /\ dictKey' = known
          /\ alterTable2(who, FALSE)
          /\ UNCHANGED <<key, doubt>>
    /\ listed' = IF who = "cleanup" THEN Exists ELSE listed
    /\ UNCHANGED <<engine, mtd, dbVars, todo, transVars, live>>

\* BEGIN where it covers the rest, and the table becomes the newest backup.
RenameTable ==
    /\ pc = "rename"
    /\ Exists
    /\ IF TransactionalDDL
         THEN inTrans' = TRUE /\ saved' = [table |-> table, backups |-> backups]
         ELSE UNCHANGED transVars
    /\ backups' = Append(backups, table)
    /\ table' = NoTable
    /\ todo' = table.rows
    /\ pc' = "create"
    /\ UNCHANGED <<engine, mtd, keyVars, listed, callVars, result, live>>

\* The name of the backup is taken, a constraint cannot be dropped, the table is gone...
RenameRefused ==
    /\ pc = "rename"
    /\ Return(FALSE)
    /\ UNCHANGED <<engine, mtd, dbVars, keyVars, listed, callVars, todo, transVars, live>>

CreateTable ==
    /\ pc = "create"
    /\ table' = Fresh
    /\ inTrans' = (TransactionalDDL \/ engine = "innodb")
    /\ pc' = IF force \/ engine = "sqlite" THEN "copy" ELSE "insert"
    /\ UNCHANGED <<engine, mtd, backups, keyVars, listed, callVars, todo, result, saved, live>>

CreateRefused ==
    /\ pc = "create"
    /\ Undo
    /\ todo' = {}
    /\ Return(FALSE)
    /\ UNCHANGED <<engine, mtd, keyVars, listed, callVars, live>>

\* INSERT INTO table SELECT ... FROM backup
InsertSelect ==
    /\ pc = "insert"
    /\ table' = [table EXCEPT !.rows = todo]
    /\ todo' = {}
    /\ pc' = "commit"
    /\ UNCHANGED <<engine, mtd, backups, keyVars, listed, callVars, result, transVars, live>>

\* Mutant: the retry starts without a ROLLBACK.
InsertSelectNotUndone ==
    /\ pc = "insert"
    /\ inTrans' = FALSE
    /\ todo' = {}
    /\ force' = TRUE
    /\ pc' = "rename"
    /\ UNCHANGED <<engine, mtd, dbVars, keyVars, listed, caller, result, saved, live>>

\* Mutant: the retry is not forced, and copies with the same statement.
InsertSelectRepeated ==
    /\ pc = "insert"
    /\ Undo
    /\ todo' = {}
    /\ pc' = "rename"
    /\ UNCHANGED <<engine, mtd, keyVars, listed, callVars, result, live>>

\* A record does not fit the new fields: the drivers roll back and call themselves with
\* force.  Without transactions the records inserted before it stay.
InsertSelectRefused ==
    /\ pc = "insert"
    /\ IF engine = "myisam"
         THEN \E part \in SUBSET todo : table' = [table EXCEPT !.rows = part]
                                        /\ UNCHANGED <<backups, transVars>>
         ELSE Undo
    /\ todo' = {}
    /\ force' = TRUE
    /\ pc' = "rename"
    /\ UNCHANGED <<engine, mtd, keyVars, listed, caller, result, live>>

\* The records one by one, converted; SQLite inserts each, the others up to LIMIT_RESULT.
insertMulti ==
    /\ pc = "copy"
    /\ todo # {}
    /\ \E batch \in SUBSET todo :
          /\ batch # {}
          /\ \/ Cardinality(batch) = (IF engine = "sqlite" THEN 1 ELSE LIMIT_RESULT)
             \/ engine # "sqlite" /\ batch = todo /\ Cardinality(batch) < LIMIT_RESULT
          /\ table' = [table EXCEPT !.rows = @ \cup batch]
          /\ todo' = todo \ batch
    /\ UNCHANGED <<engine, mtd, backups, keyVars, listed, pc, callVars, result, transVars, live>>

\* Mutant: the result of insertMulti is not looked at.
insertMultiIgnored ==
    /\ pc = "copy"
    /\ todo # {}
    /\ todo' = {}
    /\ pc' = "commit"
    /\ UNCHANGED <<engine, mtd, dbVars, keyVars, listed, callVars, result, transVars, live>>

insertMultiRefused ==
    /\ pc = "copy"
    /\ todo # {}
    /\ IF TransactionalDDL
         THEN Undo /\ Return(FALSE)
         ELSE /\ \E part \in SUBSET todo :
                    table' = IF engine = "innodb" THEN [table EXCEPT !.rows = {}]
                                                  ELSE [table EXCEPT !.rows = @ \cup part]
              /\ inTrans' = FALSE
              /\ pc' = "restore"
              /\ UNCHANGED <<backups, saved, result>>
    /\ todo' = {}
    /\ UNCHANGED <<engine, mtd, keyVars, listed, callVars, live>>

Copied ==
    /\ pc = "copy"
    /\ todo = {}
    /\ pc' = "commit"
    /\ UNCHANGED <<engine, mtd, dbVars, keyVars, listed, callVars, todo, result, transVars, live>>

\* MySQL, the copy failed: DROP the new table and RENAME the backup back, whatever either says.
RestoreOld ==
    /\ pc = "restore"
    /\ \/ table' = Last(backups) /\ backups' = Front(backups)
       \/ table' = NoTable /\ UNCHANGED backups
       \/ UNCHANGED dbVars
    /\ Return(FALSE)
    /\ UNCHANGED <<engine, mtd, keyVars, listed, callVars, todo, transVars, live>>

Commit ==
    /\ pc = "commit"
    /\ inTrans' = FALSE
    /\ saved' = NoSave
    /\ IF force /\ engine # "sqlite"
         THEN pc' = "drop" /\ UNCHANGED result
         ELSE Return(TRUE)
    /\ UNCHANGED <<engine, mtd, dbVars, keyVars, listed, callVars, todo, live>>

\* The drivers do not look at what COMMIT said.  (Where the ROLLBACK took the backup with it,
\* there is none to drop.)
CommitRefused ==
    /\ pc = "commit"
    /\ "commit" \in Faults[engine]
    /\ Undo
    /\ doubt' = TRUE
    /\ IF force /\ ~TransactionalDDL
         THEN pc' = "drop" /\ UNCHANGED result
         ELSE Return(TRUE)
    /\ UNCHANGED <<engine, mtd, key, dictKey, listed, callVars, todo, live>>

\* A rebuild that was forced keeps no backup.
DropOld ==
    /\ pc = "drop"
    /\ \/ backups' = Front(backups)
       \/ UNCHANGED backups
    /\ Return(TRUE)
    /\ UNCHANGED <<engine, mtd, table, keyVars, listed, callVars, todo, transVars, live>>

\* Mutant: the version is recorded whatever alterTable said.
RecordKeyAlways ==
    /\ pc = "returned"
    /\ caller \in {"metadata", "cleanup"}
    /\ dictKey' = mtd
    /\ key' = mtd
    /\ pc' = "exists"
    /\ UNCHANGED <<engine, mtd, dbVars, listed, doubt, callVars, todo, result, transVars, live>>

\* metadataDev records the version if alterTable said TRUE; cleanupMetaData always does.
RecordKey ==
    /\ pc = "returned"
    /\ caller \in {"metadata", "cleanup"}
    /\ IF result \/ caller = "cleanup"
         THEN /\ dictKey' = mtd
              /\ key' \in {key, mtd}            \* the result of update() is not looked at
              /\ doubt' = (doubt \/ ~result)
         ELSE UNCHANGED keyVars
    /\ pc' = "exists"
    /\ UNCHANGED <<engine, mtd, dbVars, listed, callVars, todo, result, transVars, live>>

\* FLSqlCursor::init and FLManager::createTable: a table that is missing is created.
createTable ==
    /\ pc = "exists"
    /\ \/ existsTable /\ UNCHANGED table
       \/ ~existsTable /\ table' \in {table, Fresh}
    /\ listed' = existsTable
    /\ Finish
    /\ UNCHANGED <<engine, mtd, backups, keyVars, todo, transVars, live>>

-----------------------------------------------------------------------------
\* Mr_Proper drops the backups, empties flmetadata and records every version anew...
Mr_Proper ==
    /\ pc = "idle"
    /\ caller' = "proper"
    /\ pc' = "clean"
    /\ UNCHANGED <<engine, mtd, dbVars, keyVars, listed, force, todo, result, transVars, live>>

\* ... statement by statement in MySQL
Mr_ProperDrop ==
    /\ pc = "clean"
    /\ ~TransactionalDDL
    /\ \E i \in DOMAIN backups : backups' = RemoveAt(backups, i)
    /\ UNCHANGED <<engine, mtd, table, keyVars, listed, pc, callVars, todo, result, transVars, live>>

\* ... and rebuilds the table if its fields differ, which SQLite does not.
ProperRebuild ==
    IF engine # "sqlite" /\ table'.shape \notin {0, mtd}
      THEN force' = TRUE /\ pc' = "rename" /\ UNCHANGED <<caller, result>>
      ELSE Finish

Mr_ProperClean ==
    /\ pc = "clean"
    /\ caller = "proper"
    /\ backups' \in (IF engine = "psql" THEN {<<>>} ELSE {<<>>, backups})
    /\ table' = IF Exists THEN table ELSE Fresh
    /\ key' = mtd
    /\ dictKey' = mtd
    /\ doubt' = TRUE
    /\ listed' = Exists
    /\ ProperRebuild
    /\ UNCHANGED <<engine, mtd, todo, transVars, live>>

\* PostgreSQL refuses every statement after one that failed, and COMMIT rolls back: what is
\* kept in memory was read from nothing.
Mr_ProperAborted ==
    /\ pc = "clean"
    /\ caller = "proper"
    /\ engine = "psql"
    /\ dictKey' = 0
    /\ listed' = FALSE
    /\ UNCHANGED dbVars
    /\ ProperRebuild
    /\ UNCHANGED <<engine, mtd, key, doubt, todo, transVars, live>>

\* PostgreSQL: a static module replaces a .mtd file
regenTable ==
    /\ pc = "idle"
    /\ engine = "psql"
    /\ mismatchedTable
    /\ alterTable2("regen", TRUE)
    /\ UNCHANGED <<engine, mtd, dbVars, keyVars, listed, todo, transVars, live>>

\* all the backups are dropped in one transaction, or none
regenClean ==
    /\ pc = "returned"
    /\ caller = "regen"
    /\ backups' \in (IF result THEN {backups, <<>>} ELSE {backups})
    /\ Finish
    /\ UNCHANGED <<engine, mtd, table, keyVars, listed, todo, transVars, live>>

Mr_ProperEnds ==
    /\ pc = "returned"
    /\ caller = "proper"
    /\ Finish
    /\ UNCHANGED <<engine, mtd, dbVars, keyVars, listed, todo, transVars, live>>

\* The process dies and is started again: FLManager::init reads flmetadata, loadTables the tables.
Crash ==
    /\ "crash" \in Faults[engine]
    /\ Undo
    /\ dictKey' = key
    /\ listed' = (table'.shape # 0)
    /\ Finish
    /\ todo' = {}
    /\ UNCHANGED <<engine, mtd, key, doubt, live>>

-----------------------------------------------------------------------------
Step ==
    \/ RenameTable \/ RenameRefused \/ CreateTable \/ CreateRefused
    \/ InsertSelect \/ InsertSelectRefused \/ insertMulti \/ insertMultiRefused \/ Copied
    \/ RestoreOld \/ Commit \/ CommitRefused \/ DropOld
    \/ RecordKey \/ createTable \/ regenClean \/ Mr_ProperEnds
    \/ Mr_ProperDrop \/ Mr_ProperClean \/ Mr_ProperAborted

Next ==
    \/ \E r \in Records : StoreRecord(r) \/ RemoveRecord(r)
    \/ NewMtd
    \/ \E who \in {"metadata", "cleanup"} : metadataDev(who)
    \/ Mr_Proper
    \/ regenTable
    \/ Step
    \/ Crash

Spec == Init /\ [][Next]_vars

\* the program goes on with a rebuild it began
FairSpec == Spec /\ WF_vars(Step)

-----------------------------------------------------------------------------
(***************************************************************************)
(* Where the engine undoes a transaction with its CREATE, RENAME and DROP, *)
(* the table is there with every record users stored, unless a rebuild is  *)
(* just going on: after any statement refused, a COMMIT refused and a      *)
(* process that died.  (alterTable2 of the PostgreSQL driver, alterTable   *)
(* of the SQLite driver.)                                                  *)
(***************************************************************************)
TableKept == TransactionalDDL /\ ~inTrans => Exists /\ table.rows = live

(***************************************************************************)
(* Whatever the engine, the last copy of a record that users did not       *)
(* remove disappears only when Mr_Proper drops the backups: not when a     *)
(* rebuild fails half way, is retried with force or drops its own backup.  *)
(***************************************************************************)
NothingDropped ==
    [][(\E r \in live \cap live' : r \in Stored /\ r \notin Stored') => pc = "clean"]_vars

(***************************************************************************)
(* The table never has fields older than the version flmetadata records,   *)
(* or metadataDev would not rebuild it any more: as long as COMMIT is not  *)
(* refused and nobody records a version without a rebuild that succeeded.  *)
(***************************************************************************)
NeverOlder == pc = "idle" /\ Exists /\ ~doubt => table.shape >= key

(***************************************************************************)
(* A rebuild ends, also when the copy fails: alterTable2 calls itself once *)
(* at most.                                                                *)
(***************************************************************************)
AlterEnds == pc # "idle" ~> pc = "idle"

(***************************************************************************)
(* "reconstruye la tabla con esos metadatos sin la perdida de informacion  *)
(* o datos" (FLManager::alterTable): when alterTable says TRUE the table   *)
(* has the records users stored.                                           *)
(***************************************************************************)
Preserved == pc = "returned" /\ result => live \subseteq table.rows

=============================================================================
