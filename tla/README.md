# A TLA+ verification of AbanQ's data layer

AbanQ is an ERP whose C++ engine (`src/engine/src`) runs forms, reports and business logic
written as scripts over a relational data base. This directory holds TLA+ modules for the part of
the engine everything else relies on: transactions and their nesting, the cursor that reads and
delivers records, the forms that edit them, the deletion of related records, the work of several
users on the same records, the rebuilding of tables whose description changed, and two services
of the engine with a protocol of their own (mail and serial numbers). TLC checks the modules on small instances and TLAPS proves the main invariants for every instance.

`PROJECT.json` maps every definition to its source lines and lists the runs, the mutants that
show each property can fail, the findings, the hazards and the theorems.

## 1. Inventory

Paths are under `src/engine/src/flbase/` unless said otherwise.

| Component | State | Operations | Hard part | What makes it correct |
|---|---|---|---|---|
| `FLSqlDatabase` | `transaction_` (level), `currentSavePoint_`, `stackSavePoints_`, `queueSavePoints_`, `lastActiveCursor_` | `doTransaction`, `doCommit`, `doRollback`, `connectDB`, `closeDB`, `finishInternal` | four back ends with different facilities; failing COMMIT; reconnection and crash in the middle | levels nest: a rollback restores what the level found, an inner commit belongs to the level around it |
| `FLSqlSavePoint` | stack of operations with the record each one replaced | `saveInsert`, `saveEdit`, `saveDel`, `undo` | order of undoing; saved records may be stale | undoing reverts the level |
| `FLSqlCursor` | `modeAccess_`, `buffer_`, `bufferCopy_`, `transactionsOpened_`, `activatedCheckIntegrity_`, lock fields | `refreshBuffer`, `commitBuffer`, `checkIntegrity`, `del`, `openFormInMode`, `commit`, `rollback`, `rollbackOpened`, destructor | script callbacks inside a delivery, several cursors on one connection, recursion through cascades, a nested event loop (`checkRisksLocks`) | no level without an owner; integrity kept by deletions; nobody waits for a lock unknowingly or for ever |
| `FLFormRecordDB` | `initTransLevel`, `initialModeAccess`, `accepted_`, `accepting` | `initForm`, `accept`, `validateForm`, `acceptContinue`, `reject`, `closeEvent`, the four moves | forms over forms, other users changing the record meanwhile, questions that can be refused, scripts that leave levels open | each form ends its own level; cancelling keeps nothing; another user's change is not overwritten unasked |
| SQL drivers (`../plugins/sqldrivers`) | connection | transactions, savepoints, `alterTable2`, `Mr_Proper`, `regenTable`, `nextSerialVal`, `detectRisksLocks` | a rebuild of many statements, any of which may fail or be the last one; engines that cannot undo DDL; sessions reading the same sequence | no record lost by a rebuild; numbers are handed out once |
| `FLManager` | `dictKeyMetaData_`, `listTables_`, the table `flmetadata` | `metadataDev`, `cleanupMetaData`, `createTable`, `existsTable` | what is recorded against what was done; stale lists | the version recorded is not ahead of the table |
| `FLManagerModules`, `FLDiskCache`, `FLMemCache` | caches of files | lookup | stale entries | — |
| `FLSmtpClient`, `../flmail/smtp.cpp` | `state_`, `responseCode_`, `rcpt_`, `starttls_` | `startSend`, `readyRead`, `connected`, `socketError`, `connectionClosed`, `dnsLookupHelper` | answers cut into segments, calls of `readyRead` queued with a stale code, TLS that fails | success is told only of a message taken; nothing secret in clear; the dialogue ends |
| `FLUtil` | none | string, date and number functions, `nextCounter` | boundary values; two users asking for the same number | — |
| Access control | rules | `doAcl`, `undoAcl` on the cursor | saving and restoring field properties | — |
| Widgets, master and search forms, reports, signature, settings, translations | user interface or I/O | — | — | — |
| Qt, QSA, libpq, libmysql, SQLite, kugar, ... | third-party | — | — | — |

Interactions. A form calls its cursor; the cursor calls `FLSqlDatabase` for levels, scripts
(`beforeCommit_`, `afterCommit_`, `calculateField`) around each delivery, and other cursors for
cascades and for the record of the form below. `FLSqlDatabase` calls the driver, and through
`finishInternal` calls back `rollbackOpened` of the cursor that opened the first level. The level
counter is shared by all cursors of a connection, while each cursor keeps its own stack of levels.

Concurrency. The program has one thread, and several processes share the data base: their
statements, locks and commits interleave. Within one process what interleaves is calls: several cursors and forms on
one connection, scripts called in the middle of an operation, questions to the user that end
either way, statements the engine refuses, a reconnection, and the death of the process between
any two statements.

## 2. The modules

| Module | Models | Lines of the code |
|---|---|---|
| `FLSqlSavePoint` | an emulated savepoint: recording and undoing operations on a table | `FLSqlSavePoint.cpp` |
| `SqlServer` | what `FLSqlDatabase` sees of PostgreSQL, MySQL (InnoDB or not) and SQLite | `FLSqlDatabase.cpp` 372-413; engines are external |
| `FLSqlDatabase` | nested levels over one table, the cursors using it, the loops of `rollbackOpened` / `commitOpened`, destruction, reconnection, crash; extends the two above | `FLSqlDatabase.cpp` 560-851, `FLSqlCursor.cpp` |
| `NestedTransactions` | abstract specification: what begin, commit and rollback promise | — |
| `TransactionHistory` | `FLSqlDatabase` with history variables and the refinement mapping to `NestedTransactions` | — |
| `TransactionOwnership` | which cursor answers for which level | — |
| `FLFormRecordDB` | record forms opened over each other | `FLFormRecordDB.cpp`, `openFormInMode`, `commitBufferCursorRelation` |
| `FLSqlCursorDel` | deletion of a record, of its cascade, and the checks around it | `FLSqlCursor.cpp` 570-850, 947-1159, 1247-1321, 1640-1661 |
| `ConcurrentEdit` | two users editing the same records: the questions of `validateForm`, the loop of `checkRisksLocks`, the update | `FLFormRecordDB.cpp` 412-512, `FLSqlCursor.cpp` 875-969, 1056-1087, 2593-2630 |
| `AlterTable` | the rebuilding of a table on the four engines, and what `FLManager` records of it | `alterTable2`, `Mr_Proper`, `regenTable` of the drivers, `FLManager.cpp` 73-227, 829-1033 |
| `Smtp` | the sending of a message, with the SSL device, the mail server and the segments of its answers | `../flmail/smtp.cpp`, `ssldevice.cpp`, `sslsocket.cpp` |
| `SerialValues` | `nextSerialVal` of the MySQL driver with several sessions | `flsql_mysql.cpp` 1727-1823 |
| `MCBackends` | `TransactionHistory` over each engine, in one run | — |
| `MCDeletion`, `MCAlterTable`, `MCServices` | the instances TLC checks of the other modules | — |
| `FLSqlDatabaseProofs` | theorems on `FLSqlDatabase`, `TransactionOwnership` and `TransactionHistory` | — |
| `FLFormRecordDBProofs`, `FLSqlCursorDelProofs`, `ConcurrentEditProofs`, `AlterTableProofs`, `SmtpProofs`, `SerialValuesProofs` | theorems on the module of the same name | — |
| `SequenceLemmas` | lemmas on sequences | — |

### FLSqlDatabase

The data of a record are a key and a value; a table is a function from keys to values or `NoRow`.
`table` is what the connection sees, `durable` what is committed. Levels and savepoints have the
names of the code. Level 1 is a transaction of the engine (except MySQL without InnoDB, where it is
an emulated savepoint too); deeper levels are engine savepoints or emulated ones. An emulated
rollback is several statements and the process may die between two of them, so it is a small
machine of its own (`undo`): `RollbackEmulated` starts it, `SweepQueue`, `UndoOp`, `UndoCurrent` and
`EndRollback` are its steps. In the same way `loop` is a running `rollbackOpened` or `commitOpened`,
each turn of which is one `doRollback` or `doCommit`. All other operations run to their end in one
step, as in the single-threaded program. `veto` in `commitBuffer` is an `afterCommit` script that
refuses, after which the code undoes the operation with a savepoint of its own.

A cursor reads in one call and delivers in another. `setModeAccess` only assigns the mode, so
`bufferCopy_` and the key `primeUpdate` memorised (`editIndex`) stay through BROWSE and INSERT until
`refreshBuffer` reads again, and what a delivery records in the emulated savepoint is the copy, whenever it
was read. `refreshBuffer(c, m, k)` is the usual way to a mode: the record is selected, the mode set and the
record read. `setModeAccess(c, m)` with EDIT or DEL is a mode set by a script and nothing read. The
contents of the buffer are the input of `commitBuffer`; `Written` is what the statement makes of them, since only
fields that differ from the copy are written, to the record of `editIndex`.

`Events` selects unusual inputs: `editKey` (the user changes a primary key), `stale` (a mode set without
reading), `unchecked` (integrity checks deactivated, so a statement can fail), `refuse` ("No" to "Todos los cambios efectuados se
cancelarán"), `fail` (COMMIT or ROLLBACK fails), `crash`. A COMMIT that fails is modelled for
engines that lose the transaction; SQLite may keep it open when it is busy, and that is left out.
So is a SAVEPOINT that fails.

### FLFormRecordDB

Forms are modal and there is at most one for each table, so the open forms are a stack. Levels follow
`NestedTransactions`: each holds what was delivered in it. A delivery is abstracted to whether it had
an integrity error. `closeEvent` with its refused and accepted rollbacks is `CloseCommit` and
`CloseRollback`: every rollback asks while the record is modified, and the first one carried out puts
the cursor in BROWSE mode, so the later ones do not ask; hence `RollbackCounts`. Events: `veto` (a
script refuses a record), `leak` (a script begins a level and does not end it), `refuse`, `popup` (the
list of completions is open and swallows the close). An engine that refuses to end its transaction is
left to `FLSqlDatabase`.

### FLSqlCursorDel

Each record refers to at most one other (`Owner`), and the references form a forest. A relation is a
cascade, under `checkIn` only, or neither. `frames` is the stack of running `commitBuffer` calls: del
of a record calls `commitBuffer` of a new cursor for each record of the cascade. The model keeps the
code's results exactly: a call that fails makes the loop of its caller return at once, after which
the caller's `commitBuffer` finds no error and reports success (`abandoned`); a locked record is
skipped. Scripts only refuse; scripts that write to other tables are not modelled.

### ConcurrentEdit

Each user has one form at a time in a session of his own; a record sent stays locked by its
transaction until the outermost form is closed, so a user may hold locks while he opens the next
form. `db` is what is committed and `work` what the holder of a lock wrote; the drivers set READ
COMMITTED, so `View` is either. `validateForm`, `Query` and `Answer` are the two queries and the
questions with other users' commits between them; `commitBuffer` looks at the locks once, and then
`EnterLoop`, `checkRisksLocks` (called by `aboutToBlock` and by the timer), `terminateChecksLocks` and
`ExitLoop` are the nested event loop. A signal that stays connected after the loop is left is in the
model: the loop may be entered again with no delivery going on. `Update` waits in the engine for the
lock; `Deadlock` is the engine ending one of two transactions that wait for each other. A list read
long before its form is opened stands for a form opened then and left alone. `typed`, `checked` and
`consent` record what the properties need and influence nothing.

### AlterTable

One table with its backups. A version of the metadata is a number, the shape of a table the version
it was made with, a record a model value. Every statement of `alterTable2` is a step and may be
refused, and the process may die between any two. `Undo` says what a ROLLBACK brings back: all
with PostgreSQL and SQLite, the records copied with InnoDB, nothing without it. `Faults` gives each
engine the faults it may have: a refused COMMIT, whose result the drivers ignore, is left out for
MySQL (with `force` it would drop the only copy next, see the hazards). Users do not write to a MySQL
table while it is rebuilt; the other engines lock it. The name of a backup has a time stamp and may
collide, which is a refused RENAME. SQLite makes the backup with CREATE TABLE AS and drops the table,
which in one transaction amounts to a RENAME. `metadataDev` is the path of a client that may regenerate
tables (`canRegenTables`, not a quick client). `doubt` marks the histories `NeverOlder` exempts.

### Smtp

One message at a time. `toClient` holds lines sent by the server, `inbox` lines in the buffer of the
socket; `readyRead(n)` is the arrival of `n` lines in one segment, of which at most one answer is read,
and `queuedReadyRead` the call `singleShot(0)` makes, with whatever `responseCode_` is by then. `MailServer`
answers each command as the protocol says, well or with a refusal, in one line or two; only the server
and the segments are nondeterministic.

`ssl` is the SSL device. `initSSL` makes it `init`, or fails for want of a context (`uninit`) or of the
library (`nolib`), and is used all the same. `connectSSL` says what the code says and not what a handshake
means: true without the library, where everything is skipped (`deaf`), and true for every handshake
`SSL_connect` answers with 1 or -1, which is one that is made, one that `SSL_read` and `SSL_write` complete later
(both `on`) or one that has failed (`broken`). A device taken for connected writes with `SSL_write`
and falls back on nothing (`writeBlock`), and without a session reading from it gives -1 and no
error, which `SSLSocket` passes over in silence: `NoSession`. A secured connection that is lost (`sessionLost`)
ends in the same silence, where a plain socket reports an error. `Unheard` is both. A `broken` device may
still report that the server closed; a `deaf` one reports nothing. Certificates are not modelled.

### SerialValues

`row` is the row of `flseqs` (0: none), `work` what the session that locked it wrote. The statements of
`nextSerialVal` are steps. The connection used is `mysqlSerial`, with InnoDB's default REPEATABLE READ (the
driver sets READ COMMITTED only on the main one), so the two SELECTs see one snapshot, while an
UPDATE sees the latest row. `Import` stores a record that brings its own number; `overtaken` says that
one did so past the sequence.

## 3. Runs

| Run | Shows | Bounds |
|---|---|---|
| `nested` | `Nested`: over every engine with transactions the levels implement `NestedTransactions`, refused rollbacks, failing COMMIT and crashes included; MySQL never releases a savepoint, so old ones of the same name pile up; `FlatRollback`: with no transactions at all, undoing four operations restores the table | 1 key, 2 values, 1 cursor; PostgreSQL 3 levels and 3 engine savepoints, MySQL 3 levels, 4 engine savepoints and modes set without reading (`stale`), SQLite 2 levels and 3 operations, MySQL without InnoDB 1 level and 4 operations; 1.2 M states |
| `emulated_sqlite` | `TypeOK`, `SavePointPerLevel`, `QueueUnderOpenLevels`, and `CallsReturn` (liveness), with failing statements, modes set without reading and crashes | 3 levels, a level is opened with at most 1 savepoint in stack and queue (so up to 2 are queued); 177 k |
| `ownership_psql` | `EveryLevelOnRecord`, `NothingPending` with two cursors, aborted transactions, failing COMMIT, crashes | 2 cursors, 2 levels; 3.9 M |
| `form_record` | `TypeOK`, `FormsNest`, `CancelKeepsNothing` with all four events | 2 forms, 3 levels; 607 k |
| `cascade` | `TypeOK`, `RestrictHolds`, `CascadeComplete`, `DeletionEnds` (liveness), refusals and locks at any point | 6 records, cascade two deep; 16 k |
| `alter_table` | `TableKept`, `NothingDropped`, `NeverOlder`, `AlterEnds` (liveness), `TypeOK`, with any statement refused and the process dying anywhere | 4 engines, 3 records, 2 records per statement of `insertMulti`, 2 versions, 2 backups; 648 k |
| `services` | `UntouchedKept`, `OverwriteAsked`, `WaitsKnowingly`, `WaitsForLocks` (liveness) of `ConcurrentEdit`; `SentMeansTaken`, `NothingInClear`, `SendingEnds` (liveness) of `Smtp`; `NumbersFresh` of `SerialValues`; `ServiceTypes`, the types of the three | 2 users; a record of 2 fields with 2 values, a field of 3 values, and 2 records under lock detection; 2 recipients, 8 commands answered in two lines, SSL devices of every kind; numbers up to 3; 390 k |
| `undo_order` | violation, see below | 3 levels |
| `aborted_commit` | violation, see below | 1 cursor |
| `form_unchecked` | violation, see below | 1 form, 1 level |
| `cascade_failure` | violation, see below | as `cascade` |
| `alter_mysql` | violation, see below | 2 records, InnoDB |

Why the bounds are enough. Two levels are the smallest case with an emulated savepoint, three the
smallest with a queued savepoint below an open one, which is where the stack and the queue interact;
more levels repeat that situation. One key is enough for operations that collide, two values for a
wrong restore to be seen. Two cursors are enough for one to end the level of the other. Two forms and
three levels allow a form over a form with a level left open between them. The cascade has the three
generations in which a failure can be reported one call up and lost in the next. Three records with
two per statement give a copy a full batch and a last partial one, and two backups the retry of a
retry. A field needs three values for a collision (the value read, the one typed and the one
committed meanwhile), and a deadlock needs two records. Two recipients are enough to stop one
short or go one past. `MCServices` runs its modules one at a time: they share no state. Every passing run
fires all the actions its events allow, and together they fire every action.

SQLite stops at two levels in `nested` because `Nested` does not hold beyond: that is `undo_order`.
Deadlock is checked in all runs but the two on forms, where the bound on levels, not the program,
may leave nothing to do (levels that scripts left open reach `MaxLevel` with no form open).

### What the violated runs show

* `undo_order`: `doRollback` undoes the savepoints of committed inner levels before the current one,
  which also holds operations done after them. A record inserted in an inner level that was
  committed, then deleted, exists again after the rollback. Related: `doCommit` lowers the ids of
  all queued savepoints, so after two inner commits at level 3 the first of them is not undone when
  level 2 is rolled back.
* `aborted_commit`: after a statement failed, PostgreSQL takes COMMIT as a rollback and reports no error;
  `commit()` returns TRUE and nothing is durable.
* `form_unchecked`: `accept` deactivates the integrity checks and, when a script refuses the record,
  returns without activating them: the next accept stores whatever the form holds.
* `cascade_failure`: a refusal inside a cascade is lost (`del` returns false, `commitBuffer` looks
  only at `lastError`), so the deletion is reported and committed although the record, or part of
  what is below it, is still there. With three generations, or with a locked record, the owner is
  deleted and its record stays behind.

* `alter_mysql`: a record does not fit the new fields, INSERT ... SELECT is refused, and ROLLBACK does
  not undo RENAME and CREATE in MySQL: the retry with `force` takes the new, empty table for the old
  one, rebuilds it and returns TRUE. The records are still in the first backup (`NothingDropped`
  holds), until `Mr_Proper` drops it.

More disagreements were met and are recorded as hazards: with emulated savepoints `Nested` is
violated if the key of a record is edited, if an insertion fails, if two cursors edit one record, or if
one cursor delivers in a mode it did not read the record in; a sending over an SSL device
without a session hangs (`Unheard`, which `SendingEnds` exempts by name); and `EveryLevelOnRecord` is violated if the user refuses the rollback of a cursor being destroyed.
Each can be reproduced by adding the event, or the cursor, to the run named in the hazard. Met in the
same way, with no property because the code promises nothing: a value committed between the look of
`validateForm` and the update is overwritten; after an import past the sequence two sessions may get
the same serial number; `cleanupMetaData` records a version whatever the rebuild said.

### Fairness

`FLSqlDatabase!Fairness` is weak fairness of the steps of a running rollback (`RollbackNext`) and of a
running loop (`LoopNext`); `FLSqlCursorDel!Spec` has weak fairness of `Step`. The code justifies it: these
are statements of one synchronous function, so once it runs the next statement follows. Nothing is
assumed of the user, of scripts or of the engine: no call is ever required to be made. `AlterTable` has
weak fairness of `Step`, the statements of a rebuild that was begun, for the same reason.

`ConcurrentEdit` has weak fairness of `Step(u)`: the queries and the statement, the timer of the loop, and
the engine that breaks a deadlock. No user has to answer, to close a form or to end a transaction, which
is why `WaitsForLocks` says that who waits for ever waits for a record that is locked again and again,
and not that the wait ends. `Smtp!Fairness` assumes that the name server answers, that a connection is made
or fails, that the mail server answers each command, and that what arrives is read; the code has no
timeout, so with a server that falls silent and keeps the connection open the sending does not end.
Nothing is assumed of a connection `Unheard`: there the sending hangs whatever the server does, and
`SendingEnds` says that a sending ends or comes to be one of those.

## 4. Proofs

Every invariant and action property that a passing run checks is also a theorem, and each statement
that a run finds violated is proved under the condition that excludes what the run found. The
theorems are about the specifications without fairness. Each inductive invariant was checked by TLC
before it was proved. Conditions a theorem needs beyond the assumptions of its module are named
definitions: in its `ASSUME` when they are about the constants, in its formula when they are about
the steps or states of a behaviour (`Spec /\ [][NothingVetoed]_vars => ...`).
`MCBackends` and `MCServices` restate for several instances properties that the theorems are about:
`MCBackends!Nested` is `TransactionHistory!Nested` over three engines and `FlatRollback` its
`RollbackRestores` over the fourth; `UntouchedKept`, `OverwriteAsked`, `WaitsKnowingly`, `NumbersFresh` and
the conjuncts of `ServiceTypes` are those of `ConcurrentEdit`, `SerialValues` and `Smtp`.

### Nested transactions

`FLSqlDatabaseProofs` proves for every set of cursors, keys and values, every back end, every subset of
events and every bound:

* `TypeCorrect`: `Spec => []TypeOK`: the types, in the middle of a rollback or a loop too; that levels are
  naturals is that no call ends one when none is open;
* `SavePointsMatchLevels`: `Spec => []SavePointPerLevel`;
* `QueueInOpenLevels`: `Spec => []QueueUnderOpenLevels`;
* `NoPendingWork`: `Spec => []NothingPending`.

All follow from one inductive invariant, `IInv`: the four properties and `Control`. None is
inductive alone. `SavePointPerLevel` needs the types; `QueueUnderOpenLevels` needs to know how far the
sweep of the queue has come, which is why both are stated for the middle of a rollback too; and
`Control` says what a call in progress relies on: which cursor it works for, that only emulated
savepoints are undone step by step, and that an engine with savepoints leaves the emulated ones
unused. There is one lemma per operation (`DeliverInv`, `TransactionInv`, `CommitInv`, `RollbackInv`,
`RollbackStepsInv`, `LoopInv`, `FinishInv`, `CrashInv`, ...), and `NextInv` combines them.
The assumptions are that the null values differ from the values they stand beside
(`NullAssumption`, `NoRowAssumption`), that `Backend` is one of the four, and that bounds are naturals.

`LevelsHaveOwners`: `Spec => []EveryLevelOnRecord`, under `RollbacksAccepted` (nobody answers "No" when his
changes are to be cancelled; with that answer the property does not hold, see the hazards). `OwnInv` adds to
it that the set `OnRecord` of levels recorded by the cursors is finite, so that its cardinality counts,
and, while a destructor rolls back (`Releases`), that its cursor has no more levels on record than the
loop has turns left, or no level is open. The levels are counted as the cardinality of a set of pairs and not
as a sum over cursors, since a fold would need induction over data.

`NestingImplemented`: `HSpec => Nested`, and `RollbackIsExact`: `HSpec => RollbackRestores`, both under
`EngineAssumption`: the engine has savepoints (PostgreSQL, MySQL with InnoDB), and PostgreSQL is sent no
statement it refuses (`StatementsTaken`; after one it sets no savepoints until the transaction ends, which is
the finding of `aborted_commit`). The refinement holds at any depth, for every table and with
failures, reconnection and crashes. `HInv` adds three facts to `IInv`: the history has one
table for each level, the outermost being the durable one (`EntryPerLevel`); the engine has for each nested
level a savepoint with the table the level found, and the newest savepoints of the levels are in the order
of the levels (`SavePointOfLevel`), so that rolling one back keeps those below it, although MySQL replaces
savepoints of a name and PostgreSQL keeps them; and the engine has not given its transaction up. A step of the
code is then one of five steps (`Writes`, `Opens`, `Commits`, `Restores`, `Loses`), and
each of these is a step of `NestedTransactions` or a stutter.

`EmulatedNestingImplemented` (`Nested`) and `EmulatedRollbackIsExact` (`RollbackRestores`) say the same of the
emulated savepoints, at any depth, with any number of operations per level and a crash or reconnection in
the middle of a rollback. `EmInv` relates the savepoints to the history: that of each level undoes
the table the next level began with into the one its own level began with, and while a rollback runs, what
is left of it undoes the present table into the promised one. Undoing a list is a recursion over
it, out of the prover's reach, so the invariant does not compute it: `Undoes` says that there is a trail of
tables, one for each operation, of which each is what `undoOp` makes of the one before. Recording an operation
extends a trail, a turn of `undo` consumes one step of it, and no induction is needed. What the theorems
ask:

* `EmulationAssumption`: the engine has no savepoints, no key is edited (`undoEdit` looks the record up by
  its old key) and the integrity checks refuse a used key;
* `FreshDelivery`: in EDIT and DEL a cursor delivers from a copy that is the record as the table has it, and
  deletes the record of the copy (the savepoint stores the copy, so with two cursors on one record, or a copy
  kept from another mode, it may restore something else);
* `QueueHoldsNothing`: the savepoints queued by inner commits have nothing to undo. With operations in
  them `RollbackRestores` is violated (`undo_order`), so this is the condition that separates the two.

The last two are conditions on behaviours. `OneLevelNesting` and `OneLevelRollback` discharge them: with one
cursor, at most one emulated level and modes entered by reading (`OneCursor`, `OneEmulatedLevel`,
`ReadsInMode`) `HSpec` alone implies `Nested` and `RollbackRestores`, for every table and number of
operations. `ReadsInMode` is needed: a cursor set to DEL without reading delivers from an old copy, and TLC
finds `Nested` violated when the SQLite instance of `nested` is given the event `stale`. `QueueInv` says that
the queue stays empty, `CopyInv` that in EDIT and DEL the copy is the record as the table has it: whatever
changes the table leaves the cursor in BROWSE, where the copy stays but is not delivered, except a
reconnection that finds a transaction open, and with `RollbacksAccepted` the cursor has rolled its levels
back before that. Without transactions in the engine there is no such loss, and rollbacks may be refused.
The instances of the run `nested` with emulated savepoints are of this kind.

`CommitsMakeDurable`: `Spec => CommitIsEffective` under `StatementsTaken`. The run `aborted_commit` violates
`CommitIsEffective` on PostgreSQL; this is the proof that a statement refused inside the transaction is the only
way to it.

`CallsAdvance`: every step taken while a call is in progress (`~Idle`) takes a turn of the loop or ends it, or
brings the emulated rollback to its next phase, one savepoint further in the queue or one operation
further in a savepoint. These are naturals in lexicographic order, which is the variant `CallsReturn`
needs besides fairness.

### Deletion

`FLSqlCursorDelProofs` proves `DeletionRespectsRelations`: `Spec => []RestrictHolds` for every forest of
records, every choice of relations and all events. The inductive invariant `DelInv` adds two facts: the
committed records respect the relations too, since a rollback brings them back (`DurableHolds`), and
a call that passed `checkIntegrity` has, for as long as it runs, no record under `checkIn` that refers to
its own (`LoopsChecked`), because a running deletion only removes records.

`CascadeLeavesNothing`: `Spec => []CascadeComplete`. `CascadeInv` says what holds while a deletion runs in
which nothing has been refused or skipped: what the cascade reaches is linked to its root (`ReachLinked`), no
record of it outlives the one it refers to (`NoneOutlives`), and a call in its loop has every record of its
cascade still to delete, or called for (`CascadePending`). When the root is gone, all it reaches is
gone. `DeletionTypes` is the type invariant.

`AcceptedCascadeDeletes`: `Spec /\ [][CascadeAccepted]_vars => []DeletedAsTold`. The statement the run
`cascade_failure` violates holds whenever no record of the cascade is refused, undone or skipped as
locked; the record the deletion was asked for may be refused. `TroubleEnds` adds that trouble is
then always the end of the whole deletion, which reports it.

### Record forms

`FLFormRecordDBProofs` proves for every set of forms, depth of levels and set of events `FormTypes`
(`TypeOK`), `OpenFormsNest` (`FormsNest`) and `CancelDropsWork` (`CancelKeepsNothing`). `FInv` is
`TypeOK /\ FormsNest`, which is inductive: that the levels of the open forms grow strictly also says that
no form is open twice. The action property follows from it, since a form is closed with the levels below
its own untouched (`CloseRollbackInv`).

`StoredWasChecked`: `Spec /\ [][NothingVetoed]_vars => []StoredAreValid`. If no script refuses a record
after `accept` deactivated the checks, every stored record passed them: the condition is what `form_unchecked`
is about. `CheckedInv` says that the deliveries at every level, durable ones included, had no
integrity error, and that the checks of every form are on.

### Several users

`ConcurrentEditProofs` proves for any users, records, fields and values (`DataAssumption`: `NoUser` is no
user, there is a record, every field has a value) `EditTypes`, and the three action properties
`UntouchedFieldsKept`, `OverwritesAreAsked` and `WaitsAreKnown`. `EditInv` adds two facts to the types: what
differs from the copy of a form, or is to be asked about, was typed in (`TypedOnly`), and from `validateForm`
to the statement each changed field was found unchanged, is still to be asked about, was insisted on, or
took the value shown (`Examined`).

`SerialValuesProofs` proves `SerialTypes` and `NumbersAreFresh` (`NumbersFresh`) for any number of sessions and
width of the column (`ColumnAssumption`). As long as no import went past the sequence, who has locked the row holds a
number past the committed one and past every record, the numbers in open forms are at most the
committed one, and a session that found no row has read a highest number that is not behind the records, or
somebody else has made the row meanwhile (`InSequence`).

### Rebuilding of tables

`AlterTableProofs` proves for every set of records, subset of the engines, faults of each (a refused
COMMIT of MySQL among them), number of records per statement and bounds (`AlterAssumption`):

* `AlterTypes`: `Spec => []TypeOK`;
* `RebuildKeepsTable`: `Spec => []TableKept`;
* `KeyNotAhead`: `Spec => []NeverOlder`.

The inductive invariant `AlterInv` adds three facts to the types. `TableKept` says nothing of the middle
of a rebuild, so `WholeTable` says what holds there: the saved table has every record, and what is
copied together with what is left to copy are the records users stored. `Versions` does the same for
`NeverOlder`: the table a ROLLBACK brings back and the newest backup, which MySQL renames back, are not
older than the version recorded either, and success is reported only with the version in use. `Control`
says that a rebuild has its backup and that only MySQL restores it by hand. There is one lemma per group
of actions (`UsersInv`, `CallInv`, `RenameInv`, ...), and `UndoFacts` says what a ROLLBACK leaves.

`NothingIsDropped`: `Spec => NothingDropped`, under `CommitTaken`: only PostgreSQL and SQLite may refuse a
COMMIT. MySQL refusing one, with `force`, is a hazard listed and not a case of the property. `CopiesInv` says
that while the transaction is open the newest backup is whole (`TransBackup`) and, for MySQL, that the newest
backup stands for the table until the rebuild returns (`PlainBackup`): the new table has only records of
it, and all of them when it may be dropped.

`RebuildPreserves`: `Spec /\ [][RebuildAccepted]_vars => []Preserved`. When `alterTable` says TRUE the table has the
records users stored, on PostgreSQL and SQLite whatever is refused, and on MySQL if no statement after
RENAME is refused and the process does not die before the rebuild returns. This is the statement
`alter_mysql` violates. `PlainWhole` says of MySQL what `WholeTable` says of the other two.

`RebuildsAdvance`: every step of a rebuild goes to a later statement, leaves fewer records to copy or drops a
backup. With fairness this is why a rebuild ends (`AlterEnds`): `InsertUnforced` says that INSERT ...
SELECT, whose refusal begins the rebuild again, is only sent by a rebuild that is not forced, so the driver
calls itself once at most.

### Mail

`SmtpProofs` proves for any number of recipients but none (`RecipientsAssumption`: `smtp.cpp` reads the first
recipient unconditionally, at lines 104 and 309), whichever answers take two lines and however
they are cut into segments, `MailTypes`, `SentIsTaken` (`SentMeansTaken`) and `SecretsStaySecured`
(`NothingInClear`). An answer cut in two puts the client ahead of the server, so the invariant has to say
what is under way: `Spans` and `Counted` relate the recipients the client counted to those the server took, those in
the commands not yet handled and the refusals not yet read; `DataLast`, `NoGoAhead` and `AtBody` say
that a 354 unread means the server waits for the message and nothing was sent after DATA; `AtQuit` that the
message is then on its way, taken, or refused. This is why a 250 read in state `Quit` can
only be the answer to the message: each 354 the client reads has its last line before any 250 that
follows.

`NothingInClear` does not rest on what `connectSSL` says. `Starting` and `AtStart` say that until STARTTLS is
answered the client waits for one answer at a time, so that nothing is on its way in clear when the session
is to begin; `Deafened`, that over a device without a session nothing is sent, and that `readyRead` is called
once more at most, by itself; `Unsecured`, what a connection not yet secured may have sent.

### What is only model-checked

* The liveness properties `CallsReturn`, `DeletionEnds`, `AlterEnds`, `WaitsForLocks` and `SendingEnds`: with
  their fairness they are out of the prover's reach. For `CallsReturn` and `AlterEnds` the variant is proved
  (`CallsAdvance`, `RebuildsAdvance`); that fairness lets the steps happen, and that a variant cannot decrease
  for ever, is left to TLC. The variant of a cascade would be a sum over a tree, which is induction over data.
* That `FreshDelivery` and `QueueHoldsNothing` hold of a program with several cursors or more than one
  emulated level: they do not in general, as the findings and the hazards show. What the emulated
  savepoints keep in every case is that they match the levels (`SavePointsMatchLevels`,
  `QueueInOpenLevels`) and leave nothing pending (`NoPendingWork`).

`SequenceLemmas` holds facts about positions, prefixes and subsequences that most of these proofs use.

## 5. Not modelled, and why

* The drivers' code apart from the operations named above: `SqlServer` states the behaviour of the
  engines as used here. `RELEASE` is not sent by the MySQL driver, and the SQLite driver reports no
  savepoints.
* Keys and relations checked before a statement against other processes: the code closes that gap
  with nothing, so there is nothing to show (hazard). Likewise `nextCounter`.
* `nextSerialVal` of PostgreSQL (a sequence of the engine) and of SQLite (the highest number plus one).
* The flags of `setEdition` and `setBrowse`, positions and sorting of a cursor, access control.
* More than one connection of a process; scripts that write.
* Composing a message and reading mail; the caches of files.
* Widgets, reports, settings, signature and vendored libraries: user interface, I/O or third-party
  code, which is most of the repository's lines.

## 6. Plan

Done: the modules above, in the order nested transactions, ownership, forms, deletion, several users,
rebuilding of tables, mail, serial numbers.

Next, in order of importance:

1. `setEdition`, `setBrowse` and their restore functions (`AQBoolFlagState`): an abstract specification of
   nested modifiers and the conditions under which the list implements it.
2. `atFromBinarySearch` against a linear search, as a recursive definition over bounded inputs.
3. The caches of `FLManagerModules` and `FLDiskCache`, `doAcl` and `undoAcl`, the queue of large values.

To prove next: the same theorems over the modules planned above; that emulated savepoints restore a
level whose queue holds operations, if nothing was done at the level after the inner commit; and a variant for
`SendingEnds`.

## 7. Running

`tlc -workers 2 -config nested.cfg MCBackends`, and likewise for the other runs with the
modules `PROJECT.json` names. The proofs: `tlapm` on `SequenceLemmas.tla`, `FLSqlDatabaseProofs.tla`,
`FLFormRecordDBProofs.tla`, `FLSqlCursorDelProofs.tla`, `ConcurrentEditProofs.tla`, `AlterTableProofs.tla`,
`SmtpProofs.tla` and `SerialValuesProofs.tla`, a few minutes together.
