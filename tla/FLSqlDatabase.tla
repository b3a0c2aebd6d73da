---------------------------- MODULE FLSqlDatabase ----------------------------
(***************************************************************************)
(* Nested transactions of FLSqlDatabase over one table and the cursors of  *)
(* the interface that work on it.  Level 1 is a transaction of the engine  *)
(* where it has them; deeper levels are savepoints, of the engine          *)
(* (PostgreSQL 8, MySQL with InnoDB) or emulated by the client with        *)
(* FLSqlSavePoint (SQLite, MySQL without InnoDB).  The program has one     *)
(* thread: an operation runs to its end before the next one starts, except *)
(* that the process may die in the middle (crash).                         *)
(***************************************************************************)
EXTENDS FLSqlSavePoint, SqlServer

CONSTANTS
    Cursors,      \* FLSqlCursor objects on the table
    NoCursor,     \* null pointer to a cursor
    NoSavePoint,  \* null pointer to a savepoint
    NoBuffer,     \* null pointer to a record, no record
    Events,       \* the unusual inputs that may happen, a subset of AllEvents
    MaxLevel,     \* bound: nested levels open at once
    MaxOps,       \* bound: operations kept by one emulated savepoint
    MaxSavePoints,\* bound: savepoints, of the engine or in the stack and the queue
    MaxOpened     \* bound: levels on record in one cursor

(***************************************************************************)
(* editKey: the primary key is changed in the buffer of a cursor; stale: a *)
(* mode is set without reading the record again in it; unchecked: the      *)
(* integrity checks of commitBuffer are deactivated; refuse: "No" to the   *)
(* question whether the changes are to be cancelled; fail: the engine      *)
(* refuses to end its transaction; crash: the process dies.                *)
(***************************************************************************)
AllEvents == {"editKey", "stale", "unchecked", "refuse", "fail", "crash"}

ASSUME NullAssumption ==
    /\ NoCursor \notin Cursors
    /\ NoSavePoint \notin SavePoints
    /\ NoBuffer \notin Records \cup Keys

ASSUME BoundsAssumption ==
    /\ Events \subseteq AllEvents
    /\ MaxLevel \in Nat
    /\ MaxOps \in Nat
    /\ MaxSavePoints \in Nat
    /\ MaxOpened \in Nat

VARIABLES
    table,               \* the table as the connection sees it
    durable,             \* the table as committed
    serverSP,            \* savepoints of the engine's transaction
    aborted,             \* PostgreSQL: a statement failed, only a rollback is accepted
    transaction_,        \* nesting level
    currentSavePoint_,
    stackSavePoints_,
    queueSavePoints_,
    lastActiveCursor_,
    alive,               \* the cursors that exist
    transactionsOpened_, \* per cursor, the stack of the levels it opened
    modeAccess_,         \* per cursor
    bufferCopy_,         \* per cursor, the record last read by refreshBuffer
    editIndex,           \* per cursor, the key of the record last read in mode EDIT
    undo,                \* an emulated rollback in progress
    loop                 \* a rollbackOpened or commitOpened in progress

serverVars == <<table, durable, serverSP, aborted>>
spVars     == <<currentSavePoint_, stackSavePoints_, queueSavePoints_>>
dbVars     == <<transaction_, currentSavePoint_, stackSavePoints_,
                queueSavePoints_, lastActiveCursor_>>
readVars   == <<bufferCopy_, editIndex>>
cursorVars == <<alive, transactionsOpened_, modeAccess_, readVars>>
vars       == <<serverVars, dbVars, cursorVars, undo, loop>>

Modes == {"INSERT", "EDIT", "DEL", "BROWSE"}

\* phase "sweep": the queue is being examined; "current": the current savepoint is undone
Undos == [phase : {"none", "sweep", "current"}, cur : Cursors \cup {NoCursor},
          left : Nat, opInfos : Seq(OpInfos)]
NoUndo == [phase |-> "none", cur |-> NoCursor, left |-> 0, opInfos |-> <<>>]

\* then: what follows the loop, nothing, the end of the destructor or of finishInternal
Loops == [op : {"none", "rollback", "commit"}, cur : Cursors \cup {NoCursor},
          left : Nat, then : {"return", "destroy", "finish"}]
NoLoop == [op |-> "none", cur |-> NoCursor, left |-> 0, then |-> "return"]

Undoing == undo.phase # "none"
Looping == loop.op # "none"

\* the program is waiting for the next call
Idle == ~Undoing /\ ~Looping

TypeOK ==
    /\ table \in Tables
    /\ durable \in Tables
    /\ serverSP \in Seq([name : Nat, table : Tables])
    /\ aborted \in BOOLEAN
    /\ transaction_ \in Nat
    /\ currentSavePoint_ \in SavePoints \cup {NoSavePoint}
    /\ stackSavePoints_ \in Seq(SavePoints)
    /\ queueSavePoints_ \in Seq(SavePoints)
    /\ lastActiveCursor_ \in Cursors \cup {NoCursor}
    /\ alive \in SUBSET Cursors
    /\ transactionsOpened_ \in [Cursors -> Seq(Nat)]
    /\ modeAccess_ \in [Cursors -> Modes]
    /\ bufferCopy_ \in [Cursors -> Records \cup {NoBuffer}]
    /\ editIndex \in [Cursors -> Keys \cup {NoBuffer}]
    /\ undo \in Undos
    /\ loop \in Loops

Init ==
    /\ table \in Tables
    /\ durable = table
    /\ serverSP = <<>>
    /\ aborted = FALSE
    /\ transaction_ = 0
    /\ currentSavePoint_ = NoSavePoint
    /\ stackSavePoints_ = <<>>
    /\ queueSavePoints_ = <<>>
    /\ lastActiveCursor_ = NoCursor
    /\ alive = {}
    /\ transactionsOpened_ = [c \in Cursors |-> <<>>]
    /\ modeAccess_ = [c \in Cursors |-> "BROWSE"]
    /\ bufferCopy_ = [c \in Cursors |-> NoBuffer]
    /\ editIndex = [c \in Cursors |-> NoBuffer]
    /\ undo = NoUndo
    /\ loop = NoLoop

-----------------------------------------------------------------------------
(***************************************************************************)
(* Records: the cursor reads one (refreshBuffer) in the mode it is in, and *)
(* delivers it later (commitBuffer) in the mode it is in by then.          *)
(***************************************************************************)

\* the engine has a transaction open for this connection
InTransaction == transaction_ > 0 /\ canTransaction

\* statements outside a transaction take effect at once
Store(t) ==
    /\ table' = t
    /\ durable' = IF InTransaction THEN durable ELSE t

\* setModeAccess assigns the mode; what was read in another mode stays
SetAccess(c, m) == modeAccess_' = [modeAccess_ EXCEPT ![c] = m]

Browse(c) == SetAccess(c, "BROWSE") /\ UNCHANGED readVars

\* the calls that only read the table
Reading(c) ==
    /\ Idle /\ c \in alive
    /\ UNCHANGED <<serverVars, dbVars, alive, transactionsOpened_, undo, loop>>

setModeAccess(c, m) ==
    /\ Reading(c)
    /\ m \in {"EDIT", "DEL"} => "stale" \in Events
    /\ SetAccess(c, m)
    /\ UNCHANGED readVars

\* refreshBuffer in mode EDIT or DEL: a locked record is read but not edited, and not deleted
ReadRecord(c, m, k) ==
    \E locked \in BOOLEAN :
        /\ SetAccess(c, IF locked THEN "BROWSE" ELSE m)
        /\ bufferCopy_' = IF m = "DEL" /\ locked THEN bufferCopy_
                          ELSE [bufferCopy_ EXCEPT ![c] = [key |-> k, value |-> table[k]]]
        /\ editIndex' = IF m = "EDIT" THEN [editIndex EXCEPT ![c] = k] ELSE editIndex

\* The record is selected, the mode set and the record read: in one go, but for setModeAccess.
refreshBuffer(c, m, k) ==
    /\ Reading(c) /\ ~aborted
    /\ m \in {"EDIT", "DEL"}
    /\ Exists(table, k)
    /\ ReadRecord(c, m, k)

\* refreshBuffer in mode INSERT: the copy is the new record with its default values
refreshNew(c) ==
    /\ Reading(c)
    /\ modeAccess_[c] = "INSERT" /\ "stale" \in Events
    /\ \E r \in Records : bufferCopy_' = [bufferCopy_ EXCEPT ![c] = r]
    /\ UNCHANGED <<modeAccess_, editIndex>>

\* the current emulated savepoint records the operation, done or not; no record, nothing
Record(op, r) ==
    currentSavePoint_' = IF currentSavePoint_ = NoSavePoint \/ canSavePoint \/ r = NoBuffer
                         THEN currentSavePoint_
                         ELSE save(currentSavePoint_, op, r)

Delivering(c, m) ==
    /\ Idle /\ c \in alive /\ ~aborted
    /\ modeAccess_[c] = m
    /\ currentSavePoint_ # NoSavePoint => Len(currentSavePoint_.opInfos) < MaxOps
    /\ UNCHANGED <<serverSP, transaction_, stackSavePoints_, queueSavePoints_,
                   lastActiveCursor_, alive, transactionsOpened_, undo, loop>>

(***************************************************************************)
(* The statement left table t.  The script afterCommit may still veto: the *)
(* operation is then undone through a local savepoint and the mode kept;   *)
(* what currentSavePoint_ recorded stays recorded.                         *)
(***************************************************************************)
Accept(c, t, op, r, veto) ==
    /\ Store(IF veto /\ r # NoBuffer THEN undoOp(t, [op |-> op, buffer |-> r]) ELSE t)
    /\ IF veto THEN UNCHANGED <<modeAccess_, readVars>> ELSE Browse(c)
    /\ UNCHANGED aborted

\* the statement failed: commitBuffer returns FALSE; PostgreSQL aborts its transaction
Reject ==
    /\ aborted' = (Backend = "psql" /\ InTransaction)
    /\ UNCHANGED <<table, durable, modeAccess_, readVars>>

\* the insertion precedes its record in the savepoint, and is recorded even if it failed
commitInsert(c, r, veto) ==
    /\ Delivering(c, "INSERT")
    /\ Exists(table, r.key) => "unchecked" \in Events
    /\ Record("insert", r)
    /\ IF Exists(table, r.key) THEN Reject
       ELSE Accept(c, InsertRow(table, r), "insert", r, veto)

\* isModifiedBuffer, and update: without a key memorised by primeUpdate nothing is sent
Modified(c, r) == bufferCopy_[c] \notin {NoBuffer, r} /\ editIndex[c] # NoBuffer

\* the row as the statement leaves it: only what differs from the copy is written
Written(c, r) ==
    [key   |-> IF r.key = bufferCopy_[c].key THEN editIndex[c] ELSE r.key,
     value |-> IF r.value = bufferCopy_[c].value THEN table[editIndex[c]] ELSE r.value]

commitEdit(c, r, veto) ==
    LET old == bufferCopy_[c]
        k   == editIndex[c]
        new == Written(c, r)
    IN  /\ Delivering(c, "EDIT")
        /\ Record("edit", old)
        /\ \/ ~Modified(c, r) /\ Accept(c, table, "edit", old, veto)
           \/ /\ Modified(c, r)
              /\ new.key # k => "editKey" \in Events
              /\ IF UpdateClashes(table, k, new) THEN Reject
                 ELSE Accept(c, UpdateRow(table, k, new), "edit", old, veto)

\* the key deleted is the one in the buffer, the record saved is the copy
DeletesKey(c, k) ==
    \/ bufferCopy_[c] # NoBuffer /\ k = bufferCopy_[c].key
    \/ Events \cap {"editKey", "stale"} # {}

\* mutant of commitDel: saveDel is not called
commitDelUnsaved(c, k, veto) ==
    /\ Delivering(c, "DEL") /\ DeletesKey(c, k)
    /\ Accept(c, DeleteRow(table, k), "del", bufferCopy_[c], veto)
    /\ UNCHANGED currentSavePoint_

commitDel(c, k, veto) ==
    /\ Delivering(c, "DEL") /\ DeletesKey(c, k)
    /\ Record("del", bufferCopy_[c])
    /\ Accept(c, DeleteRow(table, k), "del", bufferCopy_[c], veto)

commitBuffer(c) ==
    \E veto \in BOOLEAN :
        \/ \E r \in Records : commitInsert(c, r, veto) \/ commitEdit(c, r, veto)
        \/ \E k \in Keys : commitDel(c, k, veto)

-----------------------------------------------------------------------------
(***************************************************************************)
(* FLSqlDatabase::doTransaction.  A transaction the engine refuses to      *)
(* begin changes nothing.                                                  *)
(***************************************************************************)
ClearSavePoints ==
    /\ currentSavePoint_' = NoSavePoint
    /\ stackSavePoints_' = <<>>
    /\ queueSavePoints_' = <<>>

\* popping into currentSavePoint_ from the stack
PopSavePoint ==
    IF stackSavePoints_ = <<>>
    THEN /\ currentSavePoint_' = NoSavePoint
         /\ UNCHANGED stackSavePoints_
    ELSE /\ currentSavePoint_' = stackSavePoints_[Len(stackSavePoints_)]
         /\ stackSavePoints_' = SubSeq(stackSavePoints_, 1, Len(stackSavePoints_) - 1)

\* the levels the cursor has on record; the count meant by -1 in the code
AllOpened(c) == Len(transactionsOpened_[c])

OpenLevel(c) ==
    /\ transaction_' = transaction_ + 1
    /\ transactionsOpened_' = [transactionsOpened_ EXCEPT ![c] = Append(@, transaction_ + 1)]

BeginTransaction(c) ==
    /\ transaction_ = 0 /\ canTransaction
    /\ lastActiveCursor_' = c
    /\ IF canSavePoint THEN UNCHANGED spVars ELSE ClearSavePoints
    /\ UNCHANGED serverVars

\* mutant of BeginSavePoint: a name still in use is not set again
BeginSavePointOnce ==
    /\ ~(transaction_ = 0 /\ canTransaction) /\ canSavePoint
    /\ serverSP' = IF aborted \/ HasSavePoint(serverSP, transaction_) THEN serverSP
                   ELSE savePoint(serverSP, transaction_, table)
    /\ UNCHANGED <<spVars, table, durable, aborted, lastActiveCursor_>>

BeginSavePoint ==
    /\ ~(transaction_ = 0 /\ canTransaction)
    /\ IF canSavePoint
       THEN \* the result of savePoint() is ignored
            /\ serverSP' = IF aborted THEN serverSP ELSE savePoint(serverSP, transaction_, table)
            /\ UNCHANGED spVars
       ELSE /\ currentSavePoint_' = NewSavePoint(transaction_)
            /\ stackSavePoints_' = IF transaction_ = 0 THEN <<>>
                                   ELSE IF currentSavePoint_ = NoSavePoint THEN stackSavePoints_
                                   ELSE Append(stackSavePoints_, currentSavePoint_)
            /\ queueSavePoints_' = IF transaction_ = 0 THEN <<>> ELSE queueSavePoints_
            /\ UNCHANGED serverSP
    /\ UNCHANGED <<table, durable, aborted, lastActiveCursor_>>

doTransaction(c) ==
    /\ Idle /\ c \in alive
    /\ transaction_ < MaxLevel
    /\ Len(stackSavePoints_) + Len(queueSavePoints_) + Len(serverSP) < MaxSavePoints
    /\ AllOpened(c) < MaxOpened
    /\ OpenLevel(c)
    /\ BeginTransaction(c) \/ BeginSavePoint
    /\ UNCHANGED <<alive, modeAccess_, readVars, undo, loop>>

-----------------------------------------------------------------------------
(***************************************************************************)
(* FLSqlDatabase::doCommit and doRollback.  Both end the newest level of   *)
(* the data base, whichever cursor opened it.                              *)
(***************************************************************************)
\* mutant of CloseLevel: the cursor's record is cleared instead of popped
CloseLevelClears(c) ==
    /\ transaction_ > 0
    /\ transaction_' = transaction_ - 1
    /\ transactionsOpened_' = [transactionsOpened_ EXCEPT ![c] = <<>>]

\* mutant of CloseLevel: a level is closed though none is open
CloseLevelUnguarded(c) ==
    /\ transaction_' = transaction_ - 1
    /\ transactionsOpened_' =
           IF transactionsOpened_[c] = <<>> THEN transactionsOpened_
           ELSE [transactionsOpened_ EXCEPT ![c] = SubSeq(@, 1, Len(@) - 1)]

CloseLevel(c) ==
    /\ transaction_ > 0
    /\ transaction_' = transaction_ - 1
    /\ transactionsOpened_' =
           IF transactionsOpened_[c] = <<>> THEN transactionsOpened_
           ELSE [transactionsOpened_ EXCEPT ![c] = SubSeq(@, 1, Len(@) - 1)]

Notify(c, notify) == IF notify THEN Browse(c) ELSE UNCHANGED <<modeAccess_, readVars>>

\* the level being closed is the engine's transaction
Outermost == transaction_ = 1 /\ canTransaction

\* mutant of LastSavePoint: the level is compared after one more decrement
LastSavePointEarly ==
    \/ transaction_ = 3 /\ canTransaction
    \/ transaction_ = 2 /\ ~canTransaction

\* the level being closed is the outermost savepoint: commit forgets them all
LastSavePoint ==
    \/ transaction_ = 2 /\ canTransaction
    \/ transaction_ = 1 /\ ~canTransaction

\* the engine's transaction ended with that table
EndTransaction(t) ==
    /\ table' = t
    /\ durable' = t
    /\ serverSP' = <<>>
    /\ aborted' = FALSE

\* COMMIT of an aborted PostgreSQL transaction is a ROLLBACK that reports success
CommitTransaction(c, notify) ==
    /\ Outermost
    /\ EndTransaction(IF aborted THEN durable ELSE table)
    /\ lastActiveCursor_' = NoCursor
    /\ IF canSavePoint THEN UNCHANGED spVars ELSE ClearSavePoints
    /\ Notify(c, notify)

\* the engine lost the transaction: FALSE is returned with the level already closed
EndFails ==
    /\ Outermost /\ canSavePoint
    /\ "fail" \in Events
    /\ EndTransaction(durable)
    /\ UNCHANGED <<lastActiveCursor_, spVars, modeAccess_, readVars>>

\* queued savepoints take the id of the level below; the current one joins them
EnqueueCurrent ==
    LET lowered == [i \in DOMAIN queueSavePoints_ |->
                        [queueSavePoints_[i] EXCEPT !.id = transaction_ - 2]]
    IN  IF currentSavePoint_ = NoSavePoint
        THEN /\ queueSavePoints_' = lowered
             /\ UNCHANGED <<currentSavePoint_, stackSavePoints_>>
        ELSE /\ queueSavePoints_' = Append(lowered, currentSavePoint_)
             /\ PopSavePoint

CommitSavePoint(c, notify) ==
    /\ ~Outermost
    /\ IF canSavePoint
       THEN /\ serverSP' = IF aborted THEN serverSP
                           ELSE releaseSavePoint(serverSP, transaction_ - 1)
            /\ UNCHANGED spVars
       ELSE /\ IF LastSavePoint THEN ClearSavePoints ELSE EnqueueCurrent
            /\ UNCHANGED serverSP
    /\ Notify(c, notify)
    /\ UNCHANGED <<table, durable, aborted, lastActiveCursor_>>

doCommit(c, notify) ==
    /\ CloseLevel(c)
    /\ \/ CommitTransaction(c, notify)
       \/ EndFails
       \/ CommitSavePoint(c, notify)
    /\ UNCHANGED <<alive, undo>>

RollbackTransaction(c) ==
    /\ Outermost
    /\ EndTransaction(durable)
    /\ lastActiveCursor_' = NoCursor
    /\ IF canSavePoint THEN UNCHANGED spVars ELSE ClearSavePoints
    /\ Browse(c)
    /\ UNCHANGED undo

\* mutant of RollbackServer: the name of the level below
RollbackServerBelow(c) ==
    /\ ~Outermost /\ canSavePoint
    /\ serverSP' = rollbackSavePoint(serverSP, transaction_ - 2)
    /\ IF HasSavePoint(serverSP, transaction_ - 2)
       THEN table' = Snapshot(serverSP, transaction_ - 2) /\ aborted' = FALSE
       ELSE UNCHANGED <<table, aborted>>
    /\ Browse(c)
    /\ UNCHANGED <<durable, lastActiveCursor_, spVars, undo>>

\* rollbackSavePoint() may find no such savepoint; its result is ignored
RollbackServer(c) ==
    /\ ~Outermost /\ canSavePoint
    /\ serverSP' = rollbackSavePoint(serverSP, transaction_ - 1)
    /\ IF HasSavePoint(serverSP, transaction_ - 1)
       THEN table' = Snapshot(serverSP, transaction_ - 1) /\ aborted' = FALSE
       ELSE UNCHANGED <<table, aborted>>
    /\ Browse(c)
    /\ UNCHANGED <<durable, lastActiveCursor_, spVars, undo>>

\* the emulated rollback starts; SweepQueue .. EndRollback carry it out
RollbackEmulated(c) ==
    /\ ~Outermost /\ ~canSavePoint
    /\ undo' = [phase |-> "sweep", cur |-> c, left |-> Len(queueSavePoints_), opInfos |-> <<>>]
    /\ UNCHANGED <<serverVars, lastActiveCursor_, spVars, modeAccess_, readVars>>

doRollback(c) ==
    /\ CloseLevel(c)
    /\ \/ RollbackTransaction(c)
       \/ EndFails /\ UNCHANGED undo
       \/ RollbackServer(c)
       \/ RollbackEmulated(c)
    /\ UNCHANGED alive

\* "No" to "Todos los cambios efectuados se cancelarán", asked of a modified record
RefusesRollback(c) == "refuse" \in Events /\ modeAccess_[c] \in {"INSERT", "EDIT"}

\* mutant of SweepQueue: the savepoints of the level being closed are kept too
SweepQueueLate ==
    /\ undo.phase = "sweep" /\ undo.opInfos = <<>> /\ undo.left > 0
    /\ LET sp == Head(queueSavePoints_)
       IN  IF sp.id > transaction_ + 1 \/ transaction_ = 0
           THEN /\ queueSavePoints_' = Tail(queueSavePoints_)
                /\ undo' = [undo EXCEPT !.left = @ - 1, !.opInfos = sp.opInfos]
           ELSE /\ queueSavePoints_' = Append(Tail(queueSavePoints_), sp)
                /\ undo' = [undo EXCEPT !.left = @ - 1]
    /\ UNCHANGED <<serverVars, transaction_, currentSavePoint_, stackSavePoints_,
                   lastActiveCursor_, cursorVars, loop>>

\* one turn of the loop over the queue: undo the deeper savepoints, keep the others
SweepQueue ==
    /\ undo.phase = "sweep" /\ undo.opInfos = <<>> /\ undo.left > 0
    /\ LET sp == Head(queueSavePoints_)
       IN  IF sp.id > transaction_ \/ transaction_ = 0
           THEN /\ queueSavePoints_' = Tail(queueSavePoints_)
                /\ undo' = [undo EXCEPT !.left = @ - 1, !.opInfos = sp.opInfos]
           ELSE /\ queueSavePoints_' = Append(Tail(queueSavePoints_), sp)
                /\ undo' = [undo EXCEPT !.left = @ - 1]
    /\ UNCHANGED <<serverVars, transaction_, currentSavePoint_, stackSavePoints_,
                   lastActiveCursor_, cursorVars, loop>>

\* mutant of UndoOp: the operations are undone oldest first
UndoOpOldestFirst ==
    /\ Undoing /\ undo.opInfos # <<>>
    /\ Store(undoOp(table, Head(undo.opInfos)))
    /\ undo' = [undo EXCEPT !.opInfos = Tail(@)]
    /\ UNCHANGED <<serverSP, aborted, dbVars, cursorVars, loop>>

\* one turn of the loop of FLSqlSavePoint::undo
UndoOp ==
    /\ Undoing /\ undo.opInfos # <<>>
    /\ Store(undoOp(table, undo.opInfos[Len(undo.opInfos)]))
    /\ undo' = [undo EXCEPT !.opInfos = SubSeq(@, 1, Len(@) - 1)]
    /\ UNCHANGED <<serverSP, aborted, dbVars, cursorVars, loop>>

\* the queue is done: currentSavePoint_ is undone and replaced from the stack
UndoCurrent ==
    /\ undo.phase = "sweep" /\ undo.opInfos = <<>> /\ undo.left = 0
    /\ IF currentSavePoint_ = NoSavePoint
       THEN /\ undo' = [undo EXCEPT !.phase = "current"]
            /\ UNCHANGED <<currentSavePoint_, stackSavePoints_>>
       ELSE /\ undo' = [undo EXCEPT !.phase = "current", !.opInfos = currentSavePoint_.opInfos]
            /\ PopSavePoint
    /\ UNCHANGED <<serverVars, transaction_, queueSavePoints_, lastActiveCursor_,
                   cursorVars, loop>>

EndRollback ==
    /\ undo.phase = "current" /\ undo.opInfos = <<>>
    /\ IF transaction_ = 0 THEN ClearSavePoints ELSE UNCHANGED spVars
    /\ Browse(undo.cur)
    /\ undo' = NoUndo
    /\ UNCHANGED <<serverVars, transaction_, lastActiveCursor_, alive,
                   transactionsOpened_, loop>>

commit(c, notify) == Idle /\ c \in alive /\ doCommit(c, notify) /\ UNCHANGED loop

rollback(c) == Idle /\ c \in alive /\ doRollback(c) /\ UNCHANGED loop

-----------------------------------------------------------------------------
(***************************************************************************)
(* rollbackOpened and commitOpened of a cursor, its destructor, and        *)
(* finishInternal (run by connectDB and closeDB).  Each turn of the loop   *)
(* is one doRollback or doCommit, whose result is ignored.                 *)
(***************************************************************************)
StartLoop(op, c, n, then) ==
    /\ loop' = [op |-> op, cur |-> c, left |-> n, then |-> then]
    /\ UNCHANGED <<serverVars, dbVars, cursorVars, undo>>

rollbackOpened(c, n) == Idle /\ c \in alive /\ StartLoop("rollback", c, n, "return")

commitOpened(c, n) == Idle /\ c \in alive /\ StartLoop("commit", c, n, "return")

\* mutant of Turn: only the turns that find a level open are counted
TurnIfOpen == loop' = [loop EXCEPT !.left = IF transaction_ = 0 THEN @ ELSE @ - 1]

Turn == loop' = [loop EXCEPT !.left = @ - 1]

LoopTurn(op) == ~Undoing /\ loop.op = op /\ loop.left > 0 /\ Turn

LoopRollback == LoopTurn("rollback") /\ doRollback(loop.cur)

LoopCommit == LoopTurn("commit") /\ doCommit(loop.cur, TRUE)

\* a turn that does nothing: no level is open, or the user keeps the changes
LoopIdle ==
    /\ \/ LoopTurn("rollback") /\ (transaction_ = 0 \/ RefusesRollback(loop.cur))
       \/ LoopTurn("commit") /\ transaction_ = 0
    /\ UNCHANGED <<serverVars, dbVars, cursorVars, undo>>

LoopEnds(then) == ~Undoing /\ Looping /\ loop.left = 0 /\ loop.then = then /\ loop' = NoLoop

LoopReturn == LoopEnds("return") /\ UNCHANGED <<serverVars, dbVars, cursorVars, undo>>

create(c) ==
    /\ Idle /\ c \notin alive
    /\ alive' = alive \cup {c}
    /\ UNCHANGED <<serverVars, dbVars, transactionsOpened_, modeAccess_, readVars, undo, loop>>

\* nothing read
Unread(c) ==
    /\ SetAccess(c, "BROWSE")
    /\ bufferCopy_' = [bufferCopy_ EXCEPT ![c] = NoBuffer]
    /\ editIndex' = [editIndex EXCEPT ![c] = NoBuffer]

\* ~FLSqlCursor; the guarded pointer lastActiveCursor_ becomes null
Die(c) ==
    /\ alive' = alive \ {c}
    /\ transactionsOpened_' = [transactionsOpened_ EXCEPT ![c] = <<>>]
    /\ Unread(c)
    /\ lastActiveCursor_' = IF lastActiveCursor_ = c THEN NoCursor ELSE lastActiveCursor_
    /\ UNCHANGED <<serverVars, transaction_, spVars, undo>>

destroy(c) ==
    /\ Idle /\ c \in alive
    /\ IF transactionsOpened_[c] = <<>> THEN Die(c) /\ UNCHANGED loop
       ELSE StartLoop("rollback", c, AllOpened(c), "destroy")

LoopDestroy == LoopEnds("destroy") /\ Die(loop.cur)

\* mutant of Finish: the engine's transaction is not rolled back
FinishPending ==
    /\ transaction_' = 0
    /\ ClearSavePoints
    /\ lastActiveCursor_' = NoCursor
    /\ UNCHANGED <<serverVars, cursorVars, undo>>

\* the end of finishInternal and, on the new connection, initInternal
Finish ==
    /\ IF transaction_ > 0 /\ canTransaction THEN EndTransaction(durable)
       ELSE UNCHANGED serverVars
    /\ transaction_' = 0
    /\ ClearSavePoints
    /\ lastActiveCursor_' = NoCursor
    /\ UNCHANGED <<cursorVars, undo>>

reconnect ==
    /\ Idle
    /\ IF transaction_ > 0 /\ lastActiveCursor_ # NoCursor
       THEN StartLoop("rollback", lastActiveCursor_, AllOpened(lastActiveCursor_), "finish")
       ELSE Finish /\ UNCHANGED loop

LoopFinish == LoopEnds("finish") /\ Finish

\* the process dies and is started again
crash ==
    /\ "crash" \in Events
    /\ EndTransaction(durable)
    /\ transaction_' = 0
    /\ ClearSavePoints
    /\ lastActiveCursor_' = NoCursor
    /\ alive' = {}
    /\ transactionsOpened_' = [c \in Cursors |-> <<>>]
    /\ modeAccess_' = [c \in Cursors |-> "BROWSE"]
    /\ bufferCopy_' = [c \in Cursors |-> NoBuffer]
    /\ editIndex' = [c \in Cursors |-> NoBuffer]
    /\ undo' = NoUndo
    /\ loop' = NoLoop

-----------------------------------------------------------------------------
CursorNext(c) ==
    \/ create(c) \/ destroy(c)
    \/ \E m \in Modes : setModeAccess(c, m) \/ \E k \in Keys : refreshBuffer(c, m, k)
    \/ refreshNew(c)
    \/ commitBuffer(c)
    \/ doTransaction(c)
    \/ \E notify \in BOOLEAN : commit(c, notify)
    \/ rollback(c)
    \/ \E n \in {1, AllOpened(c)} : rollbackOpened(c, n) \/ commitOpened(c, n)

RollbackNext == SweepQueue \/ UndoOp \/ UndoCurrent \/ EndRollback

LoopNext ==
    LoopRollback \/ LoopCommit \/ LoopIdle \/ LoopReturn \/ LoopDestroy \/ LoopFinish

Next == (\E c \in Cursors : CursorNext(c)) \/ RollbackNext \/ LoopNext \/ reconnect \/ crash

\* a call, once made, runs to its end
Fairness == WF_vars(RollbackNext) /\ WF_vars(LoopNext)

Spec == Init /\ [][Next]_vars /\ Fairness

-----------------------------------------------------------------------------
(***************************************************************************)
(* Properties.                                                             *)
(***************************************************************************)

\* how many of the open levels are emulated savepoints, and the id of the first
Depth  == IF canTransaction /\ transaction_ > 0 THEN transaction_ - 1 ELSE transaction_
BaseId == IF canTransaction THEN 1 ELSE 0

\* currentSavePoint_ and the stack below it, one savepoint for each of d levels
ChainOf(d) ==
    /\ currentSavePoint_ = NoSavePoint <=> d = 0
    /\ Len(stackSavePoints_) = IF d = 0 THEN 0 ELSE d - 1
    /\ currentSavePoint_ # NoSavePoint => currentSavePoint_.id = d - 1 + BaseId
    /\ \A i \in DOMAIN stackSavePoints_ : stackSavePoints_[i].id = i - 1 + BaseId

(***************************************************************************)
(* Behaviour: the pushes and pops spread over doTransaction, doCommit,     *)
(* doRollback and finishInternal.  With emulated savepoints the current    *)
(* one belongs to the newest level, the stack holds those of the levels    *)
(* around it in order, and there is none outside a nested level; a level   *)
(* being rolled back keeps its savepoint until the queue has been swept.   *)
(***************************************************************************)
SavePointPerLevel ==
    ~canSavePoint => ChainOf(IF undo.phase = "sweep" THEN Depth + 1 ELSE Depth)

(***************************************************************************)
(* Behaviour: the ids given to queued savepoints by doCommit and compared  *)
(* by doRollback.  A committed savepoint waits under the id of a level     *)
(* that is still open, so the comparison can reach it; while the queue is  *)
(* swept the entries already re-enqueued belong to levels that stay open.  *)
(***************************************************************************)
QueueUnderOpenLevels ==
    IF undo.phase = "sweep"
    THEN /\ undo.left <= Len(queueSavePoints_)
         /\ \A i \in DOMAIN queueSavePoints_ :
                queueSavePoints_[i].id <=
                    IF i <= undo.left THEN transaction_ + 1 ELSE transaction_
    ELSE \A i \in DOMAIN queueSavePoints_ : queueSavePoints_[i].id <= transaction_

(***************************************************************************)
(* Behaviour: every way a transaction ends (commit, rollback, destructor,  *)
(* reconnection, engine failure, crash).  When the engine has no           *)
(* transaction open, nothing the cursors see is still uncommitted.         *)
(***************************************************************************)
NothingPending == ~InTransaction => table = durable

(***************************************************************************)
(* Behaviour: the loops of doRollback, rollbackOpened, commitOpened, the   *)
(* destructor and finishInternal.  A call that was started returns.        *)
(***************************************************************************)
CallsReturn == (Undoing \/ Looping) ~> Idle

=============================================================================
