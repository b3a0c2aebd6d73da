------------------------- MODULE FLSqlDatabaseProofs -------------------------
(***************************************************************************)
(* Proofs, for every back end, number of cursors, table and bound, of the  *)
(* safety invariants of FLSqlDatabase, that some cursor answers for every  *)
(* open level, and that the nesting implements NestedTransactions, over    *)
(* the savepoints of an engine and, last, over emulated ones.              *)
(***************************************************************************)
EXTENDS TransactionHistory, TransactionOwnership, SequenceLemmas, FiniteSetTheorems, TLAPS

ServerSavePoints == [name : Nat, table : Tables]

-----------------------------------------------------------------------------
(* Lemmas about the operators on tables and on the engine's savepoints.    *)

\* Inserting, deleting and updating rows yields tables.
LEMMA RowOps ==
    ASSUME NEW t \in Tables, NEW k \in Keys, NEW r \in Records
    PROVE  /\ InsertRow(t, r) \in Tables
           /\ DeleteRow(t, k) \in Tables
           /\ UpdateRow(t, k, r) \in Tables
  BY DEF Tables, Records, InsertRow, DeleteRow, UpdateRow

\* Undoing one operation (a turn of FLSqlSavePoint::undo) yields a table.
LEMMA UndoOpType ==
    ASSUME NEW t \in Tables, NEW o \in OpInfos
    PROVE  undoOp(t, o) \in Tables
<1>1. o.buffer \in Records /\ o.buffer.key \in Keys /\ o.op \in {"insert", "edit", "del"}
  BY DEF OpInfos, Records
<1>2. /\ undoInsert(t, o.buffer) \in Tables
      /\ undoEdit(t, o.buffer) \in Tables
      /\ undoDel(t, o.buffer) \in Tables
  BY <1>1, RowOps DEF undoInsert, undoEdit, undoDel
<1> QED
  BY <1>1, <1>2 DEF undoOp

\* The newest savepoint of a name that exists is one of the savepoints.
LEMMA NewestType ==
    ASSUME NEW sps \in Seq(ServerSavePoints), NEW n, HasSavePoint(sps, n)
    PROVE  Newest(sps, n) \in 1 .. Len(sps)
<1> DEFINE S == {i \in 1 .. Len(sps) : sps[i].name = n}
<1>1. S # {} /\ S \in SUBSET (1 .. Len(sps)) /\ Len(sps) \in Nat /\ DOMAIN sps = 1 .. Len(sps)
  BY DEF HasSavePoint
<1>2. PICK i \in S : \A j \in S : j <= i
  <2> HIDE DEF S
  <2> QED
    BY <1>1, LastPosition
<1>3. /\ i \in DOMAIN sps /\ sps[i].name = n
      /\ \A j \in DOMAIN sps : j > i => sps[j].name # n
  BY <1>1, <1>2
<1> QED
  BY <1>1, <1>3 DEF Newest

\* The engine's savepoints keep their type under SAVEPOINT, RELEASE and ROLLBACK TO.
LEMMA ServerOps ==
    ASSUME NEW sps \in Seq(ServerSavePoints), NEW n \in Nat, NEW t \in Tables
    PROVE  /\ savePoint(sps, n, t) \in Seq(ServerSavePoints)
           /\ releaseSavePoint(sps, n) \in Seq(ServerSavePoints)
           /\ rollbackSavePoint(sps, n) \in Seq(ServerSavePoints)
           /\ HasSavePoint(sps, n) => Snapshot(sps, n) \in Tables
<1>1. CASE ~HasSavePoint(sps, n)
  BY <1>1 DEF savePoint, WithoutMySQL, releaseSavePoint, rollbackSavePoint, ServerSavePoints
<1>2. CASE HasSavePoint(sps, n)
  <2> DEFINE i == Newest(sps, n)
  <2>1. i \in 1 .. Len(sps)
    BY <1>2, NewestType
  <2> HIDE DEF i
  <2>2. /\ SubSeq(sps, 1, i - 1) \in Seq(ServerSavePoints)
        /\ SubSeq(sps, 1, i) \in Seq(ServerSavePoints)
        /\ SubSeq(sps, i + 1, Len(sps)) \in Seq(ServerSavePoints)
        /\ sps[i] \in ServerSavePoints
        /\ [name |-> n, table |-> t] \in ServerSavePoints
    <3> HIDE DEF ServerSavePoints
    <3>1. Len(sps) \in Nat
      OBVIOUS
    <3>2. /\ SubSeq(sps, 1, i - 1) \in Seq(ServerSavePoints)
          /\ SubSeq(sps, 1, i) \in Seq(ServerSavePoints)
          /\ SubSeq(sps, i + 1, Len(sps)) \in Seq(ServerSavePoints)
          /\ sps[i] \in ServerSavePoints
      BY <2>1, <3>1, SubSeqType
    <3> QED
      BY <3>2 DEF ServerSavePoints
  <2>3. SubSeq(sps, 1, i - 1) \o SubSeq(sps, i + 1, Len(sps)) \in Seq(ServerSavePoints)
    BY <2>2
  <2>4. WithoutMySQL(sps, n) \in Seq(ServerSavePoints)
    BY <2>3 DEF WithoutMySQL, i
  <2>5. savePoint(sps, n, t) \in Seq(ServerSavePoints)
    BY <2>2, <2>4 DEF savePoint
  <2>6. sps[i].table \in Tables
    BY <2>2 DEF ServerSavePoints
  <2> QED
    BY <2>2, <2>5, <2>6 DEF releaseSavePoint, rollbackSavePoint, Snapshot, i
<1> QED
  BY <1>1, <1>2

-----------------------------------------------------------------------------
(***************************************************************************)
(* The inductive invariant.  Control adds to the properties what the steps *)
(* of a call need while it is being carried out: which cursor it works     *)
(* for, that only emulated savepoints are undone step by step, and that an *)
(* engine with savepoints leaves the emulated ones unused.                 *)
(***************************************************************************)
Control ==
    /\ Undoing => ~canSavePoint /\ undo.cur \in Cursors
    /\ Looping => loop.cur \in Cursors
    /\ canSavePoint => /\ currentSavePoint_ = NoSavePoint
                       /\ stackSavePoints_ = <<>>
                       /\ queueSavePoints_ = <<>>

IInv ==
    /\ TypeOK
    /\ SavePointPerLevel
    /\ QueueUnderOpenLevels
    /\ NothingPending
    /\ Control

USE DEF ServerSavePoints, readVars

\* Recording an operation keeps the type and the identity of the current savepoint.
LEMMA RecordType ==
    ASSUME currentSavePoint_ \in SavePoints \cup {NoSavePoint},
           NEW op \in {"insert", "edit", "del"}, NEW r \in Records \cup {NoBuffer}, Record(op, r)
    PROVE  /\ currentSavePoint_' \in SavePoints \cup {NoSavePoint}
           /\ currentSavePoint_' = NoSavePoint <=> currentSavePoint_ = NoSavePoint
           /\ currentSavePoint_ # NoSavePoint => currentSavePoint_'.id = currentSavePoint_.id
<1>1. CASE currentSavePoint_ \in SavePoints /\ r \in Records
  <2>1. [op |-> op, buffer |-> r] \in OpInfos
    BY <1>1 DEF OpInfos
  <2>2. currentSavePoint_.opInfos \in Seq(OpInfos) /\ currentSavePoint_.id \in Nat
    BY <1>1 DEF SavePoints
  <2>3. Append(currentSavePoint_.opInfos, [op |-> op, buffer |-> r]) \in Seq(OpInfos)
    BY <2>1, <2>2
  <2> HIDE DEF OpInfos
  <2>4. save(currentSavePoint_, op, r) \in SavePoints
    BY <1>1, <2>3 DEF save, SavePoints
  <2>5. save(currentSavePoint_, op, r).id = currentSavePoint_.id
    BY <1>1 DEF save, SavePoints
  <2> HIDE DEF SavePoints
  <2> QED
    BY <1>1, <2>4, <2>5, NullAssumption DEF Record
<1>2. CASE currentSavePoint_ = NoSavePoint \/ r = NoBuffer
  BY <1>2 DEF Record
<1> QED
  BY <1>1, <1>2

\* Setting the mode of a cursor keeps the type of the modes.
LEMMA AccessType ==
    ASSUME TypeOK, NEW c \in Cursors, NEW m \in Modes, SetAccess(c, m)
    PROVE  modeAccess_' \in [Cursors -> Modes]
  BY DEF TypeOK, SetAccess

\* Returning a cursor to BROWSE, or leaving its access alone, keeps the types.
LEMMA BrowseType ==
    ASSUME TypeOK, NEW c \in Cursors, Browse(c) \/ UNCHANGED <<modeAccess_, readVars>>
    PROVE  /\ modeAccess_' \in [Cursors -> Modes]
           /\ bufferCopy_' \in [Cursors -> Records \cup {NoBuffer}]
           /\ editIndex' \in [Cursors -> Keys \cup {NoBuffer}]
<1>1. CASE Browse(c)
  BY <1>1, AccessType DEF Browse, Modes, TypeOK
<1>2. CASE UNCHANGED <<modeAccess_, readVars>>
  BY <1>2 DEF TypeOK
<1> QED
  BY <1>1, <1>2

\* The calls that only read the table keep the types, and change nothing else.
LEMMA ReadType ==
    ASSUME TypeOK, NEW c \in Cursors,
           \/ \E m \in Modes : setModeAccess(c, m) \/ \E k \in Keys : refreshBuffer(c, m, k)
           \/ refreshNew(c)
    PROVE  /\ Reading(c)
           /\ modeAccess_' \in [Cursors -> Modes]
           /\ bufferCopy_' \in [Cursors -> Records \cup {NoBuffer}]
           /\ editIndex' \in [Cursors -> Keys \cup {NoBuffer}]
<1>1. ASSUME NEW m \in Modes, setModeAccess(c, m)
      PROVE  /\ Reading(c) /\ modeAccess_' \in [Cursors -> Modes]
             /\ UNCHANGED readVars
  BY <1>1, AccessType DEF setModeAccess
<1>2. ASSUME NEW m \in Modes, NEW k \in Keys, refreshBuffer(c, m, k)
      PROVE  /\ Reading(c)
             /\ modeAccess_' \in [Cursors -> Modes]
             /\ bufferCopy_' \in [Cursors -> Records \cup {NoBuffer}]
             /\ editIndex' \in [Cursors -> Keys \cup {NoBuffer}]
  <2>1. [key |-> k, value |-> table[k]] \in Records
    BY <1>2 DEF refreshBuffer, Exists, Records, Tables, TypeOK
  <2>2. PICK locked \in BOOLEAN :
          /\ SetAccess(c, IF locked THEN "BROWSE" ELSE m)
          /\ bufferCopy_' = IF m = "DEL" /\ locked THEN bufferCopy_
                            ELSE [bufferCopy_ EXCEPT ![c] = [key |-> k, value |-> table[k]]]
          /\ editIndex' = IF m = "EDIT" THEN [editIndex EXCEPT ![c] = k] ELSE editIndex
    BY <1>2 DEF refreshBuffer, ReadRecord
  <2>3. modeAccess_' \in [Cursors -> Modes]
    BY <2>2, AccessType DEF Modes
  <2> HIDE DEF Records
  <2> QED
    BY <1>2, <2>1, <2>2, <2>3 DEF refreshBuffer, TypeOK
<1>3. ASSUME refreshNew(c)
      PROVE  /\ Reading(c)
             /\ modeAccess_' \in [Cursors -> Modes]
             /\ bufferCopy_' \in [Cursors -> Records \cup {NoBuffer}]
             /\ editIndex' \in [Cursors -> Keys \cup {NoBuffer}]
  BY <1>3 DEF refreshNew, TypeOK
<1> QED
  BY <1>1, <1>2, <1>3 DEF TypeOK

\* What commitBuffer sends for an edit is a record, and the table stays one.
LEMMA WrittenType ==
    ASSUME TypeOK, NEW c \in Cursors, NEW r \in Records, Modified(c, r)
    PROVE  UpdateRow(table, editIndex[c], Written(c, r)) \in Tables
<1>1. /\ editIndex[c] \in Keys /\ table \in Tables /\ bufferCopy_[c] \in Records
      /\ r.key \in Keys /\ r.value \in Values
  BY DEF TypeOK, Modified, Records
<1>2. CASE table[editIndex[c]] = NoRow
  BY <1>1, <1>2 DEF UpdateRow, Exists
<1>3. CASE table[editIndex[c]] # NoRow
  <2>1. Written(c, r) \in Records
    BY <1>1, <1>3 DEF Written, Records, Tables
  <2> QED
    BY <1>1, <2>1, RowOps
<1> QED
  BY <1>2, <1>3

\* Popping the stack into currentSavePoint_ keeps their types.
LEMMA PopType ==
    ASSUME TypeOK, PopSavePoint
    PROVE  /\ currentSavePoint_' \in SavePoints \cup {NoSavePoint}
           /\ stackSavePoints_' \in Seq(SavePoints)
<1>1. stackSavePoints_ \in Seq(SavePoints)
  BY DEF TypeOK
<1>2. CASE stackSavePoints_ = <<>>
  BY <1>1, <1>2 DEF PopSavePoint
<1>3. CASE stackSavePoints_ # <<>>
  BY <1>1, <1>3, FrontType DEF PopSavePoint
<1> QED
  BY <1>2, <1>3

\* The ids in the queue are natural numbers.
LEMMA QueueType ==
    ASSUME TypeOK
    PROVE  /\ Len(queueSavePoints_) \in Nat
           /\ DOMAIN queueSavePoints_ = 1 .. Len(queueSavePoints_)
           /\ \A i \in DOMAIN queueSavePoints_ :
                  queueSavePoints_[i] \in SavePoints /\ queueSavePoints_[i].id \in Nat
<1>1. queueSavePoints_ \in Seq(SavePoints)
  BY DEF TypeOK
<1>2. \A i \in DOMAIN queueSavePoints_ : queueSavePoints_[i] \in SavePoints
  BY <1>1
<1> QED
  BY <1>1, <1>2 DEF SavePoints

\* Opening or closing a level keeps the types of the level and of the cursors' records.
LEMMA LevelType ==
    ASSUME TypeOK, NEW c \in Cursors, OpenLevel(c) \/ CloseLevel(c)
    PROVE  /\ transaction_' \in Nat
           /\ transactionsOpened_' \in [Cursors -> Seq(Nat)]
<1>1. transaction_ \in Nat /\ transactionsOpened_ \in [Cursors -> Seq(Nat)]
      /\ transactionsOpened_[c] \in Seq(Nat)
  BY DEF TypeOK
<1>2. CASE OpenLevel(c)
  <2>1. Append(transactionsOpened_[c], transaction_ + 1) \in Seq(Nat)
    BY <1>1
  <2> QED
    BY <1>1, <1>2, <2>1 DEF OpenLevel
<1>3. CASE CloseLevel(c)
  <2>1. transaction_' \in Nat
    BY <1>1, <1>3 DEF CloseLevel
  <2>2. CASE transactionsOpened_[c] = <<>>
    BY <1>1, <1>3, <2>1, <2>2 DEF CloseLevel
  <2>3. CASE transactionsOpened_[c] # <<>>
    <3>1. SubSeq(transactionsOpened_[c], 1, Len(transactionsOpened_[c]) - 1) \in Seq(Nat)
      BY <1>1, <2>3, FrontType
    <3> QED
      BY <1>1, <1>3, <2>1, <2>3, <3>1 DEF CloseLevel
  <2> QED
    BY <2>2, <2>3
<1> QED
  BY <1>2, <1>3

-----------------------------------------------------------------------------
(* The records of the cursors.                                             *)

\* What a delivery does: it records an operation, and the engine refuses the statement, which
\* takes unchecked integrity or a changed key, or leaves a table.
LEMMA DeliverShape ==
    ASSUME TypeOK, NEW c \in Cursors, commitBuffer(c)
    PROVE  \E m \in Modes, op \in {"insert", "edit", "del"}, r \in Records \cup {NoBuffer},
              t \in Tables, veto \in BOOLEAN :
                 /\ Delivering(c, m) /\ Record(op, r)
                 /\ \/ Reject /\ Events \cap {"unchecked", "editKey"} # {}
                    \/ Accept(c, t, op, r, veto)
<1> DEFINE Shape(m, op, r, t, veto) ==
             /\ Delivering(c, m) /\ Record(op, r)
             /\ \/ Reject /\ Events \cap {"unchecked", "editKey"} # {}
                \/ Accept(c, t, op, r, veto)
<1>1. PICK veto \in BOOLEAN :
         \/ \E r \in Records : commitInsert(c, r, veto) \/ commitEdit(c, r, veto)
         \/ \E k \in Keys : commitDel(c, k, veto)
  BY DEF commitBuffer
<1>2. table \in Tables /\ bufferCopy_[c] \in Records \cup {NoBuffer}
      /\ {"INSERT", "EDIT", "DEL"} \subseteq Modes
  BY DEF TypeOK, Modes
<1>3. ASSUME NEW r \in Records, commitInsert(c, r, veto)
      PROVE  \E t \in Tables : Shape("INSERT", "insert", r, t, veto)
  <2>1. InsertRow(table, r) \in Tables
    BY <1>2, RowOps DEF Records
  <2> QED
    BY <1>2, <1>3, <2>1 DEF commitInsert
<1>4. ASSUME NEW r \in Records, commitEdit(c, r, veto)
      PROVE  \E t \in Tables : Shape("EDIT", "edit", bufferCopy_[c], t, veto)
  <2>1. Delivering(c, "EDIT") /\ Record("edit", bufferCopy_[c])
    BY <1>4 DEF commitEdit
  <2>2. CASE ~Modified(c, r)
    BY <1>2, <1>4, <2>1, <2>2 DEF commitEdit
  <2>3. CASE Modified(c, r)
    <3>1. UpdateRow(table, editIndex[c], Written(c, r)) \in Tables
      BY <2>3, WrittenType
    <3>2. CASE UpdateClashes(table, editIndex[c], Written(c, r))
      <4>1. Reject /\ "editKey" \in Events
        BY <1>4, <2>3, <3>2 DEF commitEdit, UpdateClashes
      <4> QED
        BY <1>2, <2>1, <4>1
    <3>3. CASE ~UpdateClashes(table, editIndex[c], Written(c, r))
      <4>1. Accept(c, UpdateRow(table, editIndex[c], Written(c, r)), "edit", bufferCopy_[c], veto)
        BY <1>4, <2>3, <3>3 DEF commitEdit
      <4> QED
        BY <2>1, <3>1, <4>1
    <3> QED
      BY <3>2, <3>3
  <2> QED
    BY <2>2, <2>3
<1>5. ASSUME NEW k \in Keys, commitDel(c, k, veto)
      PROVE  \E t \in Tables : Shape("DEL", "del", bufferCopy_[c], t, veto)
  <2>1. DeleteRow(table, k) \in Tables
    BY <1>2 DEF DeleteRow, Tables
  <2> QED
    BY <1>5, <2>1 DEF commitDel
<1> HIDE DEF Shape
<1>6. \E m \in Modes, op \in {"insert", "edit", "del"}, r \in Records \cup {NoBuffer},
         t \in Tables : Shape(m, op, r, t, veto)
  BY <1>1, <1>2, <1>3, <1>4, <1>5
<1> QED
  BY <1>6 DEF Shape

\* Delivering a record, accepted, refused or vetoed, preserves the invariant.
LEMMA DeliverInv ==
    ASSUME IInv, NEW c \in Cursors, commitBuffer(c)
    PROVE  IInv'
<1>1. PICK m \in Modes, op \in {"insert", "edit", "del"}, r \in Records \cup {NoBuffer},
           t \in Tables, veto \in BOOLEAN :
              Delivering(c, m) /\ Record(op, r) /\ (Reject \/ Accept(c, t, op, r, veto))
  BY DeliverShape DEF IInv
<1>2. Record(op, r) /\ (Reject \/ Accept(c, t, op, r, veto))
  BY <1>1
<1>3. Delivering(c, m)
  BY <1>1
<1>4. table' \in Tables /\ durable' \in Tables /\ aborted' \in BOOLEAN
  <2>1. CASE Reject
    BY <2>1 DEF Reject, IInv, TypeOK
  <2>2. CASE Accept(c, t, op, r, veto)
    <3>1. r # NoBuffer => undoOp(t, [op |-> op, buffer |-> r]) \in Tables
      BY UndoOpType DEF OpInfos
    <3> QED
      BY <2>2, <3>1 DEF Accept, Store, IInv, TypeOK
  <2> QED
    BY <1>2, <2>1, <2>2
<1>5. /\ modeAccess_' \in [Cursors -> Modes]
      /\ bufferCopy_' \in [Cursors -> Records \cup {NoBuffer}]
      /\ editIndex' \in [Cursors -> Keys \cup {NoBuffer}]
  BY <1>2, BrowseType DEF IInv, Reject, Accept
<1>6. currentSavePoint_' \in SavePoints \cup {NoSavePoint}
  BY <1>2, RecordType DEF IInv, TypeOK
<1>7. TypeOK'
  BY <1>3, <1>4, <1>5, <1>6 DEF Delivering, IInv, TypeOK
<1>8. /\ currentSavePoint_' = NoSavePoint <=> currentSavePoint_ = NoSavePoint
      /\ currentSavePoint_ # NoSavePoint => currentSavePoint_'.id = currentSavePoint_.id
  BY <1>2, RecordType DEF IInv, TypeOK
<1>9. SavePointPerLevel' /\ QueueUnderOpenLevels'
  BY <1>3, <1>8 DEF Delivering, IInv, SavePointPerLevel, QueueUnderOpenLevels, ChainOf,
     Depth, BaseId
<1>10. NothingPending'
  <2>1. CASE Reject
    BY <1>3, <2>1 DEF Reject, Delivering, IInv, NothingPending, InTransaction
  <2>2. CASE Accept(c, t, op, r, veto)
    BY <1>3, <2>2 DEF Accept, Store, Delivering, IInv, NothingPending, InTransaction
  <2> QED
    BY <1>2, <2>1, <2>2
<1>11. Control'
  BY <1>2, <1>3, <1>8 DEF Delivering, IInv, Control, Undoing, Looping
<1> QED
  BY <1>7, <1>9, <1>10, <1>11 DEF IInv

-----------------------------------------------------------------------------
(* The levels.                                                             *)

\* doTransaction preserves the invariant.
LEMMA TransactionInv ==
    ASSUME IInv, NEW c \in Cursors, doTransaction(c)
    PROVE  IInv'
<1>1. /\ undo.phase = "none" /\ ~Looping
      /\ UNCHANGED <<table, durable, aborted, alive, modeAccess_, readVars, undo, loop>>
  BY DEF doTransaction, BeginTransaction, BeginSavePoint, Idle, Undoing, serverVars
<1>2. /\ transaction_ \in Nat /\ transaction_' = transaction_ + 1
      /\ transaction_' \in Nat
      /\ transactionsOpened_' \in [Cursors -> Seq(Nat)]
  BY LevelType DEF doTransaction, OpenLevel, IInv, TypeOK
<1>3. NothingPending'
  BY <1>1, <1>2 DEF IInv, NothingPending, InTransaction
<1>4. CASE BeginTransaction(c)
  <2>1. /\ transaction_ = 0 /\ canTransaction
        /\ currentSavePoint_' = NoSavePoint /\ stackSavePoints_' = <<>>
        /\ queueSavePoints_' = <<>>
        /\ lastActiveCursor_' = c /\ serverSP' = serverSP
    BY <1>4 DEF BeginTransaction, ClearSavePoints, spVars, serverVars, IInv, Control
  <2>2. TypeOK'
    BY <1>1, <1>2, <2>1 DEF IInv, TypeOK
  <2>3. SavePointPerLevel' /\ QueueUnderOpenLevels' /\ Control'
    BY <1>1, <1>2, <2>1 DEF SavePointPerLevel, ChainOf, Depth, BaseId, QueueUnderOpenLevels,
       Control, Undoing, Looping
  <2> QED
    BY <1>3, <2>2, <2>3 DEF IInv
<1>5. CASE BeginSavePoint /\ canSavePoint
  <2>1. UNCHANGED <<spVars, lastActiveCursor_>>
    BY <1>5 DEF BeginSavePoint
  <2>2. serverSP' \in Seq(ServerSavePoints)
    <3>1. serverSP' = IF aborted THEN serverSP ELSE savePoint(serverSP, transaction_, table)
      BY <1>5 DEF BeginSavePoint
    <3>2. serverSP \in Seq(ServerSavePoints) /\ table \in Tables
      BY DEF IInv, TypeOK
    <3> HIDE DEF ServerSavePoints
    <3> QED
      BY <1>2, <3>1, <3>2, ServerOps
  <2>3. TypeOK'
    BY <1>1, <1>2, <2>1, <2>2 DEF spVars, IInv, TypeOK
  <2>4. SavePointPerLevel' /\ QueueUnderOpenLevels' /\ Control'
    BY <1>1, <1>2, <1>5, <2>1 DEF spVars, SavePointPerLevel, QueueUnderOpenLevels,
       IInv, Control, Undoing, Looping
  <2> QED
    BY <1>3, <2>3, <2>4 DEF IInv
<1>6. CASE BeginSavePoint /\ ~canSavePoint
  <2>1. /\ ~(transaction_ = 0 /\ canTransaction)
        /\ currentSavePoint_' = NewSavePoint(transaction_)
        /\ stackSavePoints_' = IF transaction_ = 0 THEN <<>>
                               ELSE IF currentSavePoint_ = NoSavePoint THEN stackSavePoints_
                               ELSE Append(stackSavePoints_, currentSavePoint_)
        /\ queueSavePoints_' = IF transaction_ = 0 THEN <<>> ELSE queueSavePoints_
        /\ UNCHANGED <<serverSP, lastActiveCursor_>>
    BY <1>6 DEF BeginSavePoint
  <2>2. currentSavePoint_' \in SavePoints /\ currentSavePoint_'.id = transaction_
    BY <1>2, <2>1 DEF NewSavePoint, SavePoints
  <2> HIDE DEF SavePoints
  <2>3. currentSavePoint_ # NoSavePoint => currentSavePoint_ \in SavePoints
    BY DEF IInv, TypeOK
  <2>4. stackSavePoints_' \in Seq(SavePoints) /\ queueSavePoints_' \in Seq(SavePoints)
    BY <2>1, <2>3 DEF IInv, TypeOK
  <2>5. TypeOK'
    BY <1>1, <1>2, <2>1, <2>2, <2>4 DEF IInv, TypeOK
  <2>6. ChainOf(Depth) /\ stackSavePoints_ \in Seq(SavePoints)
    BY <1>1, <1>6 DEF IInv, SavePointPerLevel, TypeOK
  <2>7. SavePointPerLevel'
    <3>1. currentSavePoint_' # NoSavePoint
      BY <2>2, NullAssumption
    <3>2. CASE transaction_ = 0
      BY <1>1, <1>2, <2>1, <2>2, <3>1, <3>2 DEF SavePointPerLevel, ChainOf, Depth, BaseId
    <3>3. CASE transaction_ # 0 /\ Depth = 0
      BY <1>1, <1>2, <2>1, <2>2, <2>6, <3>1, <3>3 DEF SavePointPerLevel, ChainOf, Depth, BaseId
    <3>4. CASE transaction_ # 0 /\ Depth # 0
      <4>1. stackSavePoints_' = Append(stackSavePoints_, currentSavePoint_)
        BY <2>1, <2>6, <3>4 DEF ChainOf
      <4>2. /\ Len(stackSavePoints_') = Len(stackSavePoints_) + 1
            /\ stackSavePoints_'[Len(stackSavePoints_) + 1] = currentSavePoint_
            /\ \A i \in 1 .. Len(stackSavePoints_) : stackSavePoints_'[i] = stackSavePoints_[i]
            /\ DOMAIN stackSavePoints_' = 1 .. Len(stackSavePoints_) + 1
            /\ DOMAIN stackSavePoints_ = 1 .. Len(stackSavePoints_)
            /\ Len(stackSavePoints_) \in Nat
        BY <2>3, <2>6, <3>4, <4>1 DEF ChainOf
      <4>3. Depth \in Nat /\ Depth' = Depth + 1 /\ BaseId \in Nat /\ transaction_ = Depth + BaseId
        BY <1>2, <3>4 DEF Depth, BaseId
      <4>4. /\ Len(stackSavePoints_) = Depth - 1
            /\ currentSavePoint_.id = Depth - 1 + BaseId
            /\ \A i \in DOMAIN stackSavePoints_ : stackSavePoints_[i].id = i - 1 + BaseId
        BY <2>6, <3>4 DEF ChainOf
      <4>5. ASSUME NEW i \in DOMAIN stackSavePoints_'
            PROVE  stackSavePoints_'[i].id = i - 1 + BaseId
        <5>1. CASE i = Len(stackSavePoints_) + 1
          BY <4>2, <4>3, <4>4, <5>1
        <5>2. CASE i \in 1 .. Len(stackSavePoints_)
          BY <4>2, <4>4, <5>2
        <5> QED
          BY <4>2, <5>1, <5>2
      <4>6. BaseId' = BaseId
        BY DEF BaseId
      <4>7. ChainOf(Depth)'
        BY <2>2, <3>1, <4>2, <4>3, <4>4, <4>5, <4>6 DEF ChainOf
      <4> QED
        BY <1>1, <4>7 DEF SavePointPerLevel
    <3> QED
      BY <3>2, <3>3, <3>4
  <2>8. QueueUnderOpenLevels'
    <3>1. CASE transaction_ = 0
      BY <1>1, <2>1, <3>1 DEF QueueUnderOpenLevels
    <3>2. CASE transaction_ # 0
      <4>1. \A i \in DOMAIN queueSavePoints_ :
               queueSavePoints_[i].id \in Nat /\ queueSavePoints_[i].id <= transaction_
        BY <1>1, QueueType DEF IInv, QueueUnderOpenLevels
      <4> QED
        BY <1>1, <1>2, <2>1, <3>2, <4>1 DEF QueueUnderOpenLevels
    <3> QED
      BY <3>1, <3>2
  <2>9. Control'
    BY <1>1, <1>6 DEF IInv, Control, Undoing, Looping
  <2> QED
    BY <1>3, <2>5, <2>7, <2>8, <2>9 DEF IInv
<1> QED
  BY <1>4, <1>5, <1>6 DEF doTransaction

\* Popping the savepoint of the newest of d levels leaves those of the d - 1 others.
LEMMA PopChain ==
    ASSUME TypeOK, NEW d \in Nat, d > 0, ChainOf(d), PopSavePoint
    PROVE  ChainOf(d - 1)'
<1> HIDE DEF SavePoints
<1>1. /\ stackSavePoints_ \in Seq(SavePoints) /\ Len(stackSavePoints_) = d - 1
      /\ \A i \in DOMAIN stackSavePoints_ : stackSavePoints_[i].id = i - 1 + BaseId
      /\ BaseId' = BaseId /\ BaseId \in Nat
  BY DEF TypeOK, ChainOf, BaseId
<1>2. CASE d = 1
  <2>1. stackSavePoints_ = <<>>
    BY <1>1, <1>2
  <2> QED
    BY <1>2, <2>1 DEF PopSavePoint, ChainOf
<1>3. CASE d > 1
  <2>1. stackSavePoints_ # <<>>
    BY <1>1, <1>3
  <2>2. /\ currentSavePoint_' = stackSavePoints_[d - 1]
        /\ stackSavePoints_' = SubSeq(stackSavePoints_, 1, d - 1 - 1)
    BY <1>1, <2>1 DEF PopSavePoint
  <2>3. /\ currentSavePoint_' \in SavePoints
        /\ stackSavePoints_' \in Seq(SavePoints)
        /\ Len(stackSavePoints_') = d - 1 - 1
        /\ \A i \in 1 .. d - 1 - 1 : stackSavePoints_'[i] = stackSavePoints_[i]
    BY <1>1, <2>1, <2>2, FrontType
  <2>4. currentSavePoint_' # NoSavePoint
    BY <2>3, NullAssumption
  <2>5. d - 1 \in DOMAIN stackSavePoints_ /\ DOMAIN stackSavePoints_ = 1 .. d - 1
    BY <1>1, <1>3
  <2>6. currentSavePoint_'.id = d - 1 - 1 + BaseId
    BY <1>1, <2>2, <2>5
  <2>7. ASSUME NEW i \in DOMAIN stackSavePoints_'
        PROVE  stackSavePoints_'[i].id = i - 1 + BaseId
    <3>1. i \in 1 .. d - 1 - 1 /\ i \in DOMAIN stackSavePoints_
      BY <2>3, <2>5
    <3> QED
      BY <1>1, <2>3, <3>1
  <2> QED
    BY <1>1, <1>3, <2>3, <2>4, <2>6, <2>7 DEF ChainOf
<1> QED
  BY <1>2, <1>3

\* Ending the engine's transaction keeps the types, and leaves nothing pending.
LEMMA EndTransactionType ==
    ASSUME TypeOK, NEW t \in Tables, EndTransaction(t)
    PROVE  /\ table' \in Tables /\ durable' \in Tables
           /\ serverSP' \in Seq([name : Nat, table : Tables]) /\ aborted' \in BOOLEAN
           /\ NothingPending'
<1>1. table' \in Tables /\ durable' \in Tables /\ NothingPending'
  BY DEF EndTransaction, NothingPending
<1>2. serverSP' \in Seq([name : Nat, table : Tables])
  BY DEF EndTransaction
<1>3. aborted' \in BOOLEAN
  BY DEF EndTransaction
<1> QED
  BY <1>1, <1>2, <1>3

\* No emulated savepoint is left and no rollback is in progress: the parts about them hold.
LEMMA ClearedInv ==
    ASSUME TypeOK', undo'.phase = "none", Looping' => loop'.cur \in Cursors,
           ClearSavePoints, canSavePoint \/ Depth' = 0
    PROVE  SavePointPerLevel' /\ QueueUnderOpenLevels' /\ Control'
  BY DEF ClearSavePoints, SavePointPerLevel, ChainOf, QueueUnderOpenLevels, Control, Undoing

-----------------------------------------------------------------------------
(* Ending a level.                                                         *)

\* doCommit preserves the invariant, in a call of commit or in the loop of commitOpened.
LEMMA CommitInv ==
    ASSUME IInv, ~Undoing, NEW c \in Cursors, NEW notify \in BOOLEAN, doCommit(c, notify),
           loop' \in Loops, Looping' => loop'.cur \in Cursors
    PROVE  IInv'
<1>1. /\ undo.phase = "none" /\ UNCHANGED <<alive, undo>>
      /\ transaction_ \in Nat /\ transaction_ > 0 /\ transaction_' = transaction_ - 1
      /\ transaction_' \in Nat /\ transactionsOpened_' \in [Cursors -> Seq(Nat)]
  BY LevelType DEF doCommit, CloseLevel, Undoing, IInv, TypeOK
<1>2. /\ modeAccess_' \in [Cursors -> Modes]
      /\ bufferCopy_' \in [Cursors -> Records \cup {NoBuffer}]
      /\ editIndex' \in [Cursors -> Keys \cup {NoBuffer}]
  BY BrowseType DEF doCommit, CommitTransaction, EndFails, CommitSavePoint, Notify, IInv
<1>3. CASE CommitTransaction(c, notify) \/ EndFails
  <2>1. PICK t \in Tables : EndTransaction(t)
    BY <1>3 DEF CommitTransaction, EndFails, IInv, TypeOK
  <2>2. Outermost /\ lastActiveCursor_' \in Cursors \cup {NoCursor}
    BY <1>3 DEF CommitTransaction, EndFails, IInv, TypeOK
  <2>3. ClearSavePoints
    BY <1>3 DEF CommitTransaction, EndFails, ClearSavePoints, spVars, IInv, Control
  <2>4. TypeOK'
    <3>1. currentSavePoint_' \in SavePoints \cup {NoSavePoint}
          /\ stackSavePoints_' \in Seq(SavePoints) /\ queueSavePoints_' \in Seq(SavePoints)
      BY <2>3 DEF ClearSavePoints
    <3> QED
      BY <1>1, <1>2, <2>1, <2>2, <3>1, EndTransactionType DEF IInv, TypeOK
  <2>5. Depth' = 0
    BY <1>1, <2>2 DEF Outermost, Depth
  <2>6. SavePointPerLevel' /\ QueueUnderOpenLevels' /\ Control'
    BY <1>1, <2>3, <2>4, <2>5, ClearedInv
  <2>7. NothingPending'
    BY <2>1, EndTransactionType DEF IInv
  <2> QED
    BY <2>4, <2>6, <2>7 DEF IInv
<1>4. CASE CommitSavePoint(c, notify)
  <2>1. ~Outermost /\ UNCHANGED <<table, durable, aborted, lastActiveCursor_>>
    BY <1>4 DEF CommitSavePoint
  <2>2. NothingPending'
    BY <1>1, <2>1 DEF IInv, NothingPending, InTransaction, Outermost
  <2>3. CASE canSavePoint
    <3>1. UNCHANGED spVars
      BY <1>4, <2>3 DEF CommitSavePoint
    <3>2. serverSP' \in Seq(ServerSavePoints)
      BY <1>1, <1>4, <2>3, ServerOps DEF CommitSavePoint, IInv, TypeOK
    <3>3. TypeOK'
      BY <1>1, <1>2, <2>1, <3>1, <3>2 DEF spVars, IInv, TypeOK
    <3>4. ClearSavePoints
      BY <2>3, <3>1 DEF ClearSavePoints, spVars, IInv, Control
    <3> QED
      BY <1>1, <2>2, <2>3, <3>3, <3>4, ClearedInv DEF IInv
  <2>4. CASE ~canSavePoint /\ LastSavePoint
    <3>1. ClearSavePoints /\ serverSP' = serverSP
      BY <1>4, <2>4 DEF CommitSavePoint
    <3>2. currentSavePoint_' \in SavePoints \cup {NoSavePoint}
          /\ stackSavePoints_' \in Seq(SavePoints) /\ queueSavePoints_' \in Seq(SavePoints)
      BY <3>1 DEF ClearSavePoints
    <3>3. TypeOK'
      BY <1>1, <1>2, <2>1, <3>1, <3>2 DEF IInv, TypeOK
    <3>4. Depth' = 0
      BY <1>1, <2>4 DEF LastSavePoint, Depth
    <3> QED
      BY <1>1, <2>2, <3>1, <3>3, <3>4, ClearedInv DEF IInv
  <2>5. CASE ~canSavePoint /\ ~LastSavePoint
    <3>1. EnqueueCurrent /\ serverSP' = serverSP
      BY <1>4, <2>5 DEF CommitSavePoint
    <3>2. Depth \in Nat /\ Depth > 1 /\ Depth' = Depth - 1 /\ transaction_ > 1
          /\ Depth - 1 + BaseId = transaction_'
      BY <1>1, <2>1, <2>5 DEF Outermost, LastSavePoint, Depth, BaseId
    <3>3. ChainOf(Depth) /\ currentSavePoint_ # NoSavePoint
          /\ currentSavePoint_.id = transaction_'
      BY <1>1, <2>5, <3>2 DEF IInv, SavePointPerLevel, ChainOf
    <3> DEFINE lowered == [i \in DOMAIN queueSavePoints_ |->
                               [queueSavePoints_[i] EXCEPT !.id = transaction_ - 2]]
    <3>4. PopSavePoint /\ queueSavePoints_' = Append(lowered, currentSavePoint_)
      BY <3>1, <3>3 DEF EnqueueCurrent
    <3>5. currentSavePoint_ \in SavePoints
      BY <3>3 DEF IInv, TypeOK
    <3>6. lowered \in Seq(SavePoints) /\ \A i \in DOMAIN lowered : lowered[i].id = transaction_ - 2
      <4>1. DOMAIN lowered = 1 .. Len(queueSavePoints_) /\ Len(queueSavePoints_) \in Nat
        BY QueueType DEF IInv
      <4>2. transaction_ - 2 \in Nat
        BY <1>1, <3>2
      <4>3. \A i \in DOMAIN queueSavePoints_ :
               /\ [queueSavePoints_[i] EXCEPT !.id = transaction_ - 2] \in SavePoints
               /\ [queueSavePoints_[i] EXCEPT !.id = transaction_ - 2].id = transaction_ - 2
        BY <4>2, QueueType DEF IInv, SavePoints
      <4> HIDE DEF SavePoints
      <4>4. \A i \in DOMAIN lowered : lowered[i] \in SavePoints /\ lowered[i].id = transaction_ - 2
        BY <4>3
      <4>5. lowered \in [1 .. Len(queueSavePoints_) -> SavePoints]
        BY <4>1, <4>3
      <4> HIDE DEF lowered
      <4> QED
        BY <4>1, <4>4, <4>5
    <3> HIDE DEF lowered, SavePoints
    <3>7. queueSavePoints_' \in Seq(SavePoints)
          /\ \A i \in DOMAIN queueSavePoints_' :
                queueSavePoints_'[i] = currentSavePoint_ \/
                (i \in DOMAIN lowered /\ queueSavePoints_'[i] = lowered[i])
      BY <3>4, <3>5, <3>6
    <3>8. TypeOK'
      BY <1>1, <1>2, <2>1, <3>1, <3>4, <3>7, PopType DEF IInv, TypeOK
    <3>9. PICK d \in Nat : d = Depth /\ d > 0 /\ Depth' = d - 1
      BY <3>2
    <3>10. ChainOf(d - 1)'
      <4>1. ChainOf(d) /\ TypeOK
        BY <3>3, <3>9 DEF IInv
      <4> QED
        BY <3>4, <3>9, <4>1, PopChain
    <3>11. SavePointPerLevel'
      <4>1. ChainOf(Depth)'
        BY <3>9, <3>10 DEF ChainOf
      <4> QED
        BY <1>1, <4>1 DEF SavePointPerLevel
    <3>12. QueueUnderOpenLevels'
      <4>1. ASSUME NEW i \in DOMAIN queueSavePoints_'
            PROVE  queueSavePoints_'[i].id <= transaction_'
        <5>1. CASE queueSavePoints_'[i] = currentSavePoint_
          BY <1>1, <3>3, <5>1
        <5>2. CASE i \in DOMAIN lowered /\ queueSavePoints_'[i] = lowered[i]
          <6>1. queueSavePoints_'[i].id = transaction_ - 2
            BY <3>6, <5>2
          <6> QED
            BY <1>1, <6>1
        <5> QED
          BY <3>7, <5>1, <5>2
      <4> QED
        BY <1>1, <4>1 DEF QueueUnderOpenLevels
    <3>13. Control'
      BY <1>1, <2>5 DEF Control, Undoing
    <3> QED
      BY <2>2, <3>8, <3>11, <3>12, <3>13 DEF IInv
  <2> QED
    BY <2>3, <2>4, <2>5
<1> QED
  BY <1>3, <1>4 DEF doCommit

\* doRollback preserves the invariant, in a call of rollback or in a loop.
LEMMA RollbackInv ==
    ASSUME IInv, ~Undoing, NEW c \in Cursors, doRollback(c),
           loop' \in Loops, Looping' => loop'.cur \in Cursors
    PROVE  IInv'
<1>1. /\ undo.phase = "none" /\ UNCHANGED alive /\ undo \in Undos
      /\ transaction_ \in Nat /\ transaction_ > 0 /\ transaction_' = transaction_ - 1
      /\ transaction_' \in Nat /\ transactionsOpened_' \in [Cursors -> Seq(Nat)]
  BY LevelType DEF doRollback, CloseLevel, Undoing, IInv, TypeOK
<1>2. /\ modeAccess_' \in [Cursors -> Modes]
      /\ bufferCopy_' \in [Cursors -> Records \cup {NoBuffer}]
      /\ editIndex' \in [Cursors -> Keys \cup {NoBuffer}]
  BY BrowseType DEF doRollback, RollbackTransaction, EndFails, RollbackServer,
     RollbackEmulated, IInv
<1>3. CASE RollbackTransaction(c) \/ (EndFails /\ UNCHANGED undo)
  <2>1. PICK t \in Tables : EndTransaction(t)
    BY <1>3 DEF RollbackTransaction, EndFails, IInv, TypeOK
  <2>2. Outermost /\ lastActiveCursor_' \in Cursors \cup {NoCursor} /\ undo' = undo
    BY <1>3 DEF RollbackTransaction, EndFails, IInv, TypeOK
  <2>3. ClearSavePoints
    BY <1>3 DEF RollbackTransaction, EndFails, ClearSavePoints, spVars, IInv, Control
  <2>4. TypeOK'
    <3>1. currentSavePoint_' \in SavePoints \cup {NoSavePoint}
          /\ stackSavePoints_' \in Seq(SavePoints) /\ queueSavePoints_' \in Seq(SavePoints)
      BY <2>3 DEF ClearSavePoints
    <3> QED
      BY <1>1, <1>2, <2>1, <2>2, <3>1, EndTransactionType DEF IInv, TypeOK
  <2>5. Depth' = 0
    BY <1>1, <2>2 DEF Outermost, Depth
  <2>6. SavePointPerLevel' /\ QueueUnderOpenLevels' /\ Control'
    BY <1>1, <2>2, <2>3, <2>4, <2>5, ClearedInv
  <2>7. NothingPending'
    BY <2>1, EndTransactionType DEF IInv
  <2> QED
    BY <2>4, <2>6, <2>7 DEF IInv
<1>4. CASE RollbackServer(c)
  <2>1. /\ canSavePoint /\ ~Outermost /\ undo' = undo
        /\ UNCHANGED <<durable, lastActiveCursor_, spVars>>
    BY <1>4 DEF RollbackServer
  <2>2. serverSP' \in Seq(ServerSavePoints) /\ table' \in Tables /\ aborted' \in BOOLEAN
    BY <1>1, <1>4, ServerOps DEF RollbackServer, IInv, TypeOK
  <2>3. TypeOK'
    BY <1>1, <1>2, <2>1, <2>2 DEF spVars, IInv, TypeOK
  <2>4. ClearSavePoints
    BY <2>1 DEF ClearSavePoints, spVars, IInv, Control
  <2>5. NothingPending'
    BY <1>1, <2>1 DEF NothingPending, InTransaction, Outermost, canSavePoint, canTransaction
  <2> QED
    BY <1>1, <2>1, <2>3, <2>4, <2>5, ClearedInv DEF IInv
<1>5. CASE RollbackEmulated(c)
  <2>1. /\ ~canSavePoint /\ ~Outermost
        /\ undo' = [phase |-> "sweep", cur |-> c, left |-> Len(queueSavePoints_), opInfos |-> <<>>]
        /\ UNCHANGED <<table, durable, serverSP, aborted, lastActiveCursor_, currentSavePoint_,
                       stackSavePoints_, queueSavePoints_>>
    BY <1>5 DEF RollbackEmulated, serverVars, spVars
  <2>2. undo' \in Undos
    BY <2>1, QueueType DEF IInv, Undos
  <2>3. TypeOK'
    BY <1>1, <1>2, <2>1, <2>2 DEF IInv, TypeOK
  <2>4. Depth' + 1 = Depth
    BY <1>1, <2>1 DEF Depth, Outermost
  <2>5. SavePointPerLevel'
    BY <1>1, <2>1, <2>4 DEF IInv, SavePointPerLevel, ChainOf, BaseId
  <2>6. QueueUnderOpenLevels'
    <3>1. \A i \in DOMAIN queueSavePoints_ : queueSavePoints_[i].id <= transaction_' + 1
      BY <1>1, QueueType DEF IInv, QueueUnderOpenLevels
    <3> QED
      BY <2>1, <3>1, QueueType DEF IInv, QueueUnderOpenLevels
  <2>7. NothingPending'
    BY <1>1, <2>1 DEF IInv, NothingPending, InTransaction, Outermost
  <2>8. Control'
    BY <2>1 DEF Control, Undoing
  <2> QED
    BY <2>3, <2>5, <2>6, <2>7, <2>8 DEF IInv
<1> QED
  BY <1>3, <1>4, <1>5 DEF doRollback

\* Each step of an emulated rollback in progress preserves the invariant.
LEMMA RollbackStepsInv ==
    ASSUME IInv, RollbackNext
    PROVE  IInv'
<1>1. /\ undo \in Undos /\ undo.opInfos \in Seq(OpInfos) /\ undo.left \in Nat
      /\ undo.cur \in Cursors \cup {NoCursor}
      /\ transaction_ \in Nat
  BY DEF IInv, TypeOK, Undos
<1>2. CASE SweepQueue
  <2> HIDE DEF SavePoints
  <2>1. /\ undo.phase = "sweep" /\ undo.left > 0
        /\ UNCHANGED <<table, durable, serverSP, aborted, transaction_, currentSavePoint_,
                       stackSavePoints_, lastActiveCursor_, alive, transactionsOpened_,
                       modeAccess_, readVars, loop>>
    BY <1>2 DEF SweepQueue, serverVars, cursorVars
  <2>2. /\ queueSavePoints_ \in Seq(SavePoints) /\ Len(queueSavePoints_) \in Nat
        /\ undo.left <= Len(queueSavePoints_)
        /\ \A i \in 1 .. Len(queueSavePoints_) :
              /\ queueSavePoints_[i].id \in Nat
              /\ i > undo.left => queueSavePoints_[i].id <= transaction_
              /\ queueSavePoints_[i].id <= transaction_ + 1
    <3>1. /\ queueSavePoints_ \in Seq(SavePoints) /\ Len(queueSavePoints_) \in Nat
          /\ undo.left <= Len(queueSavePoints_)
      BY <2>1, QueueType DEF IInv, TypeOK, QueueUnderOpenLevels
    <3>2. ASSUME NEW i \in 1 .. Len(queueSavePoints_)
          PROVE  /\ queueSavePoints_[i].id \in Nat
                 /\ i > undo.left => queueSavePoints_[i].id <= transaction_
                 /\ queueSavePoints_[i].id <= transaction_ + 1
      <4>1. /\ queueSavePoints_[i].id \in Nat
            /\ queueSavePoints_[i].id <= IF i <= undo.left THEN transaction_ + 1 ELSE transaction_
        BY <2>1, QueueType DEF IInv, QueueUnderOpenLevels
      <4> QED
        BY <1>1, <3>1, <4>1
    <3> QED
      BY <3>1, <3>2
  <2> DEFINE q  == queueSavePoints_
             sp == Head(q)
  <2>3. q # <<>> /\ Len(q) > 0
    BY <1>1, <2>1, <2>2
  <2>4. /\ sp \in SavePoints /\ sp = q[1] /\ Tail(q) \in Seq(SavePoints)
        /\ Len(Tail(q)) = Len(q) - 1
        /\ \A i \in 1 .. Len(q) - 1 : Tail(q)[i] = q[i + 1]
    BY <2>2, <2>3
  <2>5. sp.opInfos \in Seq(OpInfos) /\ sp.id \in Nat
    BY <2>4 DEF SavePoints
  <2>6. undo'.phase = "sweep" /\ undo'.left = undo.left - 1 /\ undo'.cur = undo.cur
        /\ undo' \in Undos
    <3>1. undo.left - 1 \in Nat
      BY <1>1, <2>1
    <3>2. \/ undo' = [undo EXCEPT !.left = @ - 1, !.opInfos = sp.opInfos]
          \/ undo' = [undo EXCEPT !.left = @ - 1]
      BY <1>2 DEF SweepQueue
    <3> HIDE DEF sp
    <3> QED
      BY <1>1, <2>1, <2>5, <3>1, <3>2 DEF Undos
  <2>7. CASE sp.id > transaction_ \/ transaction_ = 0
    <3>1. queueSavePoints_' = Tail(q)
      BY <1>2, <2>7 DEF SweepQueue
    <3>2. TypeOK'
      BY <2>1, <2>4, <2>6, <3>1 DEF IInv, TypeOK
    <3>3. \A i \in 1 .. Len(q) - 1 : /\ queueSavePoints_'[i].id \in Nat
                                     /\ i > undo.left - 1 => queueSavePoints_'[i].id <= transaction_
                                     /\ queueSavePoints_'[i].id <= transaction_ + 1
      BY <1>1, <2>2, <2>3, <2>4, <3>1
    <3>4. QueueUnderOpenLevels'
      BY <1>1, <2>1, <2>2, <2>3, <2>4, <2>6, <3>1, <3>3 DEF QueueUnderOpenLevels
    <3> QED
      BY <2>1, <2>6, <3>2, <3>4 DEF IInv, SavePointPerLevel, ChainOf, Depth, BaseId,
         NothingPending, InTransaction, Control, Undoing, Looping
  <2>8. CASE ~(sp.id > transaction_ \/ transaction_ = 0)
    <3>1. queueSavePoints_' = Append(Tail(q), sp)
      BY <1>2, <2>8 DEF SweepQueue
    <3>2. queueSavePoints_' \in Seq(SavePoints)
      BY <2>4, <3>1
    <3>3. TypeOK'
      BY <2>1, <2>6, <3>2 DEF IInv, TypeOK
    <3>4. /\ Len(queueSavePoints_') = Len(q)
          /\ queueSavePoints_'[Len(q)] = sp
          /\ \A i \in 1 .. Len(q) - 1 : queueSavePoints_'[i] = q[i + 1]
      BY <2>2, <2>3, <2>4, <3>1
    <3>5. \A i \in 1 .. Len(q) : /\ i > undo.left - 1 => queueSavePoints_'[i].id <= transaction_
                                 /\ queueSavePoints_'[i].id <= transaction_ + 1
      <4> SUFFICES ASSUME NEW i \in 1 .. Len(q)
                   PROVE  /\ i > undo.left - 1 => queueSavePoints_'[i].id <= transaction_
                          /\ queueSavePoints_'[i].id <= transaction_ + 1
        OBVIOUS
      <4>1. sp.id <= transaction_ /\ transaction_ <= transaction_ + 1
        BY <1>1, <2>5, <2>8
      <4>2. CASE i = Len(q)
        BY <1>1, <2>5, <3>4, <4>1, <4>2
      <4>3. CASE i # Len(q)
        <5>1. i \in 1 .. Len(q) - 1 /\ i + 1 \in 1 .. Len(q)
          BY <2>2, <4>3
        <5>2. queueSavePoints_'[i] = q[i + 1]
          BY <3>4, <5>1
        <5>3. i > undo.left - 1 => i + 1 > undo.left
          BY <1>1, <2>2
        <5> QED
          BY <2>2, <5>1, <5>2, <5>3
      <4> QED
        BY <4>2, <4>3
    <3>6. QueueUnderOpenLevels'
      <4>1. DOMAIN queueSavePoints_' = 1 .. Len(q) /\ undo.left - 1 <= Len(q)
        BY <1>1, <2>1, <2>2, <3>2, <3>4
      <4>2. ASSUME NEW i \in 1 .. Len(q)
            PROVE  queueSavePoints_'[i].id <=
                       IF i <= undo.left - 1 THEN transaction_ + 1 ELSE transaction_
        BY <1>1, <2>1, <3>5
      <4> QED
        BY <2>1, <2>6, <3>4, <4>1, <4>2 DEF QueueUnderOpenLevels
    <3> QED
      BY <2>1, <2>6, <3>3, <3>6 DEF IInv, SavePointPerLevel, ChainOf, Depth, BaseId,
         NothingPending, InTransaction, Control, Undoing, Looping
  <2> QED
    BY <2>7, <2>8
<1>3. CASE UndoOp
  <2>1. /\ undo.opInfos # <<>>
        /\ Store(undoOp(table, undo.opInfos[Len(undo.opInfos)]))
        /\ undo' = [undo EXCEPT !.opInfos = SubSeq(@, 1, Len(@) - 1)]
        /\ UNCHANGED <<serverSP, aborted, transaction_, currentSavePoint_, stackSavePoints_,
                       queueSavePoints_, lastActiveCursor_, alive, transactionsOpened_,
                       modeAccess_, readVars, loop>>
    BY <1>3 DEF UndoOp, dbVars, cursorVars
  <2>2. /\ undo.opInfos[Len(undo.opInfos)] \in OpInfos
        /\ SubSeq(undo.opInfos, 1, Len(undo.opInfos) - 1) \in Seq(OpInfos)
    <3> HIDE DEF OpInfos
    <3> QED
      BY <1>1, <2>1, FrontType
  <2>3. table' \in Tables /\ durable' \in Tables
    BY <2>1, <2>2, UndoOpType DEF Store, IInv, TypeOK
  <2>4. undo' \in Undos /\ undo'.phase = undo.phase /\ undo'.left = undo.left /\ undo'.cur = undo.cur
    BY <1>1, <2>1, <2>2 DEF Undos
  <2>5. TypeOK'
    BY <2>1, <2>3, <2>4 DEF IInv, TypeOK
  <2>6. NothingPending'
    BY <2>1 DEF IInv, NothingPending, Store, InTransaction
  <2> QED
    BY <2>1, <2>4, <2>5, <2>6 DEF IInv, SavePointPerLevel, ChainOf, Depth, BaseId,
       QueueUnderOpenLevels, Control, Undoing, Looping
<1>4. CASE UndoCurrent
  <2>1. /\ undo.phase = "sweep" /\ undo.left = 0
        /\ UNCHANGED <<table, durable, serverSP, aborted, transaction_, queueSavePoints_,
                       lastActiveCursor_, alive, transactionsOpened_, modeAccess_,
                       readVars, loop>>
    BY <1>4 DEF UndoCurrent, serverVars, cursorVars
  <2>2. Depth \in Nat /\ Depth' = Depth /\ ~canSavePoint
    BY <1>1, <2>1 DEF Depth, IInv, Control, Undoing
  <2>3. PICK d \in Nat : d = Depth + 1 /\ d > 0 /\ d - 1 = Depth'
    BY <2>2
  <2>4. ChainOf(d) /\ currentSavePoint_ # NoSavePoint
    BY <2>1, <2>2, <2>3 DEF IInv, SavePointPerLevel, ChainOf
  <2>5. PopSavePoint /\ undo' = [undo EXCEPT !.phase = "current", !.opInfos = currentSavePoint_.opInfos]
    BY <1>4, <2>4 DEF UndoCurrent
  <2>6. currentSavePoint_.opInfos \in Seq(OpInfos)
    BY <2>4 DEF IInv, TypeOK, SavePoints
  <2>7. undo' \in Undos /\ undo'.phase = "current" /\ undo'.cur = undo.cur
    BY <1>1, <2>5, <2>6 DEF Undos
  <2>8. TypeOK'
    BY <2>1, <2>5, <2>7, PopType DEF IInv, TypeOK
  <2>9. ChainOf(d - 1)'
    BY <2>3, <2>4, <2>5, PopChain DEF IInv
  <2>10. SavePointPerLevel'
    <3>1. ChainOf(Depth)'
      BY <2>3, <2>9 DEF ChainOf
    <3> QED
      BY <2>7, <3>1 DEF SavePointPerLevel
  <2>11. QueueUnderOpenLevels'
    BY <2>1, <2>7, QueueType DEF IInv, QueueUnderOpenLevels
  <2> QED
    BY <2>1, <2>2, <2>7, <2>8, <2>10, <2>11 DEF IInv, NothingPending, InTransaction, Control,
       Undoing, Looping
<1>5. CASE EndRollback
  <2>1. /\ undo.phase = "current" /\ undo' = NoUndo
        /\ IF transaction_ = 0 THEN ClearSavePoints ELSE UNCHANGED spVars
        /\ Browse(undo.cur)
        /\ UNCHANGED <<table, durable, serverSP, aborted, transaction_, lastActiveCursor_,
                       alive, transactionsOpened_, loop>>
    BY <1>5 DEF EndRollback, serverVars
  <2>2. undo.cur \in Cursors /\ ~canSavePoint
    BY <2>1 DEF IInv, Control, Undoing
  <2>3. /\ modeAccess_' \in [Cursors -> Modes]
        /\ bufferCopy_' \in [Cursors -> Records \cup {NoBuffer}]
        /\ editIndex' \in [Cursors -> Keys \cup {NoBuffer}]
    BY <2>1, <2>2, BrowseType DEF IInv
  <2>4. undo' \in Undos /\ undo'.phase = "none"
    BY <2>1 DEF NoUndo, Undos
  <2>5. currentSavePoint_' \in SavePoints \cup {NoSavePoint}
        /\ stackSavePoints_' \in Seq(SavePoints) /\ queueSavePoints_' \in Seq(SavePoints)
    <3>1. CASE transaction_ = 0
      <4>1. /\ currentSavePoint_' = NoSavePoint
            /\ stackSavePoints_' = <<>> /\ queueSavePoints_' = <<>>
        BY <2>1, <3>1 DEF ClearSavePoints
      <4> QED
        BY <4>1
    <3>2. CASE transaction_ # 0
      BY <2>1, <3>2 DEF spVars, IInv, TypeOK
    <3> QED
      BY <3>1, <3>2
  <2>6. TypeOK'
    BY <2>1, <2>3, <2>4, <2>5 DEF IInv, TypeOK
  <2>7. NothingPending' /\ (Looping' => loop'.cur \in Cursors)
    BY <2>1 DEF IInv, NothingPending, InTransaction, Control, Looping
  <2>8. CASE transaction_ = 0
    <3>1. ClearSavePoints /\ Depth' = 0
      BY <2>1, <2>8 DEF Depth
    <3> QED
      BY <2>4, <2>6, <2>7, <3>1, ClearedInv DEF IInv
  <2>9. CASE transaction_ # 0
    BY <2>1, <2>2, <2>4, <2>6, <2>7, <2>9 DEF spVars, IInv, SavePointPerLevel, ChainOf, Depth,
       BaseId, QueueUnderOpenLevels, Control, Undoing
  <2> QED
    BY <2>8, <2>9
<1> QED
  BY <1>2, <1>3, <1>4, <1>5 DEF RollbackNext

-----------------------------------------------------------------------------
(* Loops, cursors, connections.                                            *)

\* Starting a loop for a cursor changes nothing else.
LEMMA StartLoopInv ==
    ASSUME IInv, NEW op \in {"rollback", "commit"}, NEW c \in Cursors, NEW n \in Nat,
           NEW then \in {"return", "destroy", "finish"}, StartLoop(op, c, n, then)
    PROVE  IInv'
<1>1. /\ loop' \in Loops /\ loop'.cur \in Cursors
      /\ UNCHANGED <<serverVars, dbVars, cursorVars, undo>>
  BY DEF StartLoop, Loops
<1> QED
  BY <1>1 DEF serverVars, dbVars, cursorVars, IInv, TypeOK, SavePointPerLevel, ChainOf, Depth,
     BaseId, QueueUnderOpenLevels, NothingPending, InTransaction, Control, Undoing, Looping

\* The destruction of a cursor preserves the invariant.
LEMMA DieInv ==
    ASSUME IInv, NEW c \in Cursors, Die(c), loop' \in Loops, Looping' => loop'.cur \in Cursors
    PROVE  IInv'
<1>1. UNCHANGED <<serverVars, transaction_, spVars, undo>>
  BY DEF Die
<1>2. /\ modeAccess_' \in [Cursors -> Modes]
      /\ bufferCopy_' \in [Cursors -> Records \cup {NoBuffer}]
      /\ editIndex' \in [Cursors -> Keys \cup {NoBuffer}]
  BY AccessType DEF Die, Unread, Modes, IInv, TypeOK
<1>3. /\ alive' \in SUBSET Cursors
      /\ transactionsOpened_' \in [Cursors -> Seq(Nat)]
      /\ lastActiveCursor_' \in Cursors \cup {NoCursor}
  BY DEF Die, IInv, TypeOK
<1>4. TypeOK'
  BY <1>1, <1>2, <1>3 DEF serverVars, spVars, IInv, TypeOK
<1> QED
  BY <1>1, <1>4 DEF serverVars, spVars, IInv, SavePointPerLevel, ChainOf, Depth,
     BaseId, QueueUnderOpenLevels, NothingPending, InTransaction, Control, Undoing, Looping

\* The end of finishInternal, with initInternal, preserves the invariant.
LEMMA FinishInv ==
    ASSUME IInv, ~Undoing, Finish, loop' \in Loops, Looping' => loop'.cur \in Cursors
    PROVE  IInv'
<1>1. /\ transaction_' = 0 /\ ClearSavePoints /\ lastActiveCursor_' = NoCursor
      /\ UNCHANGED <<cursorVars, undo>>
      /\ transaction_ \in Nat
  BY DEF Finish, IInv, TypeOK
<1>2. /\ table' \in Tables /\ durable' \in Tables
      /\ serverSP' \in Seq([name : Nat, table : Tables]) /\ aborted' \in BOOLEAN
      /\ NothingPending'
  <2>1. CASE transaction_ > 0 /\ canTransaction
    BY <2>1, EndTransactionType DEF Finish, IInv, TypeOK
  <2>2. CASE ~(transaction_ > 0 /\ canTransaction)
    BY <2>2 DEF Finish, serverVars, IInv, TypeOK, NothingPending, InTransaction
  <2> QED
    BY <2>1, <2>2
<1>3. currentSavePoint_' \in SavePoints \cup {NoSavePoint}
      /\ stackSavePoints_' \in Seq(SavePoints) /\ queueSavePoints_' \in Seq(SavePoints)
  BY <1>1 DEF ClearSavePoints
<1>4. TypeOK'
  BY <1>1, <1>2, <1>3 DEF cursorVars, IInv, TypeOK
<1>5. Depth' = 0 /\ undo'.phase = "none"
  BY <1>1 DEF Depth, Undoing
<1> QED
  BY <1>1, <1>2, <1>4, <1>5, ClearedInv DEF IInv

\* The process dies and restarts: the invariant holds in the new process.
LEMMA CrashInv ==
    ASSUME IInv, crash
    PROVE  IInv'
<1>1. /\ transaction_' = 0 /\ ClearSavePoints /\ lastActiveCursor_' = NoCursor
      /\ alive' = {} /\ undo' = NoUndo /\ loop' = NoLoop
      /\ transactionsOpened_' = [c \in Cursors |-> <<>>]
      /\ modeAccess_' = [c \in Cursors |-> "BROWSE"]
      /\ bufferCopy_' = [c \in Cursors |-> NoBuffer]
      /\ editIndex' = [c \in Cursors |-> NoBuffer]
  BY DEF crash
<1>2. /\ table' \in Tables /\ durable' \in Tables
      /\ serverSP' \in Seq([name : Nat, table : Tables]) /\ aborted' \in BOOLEAN
      /\ NothingPending'
  BY EndTransactionType DEF crash, IInv, TypeOK
<1>3. currentSavePoint_' \in SavePoints \cup {NoSavePoint}
      /\ stackSavePoints_' \in Seq(SavePoints) /\ queueSavePoints_' \in Seq(SavePoints)
  BY <1>1 DEF ClearSavePoints
<1>4. undo' \in Undos /\ undo'.phase = "none" /\ loop' \in Loops /\ ~Looping'
  BY <1>1 DEF NoUndo, NoLoop, Undos, Loops, Looping
<1>5. /\ modeAccess_' \in [Cursors -> Modes]
      /\ bufferCopy_' \in [Cursors -> Records \cup {NoBuffer}]
      /\ editIndex' \in [Cursors -> Keys \cup {NoBuffer}]
      /\ transactionsOpened_' \in [Cursors -> Seq(Nat)]
  BY <1>1 DEF Modes
<1>6. TypeOK'
  BY <1>1, <1>2, <1>3, <1>4, <1>5 DEF TypeOK
<1>7. Depth' = 0
  BY <1>1 DEF Depth
<1> QED
  BY <1>1, <1>2, <1>4, <1>6, <1>7, ClearedInv DEF IInv

\* The calls on a cursor preserve the invariant.
LEMMA CursorInv ==
    ASSUME IInv, NEW c \in Cursors, CursorNext(c)
    PROVE  IInv'
<1>1. AllOpened(c) \in Nat /\ loop \in Loops /\ (Looping => loop.cur \in Cursors)
  BY DEF AllOpened, IInv, TypeOK, Control
<1>2. CASE create(c)
  BY <1>2 DEF create, serverVars, dbVars, IInv, TypeOK, SavePointPerLevel, ChainOf, Depth,
     BaseId, QueueUnderOpenLevels, NothingPending, InTransaction, Control, Undoing, Looping
<1>3. CASE destroy(c)
  <2>1. CASE transactionsOpened_[c] = <<>>
    BY <1>1, <1>3, <2>1, DieInv DEF destroy, Looping
  <2>2. CASE transactionsOpened_[c] # <<>>
    BY <1>1, <1>3, <2>2, StartLoopInv DEF destroy
  <2> QED
    BY <2>1, <2>2
<1>4. CASE \/ \E m \in Modes : setModeAccess(c, m) \/ \E k \in Keys : refreshBuffer(c, m, k)
           \/ refreshNew(c)
  BY <1>4, ReadType DEF Reading, serverVars, dbVars, IInv, TypeOK, SavePointPerLevel, ChainOf,
     Depth, BaseId, QueueUnderOpenLevels, NothingPending, InTransaction, Control, Undoing, Looping
<1>5. CASE commitBuffer(c)
  BY <1>5, DeliverInv
<1>6. CASE doTransaction(c)
  BY <1>6, TransactionInv
<1>7. ASSUME NEW notify \in BOOLEAN, commit(c, notify)
      PROVE  IInv'
  BY <1>1, <1>7, CommitInv DEF commit, Idle, Looping
<1>8. CASE rollback(c)
  BY <1>1, <1>8, RollbackInv DEF rollback, Idle, Looping
<1>9. ASSUME NEW n \in {1, AllOpened(c)}, rollbackOpened(c, n) \/ commitOpened(c, n)
      PROVE  IInv'
  BY <1>1, <1>9, StartLoopInv DEF rollbackOpened, commitOpened
<1> QED
  BY <1>2, <1>3, <1>4, <1>5, <1>6, <1>7, <1>8, <1>9 DEF CursorNext

\* The turns and the ends of the loops preserve the invariant.
LEMMA LoopInv ==
    ASSUME IInv, LoopNext
    PROVE  IInv'
<1>1. /\ loop \in Loops /\ Looping /\ loop.cur \in Cursors /\ ~Undoing
  BY DEF IInv, TypeOK, Control, LoopNext, LoopRollback, LoopCommit, LoopIdle, LoopReturn,
     LoopDestroy, LoopFinish, LoopTurn, LoopEnds, Looping
<1>2. ASSUME NEW op, LoopTurn(op)
      PROVE  loop' \in Loops /\ loop'.cur \in Cursors
  BY <1>1, <1>2 DEF LoopTurn, Turn, Loops
<1>3. ASSUME NEW then, LoopEnds(then)
      PROVE  loop' \in Loops /\ ~Looping'
  BY <1>3 DEF LoopEnds, NoLoop, Loops, Looping
<1>4. CASE LoopRollback
  BY <1>1, <1>2, <1>4, RollbackInv DEF LoopRollback
<1>5. CASE LoopCommit
  BY <1>1, <1>2, <1>5, CommitInv DEF LoopCommit
<1>6. CASE LoopIdle \/ LoopReturn
  <2>1. loop' \in Loops /\ (Looping' => loop'.cur \in Cursors)
    BY <1>2, <1>3, <1>6 DEF LoopIdle, LoopReturn
  <2>2. UNCHANGED <<serverVars, dbVars, cursorVars, undo>>
    BY <1>6 DEF LoopIdle, LoopReturn
  <2> QED
    BY <2>1, <2>2 DEF serverVars, dbVars, cursorVars, IInv, TypeOK, SavePointPerLevel, ChainOf,
       Depth, BaseId, QueueUnderOpenLevels, NothingPending, InTransaction, Control, Undoing,
       Looping
<1>7. CASE LoopDestroy
  BY <1>1, <1>3, <1>7, DieInv DEF LoopDestroy
<1>8. CASE LoopFinish
  BY <1>1, <1>3, <1>8, FinishInv DEF LoopFinish
<1> QED
  BY <1>4, <1>5, <1>6, <1>7, <1>8 DEF LoopNext

\* A reconnection preserves the invariant.
LEMMA ReconnectInv ==
    ASSUME IInv, reconnect
    PROVE  IInv'
<1>1. ~Undoing /\ loop \in Loops /\ ~Looping
  BY DEF reconnect, Idle, IInv, TypeOK
<1>2. CASE transaction_ > 0 /\ lastActiveCursor_ # NoCursor
  <2>1. lastActiveCursor_ \in Cursors
    BY <1>2 DEF IInv, TypeOK
  <2>2. AllOpened(lastActiveCursor_) \in Nat
    BY <2>1 DEF AllOpened, IInv, TypeOK
  <2> QED
    BY <1>2, <2>1, <2>2, StartLoopInv DEF reconnect
<1>3. CASE ~(transaction_ > 0 /\ lastActiveCursor_ # NoCursor)
  BY <1>1, <1>3, FinishInv DEF reconnect, Looping
<1> QED
  BY <1>2, <1>3

-----------------------------------------------------------------------------
(* The theorems.                                                           *)

\* The initial states satisfy the invariant.
LEMMA InitInv == Init => IInv
<1> SUFFICES ASSUME Init PROVE IInv
  OBVIOUS
<1>1. undo \in Undos /\ undo.phase = "none" /\ loop \in Loops /\ ~Looping
  BY DEF Init, NoUndo, NoLoop, Undos, Loops, Looping
<1>2. /\ serverSP \in Seq([name : Nat, table : Tables])
      /\ stackSavePoints_ \in Seq(SavePoints) /\ queueSavePoints_ \in Seq(SavePoints)
  BY DEF Init
<1>3. aborted \in BOOLEAN
  BY Zenon DEF Init
<1>4. /\ transactionsOpened_ \in [Cursors -> Seq(Nat)]
      /\ modeAccess_ \in [Cursors -> Modes]
      /\ bufferCopy_ \in [Cursors -> Records \cup {NoBuffer}]
      /\ editIndex \in [Cursors -> Keys \cup {NoBuffer}]
  BY DEF Init, Modes
<1>5. TypeOK
  BY <1>1, <1>2, <1>3, <1>4 DEF Init, TypeOK
<1> QED
  BY <1>1, <1>5 DEF Init, IInv, SavePointPerLevel, ChainOf, Depth, QueueUnderOpenLevels,
     NothingPending, Control, Undoing

\* Every step of the program preserves the invariant.
LEMMA NextInv == IInv /\ [Next]_vars => IInv'
<1> SUFFICES ASSUME IInv, [Next]_vars PROVE IInv'
  OBVIOUS
<1>1. CASE UNCHANGED vars
  BY <1>1 DEF vars, serverVars, dbVars, cursorVars, IInv, TypeOK, SavePointPerLevel, ChainOf,
     Depth, BaseId, QueueUnderOpenLevels, NothingPending, InTransaction, Control, Undoing, Looping
<1>2. CASE Next
  BY <1>2, CursorInv, RollbackStepsInv, LoopInv, ReconnectInv, CrashInv DEF Next
<1> QED
  BY <1>1, <1>2

\* The inductive invariant holds in every state of every behaviour.
THEOREM Invariance == Spec => []IInv
  BY InitInv, NextInv, PTL DEF Spec

(***************************************************************************)
(* Type correctness of the data base object, its cursors and the calls in  *)
(* progress, for every back end, table, set of cursors and bound.          *)
(***************************************************************************)
THEOREM TypeCorrect == Spec => []TypeOK
<1>1. IInv => TypeOK
  BY DEF IInv
<1> QED
  BY <1>1, Invariance, PTL

(***************************************************************************)
(* Emulated savepoints: one for each nested level, in order, whatever      *)
(* sequence of doTransaction, doCommit, doRollback, reconnections and      *)
(* destructions led here.                                                  *)
(***************************************************************************)
THEOREM SavePointsMatchLevels == Spec => []SavePointPerLevel
<1>1. IInv => SavePointPerLevel
  BY DEF IInv
<1> QED
  BY <1>1, Invariance, PTL

(***************************************************************************)
(* The queue of committed savepoints: every id in it is a level still      *)
(* open, also while doRollback sweeps the queue.                           *)
(***************************************************************************)
THEOREM QueueInOpenLevels == Spec => []QueueUnderOpenLevels
<1>1. IInv => QueueUnderOpenLevels
  BY DEF IInv
<1> QED
  BY <1>1, Invariance, PTL

(***************************************************************************)
(* No uncommitted work outside a transaction of the engine, after any way  *)
(* of ending one, failures and crashes included.                           *)
(***************************************************************************)
THEOREM NoPendingWork == Spec => []NothingPending
<1>1. IInv => NothingPending
  BY DEF IInv
<1> QED
  BY <1>1, Invariance, PTL

-----------------------------------------------------------------------------
(***************************************************************************)
(* The nesting of FLSqlDatabase over the savepoints of an engine           *)
(* (PostgreSQL, MySQL with InnoDB) implements NestedTransactions, for      *)
(* every table, every number of cursors and every depth.                   *)
(***************************************************************************)
HIDE DEF ServerSavePoints

(***************************************************************************)
(* The engine does not refuse the statement of a record.  PostgreSQL would *)
(* give up its transaction then, and no savepoint would be set any more    *)
(* (see the run aborted_commit).  MySQL goes on.                           *)
(***************************************************************************)
StatementsTaken == Backend = "psql" => Events \cap {"editKey", "unchecked"} = {}

(***************************************************************************)
(* The tables the levels remember: one for each open level, the outermost  *)
(* being what is durable.                                                  *)
(***************************************************************************)
EntryPerLevel ==
    /\ entry \in Seq(Tables) /\ Len(entry) = transaction_
    /\ target = table
    /\ transaction_ > 0 => entry[1] = durable

(***************************************************************************)
(* Every nested level has its savepoint in the engine, with the table the  *)
(* level began with, whatever older savepoints of the same name are left.  *)
(* Those of the levels around it are older: ROLLBACK TO or RELEASE of the  *)
(* one keeps the others.                                                   *)
(***************************************************************************)
SavePointOfLevel ==
    \A n \in 1 .. transaction_ - 1 :
        /\ HasSavePoint(serverSP, n)
        /\ Snapshot(serverSP, n) = entry[n + 1]
        /\ \A m \in 1 .. n - 1 : Newest(serverSP, m) < Newest(serverSP, n)

HInv == IInv /\ EntryPerLevel /\ SavePointOfLevel /\ ~aborted

-----------------------------------------------------------------------------
(* What SAVEPOINT, RELEASE and ROLLBACK TO do to the other savepoints.     *)

\* Newest is the last position with the name.
LEMMA NewestIs ==
    ASSUME NEW sps \in Seq(ServerSavePoints), NEW n
    PROVE  /\ HasSavePoint(sps, n) =>
                /\ Newest(sps, n) \in 1 .. Len(sps)
                /\ sps[Newest(sps, n)].name = n
                /\ \A j \in 1 .. Len(sps) : j > Newest(sps, n) => sps[j].name # n
           /\ \A i \in 1 .. Len(sps) :
                sps[i].name = n /\ (\A j \in 1 .. Len(sps) : j > i => sps[j].name # n)
                  => HasSavePoint(sps, n) /\ Newest(sps, n) = i
<1>1. DOMAIN sps = 1 .. Len(sps) /\ Len(sps) \in Nat
  OBVIOUS
<1>2. ASSUME HasSavePoint(sps, n)
      PROVE  /\ Newest(sps, n) \in 1 .. Len(sps)
             /\ sps[Newest(sps, n)].name = n
             /\ \A j \in 1 .. Len(sps) : j > Newest(sps, n) => sps[j].name # n
  <2> DEFINE S == {i \in 1 .. Len(sps) : sps[i].name = n}
  <2>1. S # {} /\ S \in SUBSET (1 .. Len(sps))
    BY <1>1, <1>2 DEF HasSavePoint
  <2>2. PICK i \in S : \A j \in S : j <= i
    <3> HIDE DEF S
    <3> QED
      BY <1>1, <2>1, LastPosition
  <2>3. /\ i \in DOMAIN sps /\ sps[i].name = n
        /\ \A j \in DOMAIN sps : j > i => sps[j].name # n
    BY <1>1, <2>1, <2>2
  <2> QED
    BY <1>1, <2>3 DEF Newest
<1>3. ASSUME NEW i \in 1 .. Len(sps), sps[i].name = n,
             \A j \in 1 .. Len(sps) : j > i => sps[j].name # n
      PROVE  HasSavePoint(sps, n) /\ Newest(sps, n) = i
  <2>1. HasSavePoint(sps, n)
    BY <1>1, <1>3 DEF HasSavePoint
  <2> QED
    BY <1>1, <1>2, <1>3, <2>1
<1> QED
  BY <1>2, <1>3

(***************************************************************************)
(* Dropping the savepoints after position p keeps the older ones.          *)
(***************************************************************************)
LEMMA OlderKept ==
    ASSUME NEW sps \in Seq(ServerSavePoints), NEW p \in 0 .. Len(sps),
           NEW n, HasSavePoint(sps, n), Newest(sps, n) <= p
    PROVE  /\ HasSavePoint(SubSeq(sps, 1, p), n)
           /\ Newest(SubSeq(sps, 1, p), n) = Newest(sps, n)
           /\ Snapshot(SubSeq(sps, 1, p), n) = Snapshot(sps, n)
<1> DEFINE c == SubSeq(sps, 1, p)
           i == Newest(sps, n)
<1>1. /\ i \in 1 .. Len(sps) /\ sps[i].name = n /\ i <= p
      /\ \A j \in 1 .. Len(sps) : j > i => sps[j].name # n
  BY NewestIs
<1>2. c \in Seq(ServerSavePoints) /\ Len(c) = p /\ \A j \in 1 .. p : c[j] = sps[j]
  <2> HIDE DEF ServerSavePoints
  <2>1. Len(sps) \in Nat /\ p \in Nat /\ p <= Len(sps)
    OBVIOUS
  <2>2. \A j \in 1 .. p : sps[j] \in ServerSavePoints
    BY <2>1
  <2>3. Len(c) = IF 1 <= p THEN p - 1 + 1 ELSE 0
    BY <2>1, <2>2, SubSeqProperties
  <2>4. c \in Seq(ServerSavePoints) /\ \A j \in 1 .. p - 1 + 1 : c[j] = sps[1 + j - 1]
    BY <2>1, <2>2, SubSeqProperties
  <2> HIDE DEF c
  <2> QED
    BY <2>1, <2>3, <2>4
<1> HIDE DEF c
<1>3. i \in 1 .. Len(c) /\ c[i].name = n /\ \A j \in 1 .. Len(c) : j > i => c[j].name # n
  BY <1>1, <1>2
<1>4. HasSavePoint(c, n) /\ Newest(c, n) = i
  BY <1>2, <1>3, NewestIs
<1> QED
  BY <1>1, <1>2, <1>4 DEF Snapshot, c

(***************************************************************************)
(* A new savepoint is the newest, and leaves the ones with other names     *)
(* with their tables and in their order, also where it takes the place of  *)
(* an older one of its name.                                               *)
(***************************************************************************)
LEMMA NewestAdded ==
    ASSUME NEW sps \in Seq(ServerSavePoints), NEW n \in Nat, NEW t \in Tables
    PROVE  LET r == savePoint(sps, n, t)
           IN  /\ HasSavePoint(r, n) /\ Snapshot(r, n) = t
               /\ \A m \in Nat \ {n} : HasSavePoint(sps, m) =>
                     /\ HasSavePoint(r, m) /\ Snapshot(r, m) = Snapshot(sps, m)
                     /\ Newest(r, m) < Newest(r, n)
                     /\ \A k \in Nat \ {n} :
                          HasSavePoint(sps, k) /\ Newest(sps, m) < Newest(sps, k)
                            => Newest(r, m) < Newest(r, k)
<1> DEFINE new == [name |-> n, table |-> t]
           w == WithoutMySQL(sps, n)
           r == savePoint(sps, n, t)
           p == IF Backend = "mysql" /\ HasSavePoint(sps, n) THEN Newest(sps, n) ELSE Len(sps) + 1
           Pos(i) == IF i < p THEN i ELSE i - 1
<1>1. new \in ServerSavePoints /\ new.name = n /\ new.table = t /\ Len(sps) \in Nat
  BY DEF ServerSavePoints
<1>2. /\ p \in 1 .. Len(sps) + 1
      /\ \A i \in 1 .. Len(sps) : sps[i].name # n => i # p
  BY <1>1, NewestIs
<1>3. /\ w \in Seq(ServerSavePoints)
      /\ Len(w) = IF p = Len(sps) + 1 THEN Len(sps) ELSE Len(sps) - 1
      /\ \A j \in 1 .. Len(w) : w[j] = IF j < p THEN sps[j] ELSE sps[j + 1]
  <2>1. CASE Backend = "mysql" /\ HasSavePoint(sps, n)
    <3>1. p \in 1 .. Len(sps) /\ p = Newest(sps, n)
      BY <2>1, NewestIs
    <3>2. w = SubSeq(sps, 1, p - 1) \o SubSeq(sps, p + 1, Len(sps))
      BY <2>1, <3>1 DEF WithoutMySQL
    <3> HIDE DEF p, w, ServerSavePoints
    <3>3. /\ SubSeq(sps, 1, p - 1) \in Seq(ServerSavePoints)
          /\ Len(SubSeq(sps, 1, p - 1)) = p - 1
          /\ \A j \in 1 .. p - 1 : SubSeq(sps, 1, p - 1)[j] = sps[j]
      <4>1. \A j \in 1 .. p - 1 : sps[j] \in ServerSavePoints
        BY <1>1, <3>1
      <4>2. p - 1 \in Int /\ (IF 1 <= p - 1 THEN p - 1 - 1 + 1 ELSE 0) = p - 1
        BY <1>1, <3>1
      <4>3. /\ SubSeq(sps, 1, p - 1) \in Seq(ServerSavePoints)
            /\ Len(SubSeq(sps, 1, p - 1)) = IF 1 <= p - 1 THEN p - 1 - 1 + 1 ELSE 0
            /\ \A j \in 1 .. p - 1 - 1 + 1 : SubSeq(sps, 1, p - 1)[j] = sps[1 + j - 1]
        BY <4>1, <4>2, SubSeqProperties
      <4> QED
        BY <3>1, <4>2, <4>3
    <3>4. /\ SubSeq(sps, p + 1, Len(sps)) \in Seq(ServerSavePoints)
          /\ Len(SubSeq(sps, p + 1, Len(sps))) = Len(sps) - p
          /\ \A j \in 1 .. Len(sps) - p : SubSeq(sps, p + 1, Len(sps))[j] = sps[p + j]
      <4>1. \A j \in p + 1 .. Len(sps) : sps[j] \in ServerSavePoints
        BY <1>1, <3>1
      <4>2. /\ p + 1 \in Int /\ Len(sps) \in Int
            /\ (IF p + 1 <= Len(sps) THEN Len(sps) - (p + 1) + 1 ELSE 0) = Len(sps) - p
        BY <1>1, <3>1
      <4>3. /\ SubSeq(sps, p + 1, Len(sps)) \in Seq(ServerSavePoints)
            /\ Len(SubSeq(sps, p + 1, Len(sps))) =
                 IF p + 1 <= Len(sps) THEN Len(sps) - (p + 1) + 1 ELSE 0
            /\ \A j \in 1 .. Len(sps) - (p + 1) + 1 :
                 SubSeq(sps, p + 1, Len(sps))[j] = sps[p + 1 + j - 1]
        BY <4>1, <4>2, SubSeqProperties
      <4>4. \A j \in 1 .. Len(sps) - p : p + 1 + j - 1 = p + j /\ j \in 1 .. Len(sps) - (p + 1) + 1
        BY <1>1, <3>1
      <4> QED
        BY <4>2, <4>3, <4>4
    <3> DEFINE a == SubSeq(sps, 1, p - 1)
               b == SubSeq(sps, p + 1, Len(sps))
    <3>5. /\ w = a \o b /\ a \in Seq(ServerSavePoints) /\ b \in Seq(ServerSavePoints)
          /\ Len(a) = p - 1 /\ Len(b) = Len(sps) - p
          /\ \A j \in 1 .. p - 1 : a[j] = sps[j]
          /\ \A j \in 1 .. Len(sps) - p : b[j] = sps[p + j]
      BY <3>2, <3>3, <3>4
    <3> HIDE DEF a, b
    <3>6. /\ w \in Seq(ServerSavePoints) /\ Len(w) = Len(sps) - 1
          /\ \A j \in 1 .. Len(w) : w[j] = IF j <= Len(a) THEN a[j] ELSE b[j - Len(a)]
      <4>1. /\ w \in Seq(ServerSavePoints) /\ Len(w) = Len(a) + Len(b)
            /\ \A j \in 1 .. Len(a) + Len(b) : w[j] = IF j <= Len(a) THEN a[j] ELSE b[j - Len(a)]
        BY <3>5, ConcatProperties
      <4>2. Len(a) + Len(b) = Len(sps) - 1
        BY <1>1, <3>1, <3>5
      <4> QED
        BY <4>1, <4>2
    <3>7. ASSUME NEW j \in 1 .. Len(w)
          PROVE  w[j] = IF j < p THEN sps[j] ELSE sps[j + 1]
      <4>1. CASE j < p
        BY <1>1, <3>1, <3>5, <3>6, <4>1
      <4>2. CASE ~(j < p)
        <5>1. j - Len(a) \in 1 .. Len(sps) - p /\ p + (j - Len(a)) = j + 1
          BY <1>1, <3>1, <3>5, <3>6, <4>2
        <5>2. ~(j <= Len(a))
          BY <1>1, <3>1, <3>5, <4>2
        <5>3. w[j] = b[j - Len(a)]
          BY <3>6, <5>2
        <5>4. b[j - Len(a)] = sps[j + 1]
          BY <3>5, <5>1
        <5> QED
          BY <4>2, <5>3, <5>4
      <4> QED
        BY <4>1, <4>2
    <3>8. Len(w) = IF p = Len(sps) + 1 THEN Len(sps) ELSE Len(sps) - 1
      BY <1>1, <3>1, <3>6
    <3> QED
      BY <3>6, <3>7, <3>8
  <2>2. CASE ~(Backend = "mysql" /\ HasSavePoint(sps, n))
    BY <1>1, <2>2 DEF WithoutMySQL
  <2> QED
    BY <2>1, <2>2
<1> HIDE DEF p, w, new
<1>4. /\ r \in Seq(ServerSavePoints) /\ Len(r) = Len(w) + 1 /\ r[Len(w) + 1] = new
      /\ \A j \in 1 .. Len(w) : r[j] = w[j]
  BY <1>1, <1>3 DEF savePoint, w, new
<1> HIDE DEF r
<1>5. HasSavePoint(r, n) /\ Newest(r, n) = Len(r)
  <2>1. Len(r) \in 1 .. Len(r) /\ r[Len(r)].name = n
    BY <1>1, <1>3, <1>4
  <2> QED
    BY <1>4, <2>1, NewestIs
<1>6. ASSUME NEW m \in Nat \ {n}, HasSavePoint(sps, m)
      PROVE  /\ Newest(sps, m) \in 1 .. Len(sps) /\ Newest(sps, m) # p
             /\ HasSavePoint(r, m) /\ Newest(r, m) = Pos(Newest(sps, m))
             /\ r[Pos(Newest(sps, m))] = sps[Newest(sps, m)]
  <2> DEFINE i == Newest(sps, m)
  <2>1. /\ i \in 1 .. Len(sps) /\ sps[i].name = m /\ i # p
        /\ \A j \in 1 .. Len(sps) : j > i => sps[j].name # m
    BY <1>2, <1>6, NewestIs
  <2> HIDE DEF i
  <2>2. Pos(i) \in 1 .. Len(w) /\ r[Pos(i)] = sps[i]
    <3>1. Pos(i) \in 1 .. Len(w)
      BY <1>1, <1>2, <1>3, <2>1
    <3>2. r[Pos(i)] = w[Pos(i)]
      BY <1>4, <3>1
    <3>3. w[Pos(i)] = IF Pos(i) < p THEN sps[Pos(i)] ELSE sps[Pos(i) + 1]
      BY <1>3, <3>1
    <3>4. CASE i < p
      BY <3>1, <3>2, <3>3, <3>4
    <3>5. CASE ~(i < p)
      <4>1. Pos(i) = i - 1 /\ ~(i - 1 < p) /\ i - 1 + 1 = i
        BY <1>2, <2>1, <3>5
      <4> HIDE DEF Pos
      <4> QED
        BY <3>1, <3>2, <3>3, <4>1
    <3> QED
      BY <3>4, <3>5
  <2>3. ASSUME NEW j \in 1 .. Len(r), j > Pos(i) PROVE r[j].name # m
    <3>1. CASE j = Len(w) + 1
      BY <1>1, <1>4, <3>1
    <3>2. CASE j \in 1 .. Len(w)
      <4>1. r[j] = IF j < p THEN sps[j] ELSE sps[j + 1]
        BY <1>3, <1>4, <3>2
      <4>2. j < p => j > i /\ j \in 1 .. Len(sps)
        BY <1>1, <1>2, <1>3, <2>1, <2>3, <3>2
      <4>3. ~(j < p) => j + 1 > i /\ j + 1 \in 1 .. Len(sps)
        BY <1>1, <1>2, <1>3, <2>1, <2>3, <3>2
      <4> QED
        BY <2>1, <4>1, <4>2, <4>3
    <3> QED
      BY <1>1, <1>3, <1>4, <3>1, <3>2
  <2>4. Pos(i) \in 1 .. Len(r) /\ r[Pos(i)].name = m
    BY <1>3, <1>4, <2>1, <2>2
  <2>5. HasSavePoint(r, m) /\ Newest(r, m) = Pos(i)
    BY <1>4, <2>3, <2>4, NewestIs
  <2> QED
    BY <2>1, <2>2, <2>5 DEF i
<1>7. ASSUME NEW m \in Nat \ {n}, HasSavePoint(sps, m)
      PROVE  /\ HasSavePoint(r, m) /\ Snapshot(r, m) = Snapshot(sps, m)
             /\ Newest(r, m) < Newest(r, n)
             /\ \A k \in Nat \ {n} :
                  HasSavePoint(sps, k) /\ Newest(sps, m) < Newest(sps, k)
                    => Newest(r, m) < Newest(r, k)
  <2>1. Snapshot(r, m) = Snapshot(sps, m)
    BY <1>6, <1>7 DEF Snapshot
  <2>2. Newest(r, m) < Newest(r, n)
    BY <1>1, <1>2, <1>3, <1>4, <1>5, <1>6, <1>7
  <2>3. ASSUME NEW k \in Nat \ {n}, HasSavePoint(sps, k), Newest(sps, m) < Newest(sps, k)
        PROVE  Newest(r, m) < Newest(r, k)
    BY <1>1, <1>2, <1>6, <1>7, <2>3
  <2> QED
    BY <1>6, <1>7, <2>1, <2>2, <2>3
<1>8. Snapshot(r, n) = t
  BY <1>1, <1>3, <1>4, <1>5 DEF Snapshot
<1> QED
  BY <1>5, <1>7, <1>8 DEF r

-----------------------------------------------------------------------------
(***************************************************************************)
(* The steps of an engine with savepoints, by what they do to the levels,  *)
(* to the table and to the savepoints.                                     *)
(***************************************************************************)

\* the transaction is gone: crash, finishInternal, an engine that fails to end it
Loses == crash \/ Finish \/ (transaction_' < transaction_ /\ EndFails)

\* the records, the cursors and the loops: the levels stay
Writes ==
    /\ transaction_' = transaction_ /\ serverSP' = serverSP /\ aborted' = FALSE
    /\ table' \in Tables
    /\ durable' = IF transaction_ > 0 THEN durable ELSE table'

Opens ==
    /\ transaction_' = transaction_ + 1 /\ aborted' = FALSE
    /\ UNCHANGED <<table, durable>>
    /\ serverSP' = IF transaction_ = 0 THEN serverSP
                   ELSE savePoint(serverSP, transaction_, table)

Commits ==
    /\ transaction_ > 0 /\ transaction_' = transaction_ - 1 /\ aborted' = FALSE
    /\ table' = table
    /\ durable' = IF transaction_ = 1 THEN table ELSE durable
    /\ transaction_ > 1 => serverSP' = releaseSavePoint(serverSP, transaction_ - 1)

Restores ==
    /\ transaction_ > 0 /\ transaction_' = transaction_ - 1 /\ aborted' = FALSE
    /\ table' = entry[transaction_]
    /\ durable' = durable
    /\ transaction_ > 1 => serverSP' = rollbackSavePoint(serverSP, transaction_ - 1)

EngineAssumption == canSavePoint /\ StatementsTaken

\* Delivering a record is a write: the engine does not refuse its statement.
LEMMA DeliverWrites ==
    ASSUME HInv, EngineAssumption, NEW c \in Cursors, commitBuffer(c)
    PROVE  Writes
<1>1. /\ aborted = FALSE /\ table \in Tables /\ durable \in Tables /\ transaction_ \in Nat
      /\ canTransaction
  BY DEF HInv, IInv, TypeOK, EngineAssumption, canSavePoint, canTransaction
<1>2. PICK m \in Modes, op \in {"insert", "edit", "del"}, r \in Records \cup {NoBuffer},
           t \in Tables, veto \in BOOLEAN :
              /\ Delivering(c, m)
              /\ \/ Reject /\ Events \cap {"unchecked", "editKey"} # {}
                 \/ Accept(c, t, op, r, veto)
  BY DeliverShape DEF HInv, IInv
<1>3. CASE Accept(c, t, op, r, veto)
  <2>1. r # NoBuffer => undoOp(t, [op |-> op, buffer |-> r]) \in Tables
    BY UndoOpType DEF OpInfos
  <2>2. PICK u \in Tables : Store(u)
    BY <1>3, <2>1 DEF Accept
  <2> QED
    BY <1>1, <1>2, <1>3, <2>2 DEF Accept, Store, InTransaction, Delivering, Writes
<1>4. CASE Reject /\ Events \cap {"unchecked", "editKey"} # {}
  <2>1. Backend = "mysql"
    BY <1>4 DEF EngineAssumption, StatementsTaken, canSavePoint
  <2> QED
    BY <1>1, <1>2, <1>4, <2>1, BackendAssumption DEF Reject, Delivering, Writes, HInv, IInv,
       NothingPending, InTransaction
<1> QED
  BY <1>2, <1>3, <1>4

\* doTransaction opens a level; the engine's transaction is level 1.
LEMMA TransactionOpens ==
    ASSUME HInv, EngineAssumption, NEW c \in Cursors, doTransaction(c)
    PROVE  Opens
<1>1. aborted = FALSE /\ transaction_ \in Nat /\ canTransaction /\ canSavePoint
  BY DEF HInv, IInv, TypeOK, EngineAssumption, canSavePoint, canTransaction
<1>2. OpenLevel(c) /\ (BeginTransaction(c) \/ BeginSavePoint)
  BY DEF doTransaction
<1>3. CASE BeginTransaction(c)
  BY <1>1, <1>2, <1>3 DEF BeginTransaction, OpenLevel, serverVars, Opens
<1>4. CASE BeginSavePoint
  BY <1>1, <1>2, <1>4 DEF BeginSavePoint, OpenLevel, Opens
<1> QED
  BY <1>2, <1>3, <1>4

\* doCommit commits a level, or the engine loses the transaction.
LEMMA CommitCommits ==
    ASSUME HInv, EngineAssumption, NEW c \in Cursors, NEW notify \in BOOLEAN, doCommit(c, notify)
    PROVE  Commits \/ Loses
<1>1. aborted = FALSE /\ transaction_ \in Nat /\ canTransaction /\ canSavePoint
  BY DEF HInv, IInv, TypeOK, EngineAssumption, canSavePoint, canTransaction
<1>2. transaction_ > 0 /\ transaction_' = transaction_ - 1
  BY DEF doCommit, CloseLevel
<1>3. CASE CommitTransaction(c, notify)
  BY <1>1, <1>2, <1>3 DEF CommitTransaction, EndTransaction, Outermost, Commits
<1>4. CASE EndFails
  BY <1>1, <1>2, <1>4 DEF Loses
<1>5. CASE CommitSavePoint(c, notify)
  BY <1>1, <1>2, <1>5 DEF CommitSavePoint, Outermost, Commits
<1> QED
  BY <1>3, <1>4, <1>5 DEF doCommit

\* doRollback rolls a level back, or the engine loses the transaction.
LEMMA RollbackRolls ==
    ASSUME NEW c \in Cursors, doRollback(c)
    PROVE  Loses \/ RollsBack(c)
  BY DEF doRollback, Loses, RollsBack, EndFails, Outermost, CloseLevel

\* A rollback restores the table its level began with.
LEMMA RollsBackRestores ==
    ASSUME HInv, EngineAssumption, NEW c \in Cursors, RollsBack(c)
    PROVE  Restores
<1>1. aborted = FALSE /\ transaction_ \in Nat /\ canTransaction /\ canSavePoint
  BY DEF HInv, IInv, TypeOK, EngineAssumption, canSavePoint, canTransaction
<1>2. transaction_ > 0 /\ transaction_' = transaction_ - 1
  BY DEF RollsBack, CloseLevel
<1>3. CASE RollbackTransaction(c)
  BY <1>1, <1>2, <1>3 DEF RollbackTransaction, EndTransaction, Outermost, Restores, HInv,
     EntryPerLevel
<1>4. CASE RollbackServer(c)
  <2>1. transaction_ > 1
    BY <1>1, <1>2, <1>4 DEF RollbackServer, Outermost
  <2>2. /\ HasSavePoint(serverSP, transaction_ - 1)
        /\ Snapshot(serverSP, transaction_ - 1) = entry[transaction_ - 1 + 1]
    BY <1>1, <2>1 DEF HInv, SavePointOfLevel
  <2>3. transaction_ - 1 + 1 = transaction_
    BY <1>1
  <2> QED
    BY <1>1, <1>2, <1>4, <2>1, <2>2, <2>3 DEF RollbackServer, Restores
<1>5. CASE RollbackEmulated(c)
  BY <1>1, <1>5 DEF RollbackEmulated
<1> QED
  BY <1>3, <1>4, <1>5 DEF RollsBack

\* What is left of a lost transaction is what was durable.
LEMMA LosesAll ==
    ASSUME HInv, EngineAssumption, Loses, transaction_' \in Nat
    PROVE  transaction_' = 0 /\ table' = durable /\ durable' = durable /\ aborted' = FALSE
<1>1. aborted = FALSE /\ transaction_ \in Nat /\ canTransaction
  BY DEF HInv, IInv, TypeOK, EngineAssumption, canSavePoint, canTransaction
<1>2. CASE crash
  BY <1>2 DEF crash, EndTransaction
<1>3. CASE Finish
  BY <1>1, <1>3 DEF Finish, EndTransaction, serverVars, HInv, IInv, NothingPending, InTransaction
<1>4. CASE transaction_' < transaction_ /\ EndFails
  BY <1>1, <1>4 DEF EndFails, Outermost, EndTransaction
<1> QED
  BY <1>2, <1>3, <1>4 DEF Loses

\* Every step is one of these.
LEMMA StepKind ==
    ASSUME HInv, EngineAssumption, [Next]_vars
    PROVE  Loses \/ Writes \/ Opens \/ Commits \/ \E c \in Cursors : RollsBack(c)
<1>1. /\ aborted = FALSE /\ table \in Tables /\ transaction_ \in Nat
      /\ canTransaction /\ canSavePoint
  BY DEF HInv, IInv, TypeOK, EngineAssumption, canSavePoint, canTransaction
<1>2. ~Undoing
  BY <1>1 DEF HInv, IInv, Control
<1>3. ASSUME UNCHANGED <<serverVars, transaction_>>
      PROVE  Writes
  BY <1>1, <1>3 DEF serverVars, Writes, HInv, IInv, NothingPending, InTransaction
<1>4. CASE UNCHANGED vars
  BY <1>3, <1>4 DEF vars, dbVars
<1>5. ASSUME NEW c \in Cursors, doRollback(c)
      PROVE  Loses \/ RollsBack(c)
  BY <1>5, RollbackRolls
<1>6. ASSUME NEW c \in Cursors, Die(c)
      PROVE  Writes
  BY <1>3, <1>6 DEF Die
<1>7. ASSUME NEW op, NEW c, NEW n, NEW then, StartLoop(op, c, n, then)
      PROVE  Writes
  BY <1>3, <1>7 DEF StartLoop, dbVars
<1>8. ASSUME NEW c \in Cursors, CursorNext(c)
      PROVE  Loses \/ Writes \/ Opens \/ Commits \/ RollsBack(c)
  <2>1. CASE create(c)
    BY <1>3, <2>1 DEF create, dbVars
  <2>2. CASE destroy(c)
    BY <1>6, <1>7, <2>2 DEF destroy
  <2>3. ASSUME Reading(c) PROVE Writes
    BY <1>3, <2>3 DEF Reading, dbVars
  <2>4. CASE \/ \E m \in Modes : setModeAccess(c, m) \/ \E k \in Keys : refreshBuffer(c, m, k)
             \/ refreshNew(c)
    BY <2>3, <2>4 DEF setModeAccess, refreshBuffer, refreshNew
  <2>5. CASE commitBuffer(c)
    BY <2>5, DeliverWrites
  <2>6. CASE doTransaction(c)
    BY <2>6, TransactionOpens
  <2>7. ASSUME NEW notify \in BOOLEAN, commit(c, notify) PROVE Commits \/ Loses
    BY <2>7, CommitCommits DEF commit
  <2>8. CASE rollback(c)
    BY <1>5, <2>8 DEF rollback
  <2>9. ASSUME NEW n \in {1, AllOpened(c)}, rollbackOpened(c, n) \/ commitOpened(c, n)
        PROVE  Writes
    BY <1>7, <2>9 DEF rollbackOpened, commitOpened
  <2> QED
    BY <1>8, <2>1, <2>2, <2>3, <2>4, <2>5, <2>6, <2>7, <2>8, <2>9 DEF CursorNext
<1>9. CASE RollbackNext
  BY <1>2, <1>9 DEF RollbackNext, SweepQueue, UndoOp, UndoCurrent, EndRollback, Undoing
<1>10. CASE LoopNext
  <2>1. loop.cur \in Cursors
    BY <1>10 DEF HInv, IInv, Control, LoopNext, LoopRollback, LoopCommit, LoopIdle, LoopReturn,
       LoopDestroy, LoopFinish, LoopTurn, LoopEnds, Looping
  <2>2. CASE LoopRollback
    BY <1>5, <2>1, <2>2 DEF LoopRollback
  <2>3. CASE LoopCommit
    BY <2>1, <2>3, CommitCommits DEF LoopCommit
  <2>4. CASE LoopIdle \/ LoopReturn
    BY <1>3, <2>4 DEF LoopIdle, LoopReturn, dbVars
  <2>5. CASE LoopDestroy
    BY <1>6, <2>1, <2>5 DEF LoopDestroy
  <2>6. CASE LoopFinish
    BY <2>6 DEF LoopFinish, Loses
  <2> QED
    BY <1>10, <2>2, <2>3, <2>4, <2>5, <2>6 DEF LoopNext
<1>11. CASE reconnect
  BY <1>7, <1>11 DEF reconnect, Loses
<1>12. CASE crash
  BY <1>12 DEF Loses
<1> QED
  BY <1>4, <1>8, <1>9, <1>10, <1>11, <1>12 DEF Next

-----------------------------------------------------------------------------
(***************************************************************************)
(* The invariant of the history, kind of step by kind of step.             *)
(***************************************************************************)

\* A level less: the remaining levels keep what they remember.
LEMMA EntryPopped ==
    ASSUME NEW e \in Seq(Tables), e # <<>>, NEW f, f = SubSeq(e, 1, Len(e) - 1)
    PROVE  /\ f \in Seq(Tables) /\ Len(f) = Len(e) - 1
           /\ \A i \in 1 .. Len(e) - 1 : f[i] = e[i]
  BY FrontType

\* Opening a level: it gets a savepoint with the table as it is, the others keep theirs.
LEMMA OpensInv ==
    ASSUME HInv, EngineAssumption, Opens, entry' = Append(entry, table), target' = table',
           IInv'
    PROVE  HInv'
<1>1. /\ transaction_ \in Nat /\ table \in Tables /\ entry \in Seq(Tables)
      /\ Len(entry) = transaction_ /\ serverSP \in Seq(ServerSavePoints)
      /\ transaction_' = transaction_ + 1
  BY DEF HInv, IInv, TypeOK, EntryPerLevel, ServerSavePoints, Opens
<1>2. /\ entry' \in Seq(Tables) /\ Len(entry') = transaction_ + 1
      /\ entry'[transaction_ + 1] = table
      /\ \A i \in 1 .. transaction_ : entry'[i] = entry[i]
  BY <1>1
<1>3. EntryPerLevel'
  <2>1. CASE transaction_ = 0
    BY <1>1, <1>2, <2>1 DEF EntryPerLevel, Opens, HInv, IInv, NothingPending, InTransaction
  <2>2. CASE transaction_ # 0
    <3>1. entry'[1] = entry[1]
      BY <1>1, <1>2, <2>2
    <3> QED
      BY <1>1, <1>2, <2>2, <3>1 DEF EntryPerLevel, Opens, HInv
  <2> QED
    BY <2>1, <2>2
<1>4. SavePointOfLevel'
  <2>1. SUFFICES ASSUME NEW n \in 1 .. transaction_
        PROVE  /\ HasSavePoint(serverSP', n) /\ Snapshot(serverSP', n) = entry'[n + 1]
               /\ \A m \in 1 .. n - 1 : Newest(serverSP', m) < Newest(serverSP', n)
    BY <1>1 DEF SavePointOfLevel
  <2>2. serverSP' = savePoint(serverSP, transaction_, table)
    BY <1>1, <2>1 DEF Opens
  <2>3. /\ HasSavePoint(serverSP', transaction_) /\ Snapshot(serverSP', transaction_) = table
        /\ \A m \in Nat \ {transaction_} : HasSavePoint(serverSP, m) =>
              /\ HasSavePoint(serverSP', m) /\ Snapshot(serverSP', m) = Snapshot(serverSP, m)
              /\ Newest(serverSP', m) < Newest(serverSP', transaction_)
              /\ \A k \in Nat \ {transaction_} :
                   HasSavePoint(serverSP, k) /\ Newest(serverSP, m) < Newest(serverSP, k)
                     => Newest(serverSP', m) < Newest(serverSP', k)
    BY <1>1, <2>2, NewestAdded
  <2>4. \A m \in 1 .. transaction_ - 1 : m \in Nat \ {transaction_} /\ HasSavePoint(serverSP, m)
    BY <1>1 DEF HInv, SavePointOfLevel
  <2>5. CASE n = transaction_
    BY <1>1, <1>2, <2>3, <2>4, <2>5
  <2>6. CASE n # transaction_
    <3>1. n \in 1 .. transaction_ - 1 /\ n + 1 \in 1 .. transaction_
      BY <1>1, <2>1, <2>6
    <3>2. /\ Snapshot(serverSP, n) = entry[n + 1]
          /\ \A m \in 1 .. n - 1 : Newest(serverSP, m) < Newest(serverSP, n)
      BY <3>1 DEF HInv, SavePointOfLevel
    <3>3. \A m \in 1 .. n - 1 : m \in 1 .. transaction_ - 1
      BY <1>1, <3>1
    <3> QED
      BY <1>2, <2>3, <2>4, <3>1, <3>2, <3>3
  <2> QED
    BY <2>5, <2>6
<1> QED
  BY <1>3, <1>4 DEF HInv, Opens

\* Dropping savepoints newer than those of the levels that stay open disturbs none of these.
LEMMA LevelsKept ==
    ASSUME HInv, NEW q \in 1 .. transaction_ - 1, NEW p \in 0 .. Len(serverSP),
           \A n \in 1 .. q - 1 : Newest(serverSP, n) <= p,
           transaction_' = q, serverSP' = SubSeq(serverSP, 1, p),
           \A i \in 1 .. q : entry'[i] = entry[i]
    PROVE  SavePointOfLevel'
<1>1. transaction_ \in Nat /\ q \in Nat /\ q < transaction_ /\ serverSP \in Seq(ServerSavePoints)
  BY DEF HInv, IInv, TypeOK, ServerSavePoints
<1>2. ASSUME NEW n \in 1 .. q - 1
      PROVE  /\ HasSavePoint(serverSP', n)
             /\ Newest(serverSP', n) = Newest(serverSP, n)
             /\ Snapshot(serverSP', n) = Snapshot(serverSP, n)
  <2>1. n \in 1 .. transaction_ - 1
    BY <1>1
  <2>2. HasSavePoint(serverSP, n) /\ Newest(serverSP, n) <= p
    BY <2>1 DEF HInv, SavePointOfLevel
  <2> QED
    BY <1>1, <2>2, OlderKept
<1>3. SUFFICES ASSUME NEW n \in 1 .. q - 1
      PROVE  /\ HasSavePoint(serverSP', n) /\ Snapshot(serverSP', n) = entry'[n + 1]
             /\ \A m \in 1 .. n - 1 : Newest(serverSP', m) < Newest(serverSP', n)
  BY DEF SavePointOfLevel
<1>4. n \in 1 .. transaction_ - 1 /\ n + 1 \in 1 .. q /\ \A m \in 1 .. n - 1 : m \in 1 .. q - 1
  BY <1>1, <1>3
<1>5. /\ Snapshot(serverSP, n) = entry[n + 1]
      /\ \A m \in 1 .. n - 1 : Newest(serverSP, m) < Newest(serverSP, n)
  BY <1>4 DEF HInv, SavePointOfLevel
<1> QED
  BY <1>2, <1>3, <1>4, <1>5

\* Committing or rolling back a level: the levels that stay keep their savepoints.
LEMMA ClosesInv ==
    ASSUME HInv, EngineAssumption, Commits \/ Restores,
           entry' = SubSeq(entry, 1, transaction_'), target' = table', IInv'
    PROVE  HInv'
<1>1. /\ transaction_ \in Nat /\ transaction_ > 0 /\ transaction_' = transaction_ - 1
      /\ table \in Tables /\ entry \in Seq(Tables) /\ aborted' = FALSE
      /\ Len(entry) = transaction_ /\ serverSP \in Seq(ServerSavePoints) /\ Len(serverSP) \in Nat
  BY DEF HInv, IInv, TypeOK, EntryPerLevel, ServerSavePoints, Commits, Restores
<1>2. /\ entry' \in Seq(Tables) /\ Len(entry') = transaction_ - 1
      /\ \A i \in 1 .. transaction_ - 1 : entry'[i] = entry[i]
  BY <1>1, EntryPopped
<1>3. EntryPerLevel'
  <2>1. CASE transaction_ = 1
    BY <1>1, <1>2, <2>1 DEF EntryPerLevel
  <2>2. CASE transaction_ # 1
    <3>1. entry'[1] = entry[1] /\ durable' = durable
      BY <1>1, <1>2, <2>2 DEF Commits, Restores
    <3> QED
      BY <1>1, <1>2, <3>1 DEF EntryPerLevel, HInv
  <2> QED
    BY <2>1, <2>2
<1>4. SavePointOfLevel'
  <2>1. CASE transaction_ = 1
    BY <1>1, <2>1 DEF SavePointOfLevel
  <2>2. CASE transaction_ # 1
    <3> DEFINE q == transaction_ - 1
    <3>1. q \in 1 .. transaction_ - 1 /\ transaction_' = q
      BY <1>1, <2>2
    <3>2. /\ HasSavePoint(serverSP, q)
          /\ \A n \in 1 .. q - 1 : Newest(serverSP, n) < Newest(serverSP, q)
      BY <3>1 DEF HInv, SavePointOfLevel
    <3>3. Newest(serverSP, q) \in 1 .. Len(serverSP)
      BY <1>1, <3>2, NewestType
    <3>4. \A n \in 1 .. q - 1 : Newest(serverSP, n) \in 1 .. Len(serverSP)
      <4>1. \A n \in 1 .. q - 1 : n \in 1 .. transaction_ - 1
        BY <1>1
      <4> QED
        BY <1>1, <4>1, NewestType DEF HInv, SavePointOfLevel
    <3>5. PICK p \in 0 .. Len(serverSP) :
             /\ serverSP' = SubSeq(serverSP, 1, p)
             /\ p \in {Newest(serverSP, q), Newest(serverSP, q) - 1, Len(serverSP)}
      <4>1. CASE serverSP' = SubSeq(serverSP, 1, Newest(serverSP, q))
        BY <1>1, <3>3, <4>1
      <4>2. CASE serverSP' = SubSeq(serverSP, 1, Newest(serverSP, q) - 1)
        BY <1>1, <3>3, <4>2
      <4>3. CASE serverSP' = serverSP
        BY <1>1, <4>3, SubSeqFull
      <4> QED
        BY <1>1, <2>2, <3>2, <4>1, <4>2, <4>3 DEF Commits, Restores, releaseSavePoint,
           rollbackSavePoint
    <3>6. \A n \in 1 .. q - 1 : Newest(serverSP, n) <= p
      BY <1>1, <3>2, <3>3, <3>4, <3>5
    <3> HIDE DEF q
    <3> QED
      BY <1>2, <3>1, <3>5, <3>6, LevelsKept DEF q
  <2> QED
    BY <2>1, <2>2
<1> QED
  BY <1>1, <1>3, <1>4 DEF HInv

\* A write disturbs neither the savepoints nor what the levels remember.
LEMMA WritesInv ==
    ASSUME HInv, EngineAssumption, Writes,
           entry' = SubSeq(entry, 1, transaction_'), target' = table', IInv'
    PROVE  HInv'
<1>1. /\ transaction_ \in Nat /\ entry \in Seq(Tables) /\ Len(entry) = transaction_
      /\ transaction_' = transaction_ /\ serverSP' = serverSP /\ aborted' = FALSE
  BY DEF HInv, IInv, TypeOK, EntryPerLevel, Writes
<1>2. entry' = entry
  BY <1>1, SubSeqFull
<1> QED
  BY <1>1, <1>2 DEF HInv, EntryPerLevel, SavePointOfLevel, Writes

\* After a loss no level is open.
LEMMA LosesInv ==
    ASSUME HInv, EngineAssumption, Loses,
           entry' = SubSeq(entry, 1, transaction_'), target' = table', IInv'
    PROVE  HInv' /\ entry' = <<>>
<1>1. transaction_' = 0 /\ aborted' = FALSE
  BY LosesAll DEF IInv, TypeOK
<1>2. entry' = <<>> /\ Len(<<>>) = 0 /\ <<>> \in Seq(Tables)
  BY <1>1 DEF HInv, EntryPerLevel
<1> QED
  BY <1>1, <1>2 DEF HInv, EntryPerLevel, SavePointOfLevel

\* Every step, with the history it adds, preserves the invariant.
LEMMA HistoryInv ==
    ASSUME HInv, EngineAssumption, HNext
    PROVE  HInv'
<1>1. IInv' /\ Next /\ TrackLevels /\ TrackTarget
  BY NextInv DEF HNext, HInv
<1>2. undo'.phase = "none" /\ transaction_ \in Nat
  BY <1>1 DEF IInv, Control, Undoing, EngineAssumption, HInv, TypeOK, canSavePoint
<1>3. target' = table'
  BY <1>1, <1>2 DEF TrackTarget
<1>4. entry' = IF transaction_' > transaction_ THEN Append(entry, table)
               ELSE SubSeq(entry, 1, transaction_')
  BY <1>1 DEF TrackLevels
<1>5. CASE Loses
  <2>1. ~(transaction_' > transaction_)
    BY <1>1, <1>2, <1>5, LosesAll DEF IInv, TypeOK
  <2> QED
    BY <1>1, <1>3, <1>4, <1>5, <2>1, LosesInv
<1>6. CASE Writes
  <2>1. ~(transaction_' > transaction_)
    BY <1>2, <1>6 DEF Writes
  <2> QED
    BY <1>1, <1>3, <1>4, <1>6, <2>1, WritesInv
<1>7. CASE Opens
  <2>1. transaction_' > transaction_
    BY <1>2, <1>7 DEF Opens
  <2> QED
    BY <1>1, <1>3, <1>4, <1>7, <2>1, OpensInv
<1>8. CASE Commits \/ Restores
  <2>1. ~(transaction_' > transaction_)
    BY <1>2, <1>8 DEF Commits, Restores
  <2> QED
    BY <1>1, <1>3, <1>4, <1>8, <2>1, ClosesInv
<1> QED
  BY <1>1, <1>5, <1>6, <1>7, <1>8, StepKind, RollsBackRestores

-----------------------------------------------------------------------------
(***************************************************************************)
(* The refinement: each operation the history names is that operation of   *)
(* NestedTransactions.                                                     *)
(***************************************************************************)
LEMMA InitRefined == HInit => NT!Init
  BY DEF HInit, Init, NT!Init

\* Every step of FLSqlDatabase is a step of NestedTransactions.
LEMMA NextRefined ==
    ASSUME HInv, HInv', EngineAssumption, HNext
    PROVE  NT!Next
<1>1. Next /\ TrackLevels /\ TrackOperation
  BY DEF HNext
<1>2. /\ transaction_ \in Nat /\ entry \in Seq(Tables) /\ Len(entry) = transaction_
      /\ target = table /\ target' = table'
  BY DEF HInv, IInv, TypeOK, EntryPerLevel
<1>3. Loses \/ Writes \/ Opens \/ Commits \/ \E c \in Cursors : RollsBack(c)
  BY <1>1, StepKind
<1>4. entry = <<>> <=> transaction_ = 0
  BY <1>2
<1>5. CASE Loses
  <2>1. last' = "lose"
    BY <1>1, <1>5 DEF TrackOperation, Loses
  <2>2. transaction_' = 0 /\ table' = durable /\ durable' = durable
    BY <1>5, LosesAll DEF HInv, IInv, TypeOK
  <2>3. entry' = <<>>
    BY <2>2 DEF HInv, EntryPerLevel
  <2> QED
    BY <1>2, <2>1, <2>2, <2>3 DEF NT!Next, NT!Lose
<1>6. CASE Opens /\ ~Loses
  <2>1. transaction_' > transaction_
    BY <1>2, <1>6 DEF Opens
  <2>2. last' = "begin" /\ entry' = Append(entry, table)
    BY <1>1, <1>6, <2>1 DEF TrackOperation, TrackLevels, Loses
  <2> QED
    BY <1>2, <1>6, <2>2 DEF Opens, NT!Next, NT!Begin
<1>7. ASSUME transaction_' <= transaction_
      PROVE  entry' = SubSeq(entry, 1, transaction_')
  <2>1. transaction_' \in Nat
    BY DEF HInv, IInv, TypeOK
  <2>2. ~(transaction_' > transaction_)
    BY <1>2, <1>7, <2>1
  <2> QED
    BY <1>1, <2>2 DEF TrackLevels
<1>8. CASE Writes /\ ~Loses
  <2>1. transaction_' = transaction_ /\ ~Undoing
    BY <1>8 DEF Writes, HInv, IInv, Control, EngineAssumption
  <2>2. last' = "write"
    BY <1>1, <1>2, <1>8, <2>1 DEF TrackOperation, Loses
  <2>3. entry' = entry
    BY <1>2, <1>7, <2>1, SubSeqFull
  <2> QED
    BY <1>2, <1>4, <1>8, <2>2, <2>3 DEF Writes, NT!Next, NT!Write
<1>9. CASE (Commits \/ \E c \in Cursors : RollsBack(c)) /\ ~Loses
  <2>1. transaction_ > 0 /\ transaction_' = transaction_ - 1 /\ ~Undoing
    BY <1>9 DEF Commits, RollsBack, CloseLevel, HInv, IInv, Control, EngineAssumption
  <2>2. last' = IF \E c \in Cursors : RollsBack(c) THEN "rollback" ELSE "commit"
    BY <1>1, <1>2, <1>9, <2>1 DEF TrackOperation, Loses
  <2>3. entry' = SubSeq(entry, 1, Len(entry) - 1) /\ entry # <<>>
    BY <1>2, <1>4, <1>7, <2>1
  <2>4. CASE \E c \in Cursors : RollsBack(c)
    <3>1. Restores
      BY <2>4, RollsBackRestores
    <3> QED
      BY <1>2, <2>2, <2>3, <2>4, <3>1 DEF Restores, NT!Next, NT!Rollback, NT!Pop
  <2>5. CASE ~(\E c \in Cursors : RollsBack(c))
    BY <1>2, <1>9, <2>2, <2>3, <2>5 DEF Commits, NT!Next, NT!Commit, NT!Pop
  <2> QED
    BY <2>4, <2>5
<1> QED
  BY <1>3, <1>5, <1>6, <1>8, <1>9

-----------------------------------------------------------------------------
(* The theorems.                                                           *)

\* The histories satisfy the invariant.
LEMMA HistoryInvariance ==
    ASSUME EngineAssumption
    PROVE  HSpec => []HInv
<1>1. HInit => HInv
  <2> SUFFICES ASSUME HInit PROVE HInv
    OBVIOUS
  <2>1. IInv /\ transaction_ = 0 /\ ~aborted /\ entry = <<>> /\ target = table
    BY InitInv DEF HInit, Init
  <2>2. <<>> \in Seq(Tables) /\ Len(<<>>) = 0
    OBVIOUS
  <2> QED
    BY <2>1, <2>2 DEF HInv, EntryPerLevel, SavePointOfLevel
<1>2. HInv /\ [HNext]_hvars => HInv'
  <2> SUFFICES ASSUME HInv, [HNext]_hvars PROVE HInv'
    OBVIOUS
  <2>1. CASE HNext
    BY <2>1, HistoryInv
  <2>2. CASE UNCHANGED hvars
    <3>1. IInv'
      BY <2>2, NextInv DEF HInv, hvars
    <3> QED
      BY <2>2, <3>1 DEF hvars, vars, serverVars, dbVars, HInv, EntryPerLevel, SavePointOfLevel
  <2> QED
    BY <2>1, <2>2
<1> QED
  BY <1>1, <1>2, PTL DEF HSpec

(***************************************************************************)
(* Over the savepoints of an engine doTransaction, doCommit and doRollback *)
(* implement nested transactions, to any depth, for any number of cursors  *)
(* and any table, with refused rollbacks, engines that fail to end their   *)
(* transaction, reconnections, destructions of cursors and crashes.        *)
(***************************************************************************)
THEOREM NestingImplemented ==
    ASSUME EngineAssumption
    PROVE  HSpec => Nested
<1>1. HInit => NT!Init
  BY InitRefined
<1>2. HInv /\ HInv' /\ [HNext]_hvars => [NT!Next]_NT!vars
  <2> SUFFICES ASSUME HInv, HInv', [HNext]_hvars PROVE [NT!Next]_NT!vars
    OBVIOUS
  <2>1. CASE HNext
    BY <2>1, NextRefined
  <2>2. CASE UNCHANGED hvars
    BY <2>2 DEF hvars, vars, serverVars, NT!vars
  <2> QED
    BY <2>1, <2>2
<1> QED
  BY <1>1, <1>2, HistoryInvariance, PTL DEF HSpec, Nested, NT!Spec

(***************************************************************************)
(* There, a rollback leaves the table as it was when the level it ends     *)
(* began.                                                                  *)
(***************************************************************************)
THEOREM RollbackIsExact ==
    ASSUME EngineAssumption
    PROVE  HSpec => RollbackRestores
<1>1. HInv /\ [HNext]_hvars => [RollbackStep]_hvars
  <2> SUFFICES ASSUME HInv PROVE RollbackStep
    OBVIOUS
  <2>1. table = target
    BY DEF HInv, EntryPerLevel
  <2>2. ASSUME NEW c \in Cursors, CloseLevel(c), RollbackServer(c)
        PROVE  table' = entry[transaction_]
    BY <2>2, RollsBackRestores DEF RollsBack, Restores
  <2> QED
    BY <2>1, <2>2 DEF RollbackStep
<1> QED
  BY <1>1, HistoryInvariance, PTL DEF HSpec, RollbackRestores

-----------------------------------------------------------------------------
(***************************************************************************)
(* Which cursor answers for which level.                                   *)
(***************************************************************************)

\* Asked whether the changes are to be cancelled, the user says yes: he who keeps them when a
\* cursor is destroyed leaves the level to nobody.
RollbacksAccepted == "refuse" \notin Events

\* A destructor rolls back as long as its cursor has levels on record, or until none is open.
Releases ==
    Looping /\ loop.then = "destroy" => transaction_ = 0 \/ AllOpened(loop.cur) <= loop.left

OwnInv == IsFiniteSet(OnRecord) /\ EveryLevelOnRecord /\ Releases

\* The levels on record, position by position.
LEMMA OnRecordIs ==
    ASSUME NEW f \in [Cursors -> Seq(Nat)]
    PROVE  \A p : p \in UNION {{c} \X DOMAIN f[c] : c \in Cursors}
                    <=> \E c \in Cursors : \E i \in 1 .. Len(f[c]) : p = <<c, i>>
<1>1. \A c \in Cursors : f[c] \in Seq(Nat) /\ DOMAIN f[c] = 1 .. Len(f[c])
  OBVIOUS
<1>2. \A p : p \in UNION {{c} \X DOMAIN f[c] : c \in Cursors}
               <=> \E c \in Cursors : p \in {c} \X DOMAIN f[c]
  BY Zenon
<1>3. \A c \in Cursors : \A p : p \in {c} \X DOMAIN f[c] <=> \E i \in DOMAIN f[c] : p = <<c, i>>
  OBVIOUS
<1> QED
  BY <1>1, <1>2, <1>3

\* A level that is opened is put on the record of the cursor that opens it.
LEMMA OpenOnRecord ==
    ASSUME TypeOK, TypeOK', NEW c \in Cursors, OpenLevel(c)
    PROVE  \E p : p \notin OnRecord /\ OnRecord' = OnRecord \cup {p}
<1> DEFINE f == transactionsOpened_
           n == Len(f[c])
<1>1. f \in [Cursors -> Seq(Nat)] /\ f' \in [Cursors -> Seq(Nat)] /\ n \in Nat
  BY DEF TypeOK
<1>2. /\ f'[c] = Append(f[c], transaction_ + 1) /\ Len(f'[c]) = n + 1
      /\ \A d \in Cursors : d # c => f'[d] = f[d]
  BY <1>1 DEF OpenLevel, TypeOK
<1>3. \A p : p \in OnRecord <=> \E d \in Cursors : \E i \in 1 .. Len(f[d]) : p = <<d, i>>
  BY <1>1, OnRecordIs DEF OnRecord
<1>4. \A p : p \in OnRecord' <=> \E d \in Cursors : \E i \in 1 .. Len(f'[d]) : p = <<d, i>>
  BY <1>1, OnRecordIs DEF OnRecord
<1> HIDE DEF n, f
<1>5. <<c, n + 1>> \notin OnRecord
  BY <1>1, <1>3 DEF n
<1>6. ASSUME NEW p PROVE p \in OnRecord' <=> p \in OnRecord \/ p = <<c, n + 1>>
  <2>1. \A i : i \in 1 .. n + 1 <=> i \in 1 .. n \/ i = n + 1
    BY <1>1
  <2> QED
    BY <1>2, <1>3, <1>4, <2>1 DEF n
<1> QED
  BY <1>5, <1>6

\* Ending a level takes one off the record of the cursor, if it has any.
LEMMA CloseOnRecord ==
    ASSUME TypeOK, TypeOK', NEW c \in Cursors, CloseLevel(c)
    PROVE  /\ OnRecord' = OnRecord \/ \E p \in OnRecord : OnRecord' = OnRecord \ {p}
           /\ AllOpened(c) \in Nat /\ AllOpened(c)' \in Nat
           /\ AllOpened(c)' = IF AllOpened(c) = 0 THEN 0 ELSE AllOpened(c) - 1
<1> DEFINE f == transactionsOpened_
           n == Len(f[c])
<1>1. f \in [Cursors -> Seq(Nat)] /\ f' \in [Cursors -> Seq(Nat)] /\ n \in Nat /\ f[c] \in Seq(Nat)
  BY DEF TypeOK
<1>2. CASE f[c] = <<>>
  <2>1. f' = f /\ n = 0
    BY <1>2 DEF CloseLevel
  <2> QED
    BY <2>1 DEF OnRecord, AllOpened
<1>3. CASE f[c] # <<>>
  <2>1. /\ f'[c] = SubSeq(f[c], 1, n - 1)
        /\ \A d \in Cursors : d # c => f'[d] = f[d]
    BY <1>1, <1>3 DEF CloseLevel
  <2>2. n >= 1 /\ n # 0 /\ n - 1 \in Nat /\ Len(f'[c]) = n - 1
    BY <1>1, <1>3, <2>1, FrontLen
  <2>3. \A p : p \in OnRecord <=> \E d \in Cursors : \E i \in 1 .. Len(f[d]) : p = <<d, i>>
    BY <1>1, OnRecordIs DEF OnRecord
  <2>4. \A p : p \in OnRecord' <=> \E d \in Cursors : \E i \in 1 .. Len(f'[d]) : p = <<d, i>>
    BY <1>1, OnRecordIs DEF OnRecord
  <2>5. AllOpened(c) = n /\ AllOpened(c)' = n - 1
    BY <2>2 DEF AllOpened
  <2> HIDE DEF n, f
  <2>6. <<c, n>> \in OnRecord
    BY <1>1, <2>2, <2>3 DEF n
  <2>7. ASSUME NEW p PROVE p \in OnRecord' <=> p \in OnRecord /\ p # <<c, n>>
    <3>1. \A i : i \in 1 .. n - 1 <=> i \in 1 .. n /\ i # n
      BY <1>1
    <3>2. \A d \in Cursors : \A i :
             i \in 1 .. Len(f'[d]) <=> i \in 1 .. Len(f[d]) /\ (d # c \/ i # n)
      BY <2>1, <2>2, <3>1 DEF n
    <3>3. \A d, i : <<d, i>> # <<c, n>> <=> d # c \/ i # n
      OBVIOUS
    <3> QED
      BY <2>3, <2>4, <3>2, <3>3
  <2>8. OnRecord' = OnRecord \ {<<c, n>>}
    BY <2>7
  <2> QED
    BY <1>1, <2>2, <2>5, <2>6, <2>8
<1> QED
  BY <1>2, <1>3

\* What each step does with the levels, the records of them and the loop that is running.
LEMMA LevelSteps ==
    ASSUME RollbacksAccepted, [Next]_vars
    PROVE  \/ UNCHANGED <<transaction_, transactionsOpened_, loop>>
           \/ /\ UNCHANGED <<transaction_, transactionsOpened_>>
              /\ Looping' /\ loop'.then = "destroy" => loop'.left = AllOpened(loop'.cur)
           \/ \E c \in Cursors : OpenLevel(c) /\ ~Looping /\ UNCHANGED loop
           \/ \E c \in Cursors : CloseLevel(c) /\ ~Looping /\ UNCHANGED loop
           \/ CloseLevel(loop.cur) /\ Looping /\ Turn
           \/ transaction_ = 0 /\ UNCHANGED <<transaction_, transactionsOpened_>>
           \/ \E c \in Cursors : /\ Die(c) /\ transactionsOpened_[c] = <<>>
                                 /\ ~Looping /\ UNCHANGED loop
           \/ Die(loop.cur) /\ Looping /\ loop.then = "destroy" /\ loop.left = 0 /\ loop' = NoLoop
           \/ transaction_' = 0 /\ UNCHANGED transactionsOpened_
           \/ transaction_' = 0 /\ transactionsOpened_' = [c \in Cursors |-> <<>>]
<1>1. CASE UNCHANGED vars
  BY <1>1 DEF vars, dbVars, cursorVars
<1>2. ASSUME NEW c \in Cursors, CursorNext(c)
      PROVE  \/ UNCHANGED <<transaction_, transactionsOpened_, loop>>
             \/ /\ UNCHANGED <<transaction_, transactionsOpened_>>
                /\ Looping' /\ loop'.then = "destroy" => loop'.left = AllOpened(loop'.cur)
             \/ OpenLevel(c) /\ ~Looping /\ UNCHANGED loop
             \/ CloseLevel(c) /\ ~Looping /\ UNCHANGED loop
             \/ Die(c) /\ transactionsOpened_[c] = <<>> /\ ~Looping /\ UNCHANGED loop
  <2>1. CASE \/ create(c) \/ refreshNew(c)
             \/ \E m \in Modes : setModeAccess(c, m) \/ \E k \in Keys : refreshBuffer(c, m, k)
    BY <2>1 DEF create, setModeAccess, refreshBuffer, refreshNew, Reading, dbVars
  <2>2. CASE commitBuffer(c)
    BY <2>2 DEF commitBuffer, commitInsert, commitEdit, commitDel, Delivering
  <2>3. CASE destroy(c)
    <3>1. CASE transactionsOpened_[c] = <<>>
      BY <2>3, <3>1 DEF destroy, Idle
    <3>2. CASE transactionsOpened_[c] # <<>>
      BY <2>3, <3>2 DEF destroy, StartLoop, dbVars, cursorVars
    <3> QED
      BY <3>1, <3>2
  <2>4. CASE doTransaction(c)
    BY <2>4 DEF doTransaction, Idle
  <2>5. CASE (\E notify \in BOOLEAN : commit(c, notify)) \/ rollback(c)
    BY <2>5 DEF commit, doCommit, rollback, doRollback, Idle
  <2>6. CASE \E n \in {1, AllOpened(c)} : rollbackOpened(c, n) \/ commitOpened(c, n)
    <3>1. UNCHANGED <<transaction_, transactionsOpened_>> /\ loop'.then = "return"
      BY <2>6 DEF rollbackOpened, commitOpened, StartLoop, dbVars, cursorVars
    <3> QED
      BY <3>1
  <2> QED
    BY <1>2, <2>1, <2>2, <2>3, <2>4, <2>5, <2>6 DEF CursorNext
<1>3. CASE RollbackNext
  BY <1>3 DEF RollbackNext, SweepQueue, UndoOp, UndoCurrent, EndRollback, dbVars, cursorVars
<1>4. CASE LoopRollback \/ LoopCommit
  BY <1>4 DEF LoopRollback, LoopCommit, LoopTurn, doRollback, doCommit, Looping
<1>5. CASE LoopIdle
  BY <1>5 DEF LoopIdle, RollbacksAccepted, RefusesRollback, dbVars, cursorVars
<1>6. CASE LoopReturn
  BY <1>6 DEF LoopReturn, LoopEnds, NoLoop, dbVars, cursorVars
<1>7. CASE LoopDestroy
  BY <1>7 DEF LoopDestroy, LoopEnds
<1>8. CASE LoopFinish
  BY <1>8 DEF LoopFinish, Finish, cursorVars
<1>9. CASE reconnect
  <2>1. CASE transaction_ > 0 /\ lastActiveCursor_ # NoCursor
    <3>1. UNCHANGED <<transaction_, transactionsOpened_>> /\ loop'.then = "finish"
      BY <1>9, <2>1 DEF reconnect, StartLoop, dbVars, cursorVars
    <3> QED
      BY <3>1
  <2>2. CASE ~(transaction_ > 0 /\ lastActiveCursor_ # NoCursor)
    BY <1>9, <2>2 DEF reconnect, Finish, cursorVars
  <2> QED
    BY <2>1, <2>2
<1>10. CASE crash
  BY <1>10 DEF crash
<1> QED
  BY <1>1, <1>2, <1>3, <1>4, <1>5, <1>6, <1>7, <1>8, <1>9, <1>10 DEF Next, LoopNext

\* Every step keeps each open level on the record of a cursor.
LEMMA OwnStep ==
    ASSUME RollbacksAccepted, IInv, IInv', OwnInv, [Next]_vars
    PROVE  OwnInv'
<1>1. /\ TypeOK /\ TypeOK' /\ transaction_ \in Nat /\ transaction_' \in Nat
      /\ transactionsOpened_ \in [Cursors -> Seq(Nat)] /\ loop \in Loops /\ loop.left \in Nat
      /\ Looping => loop.cur \in Cursors
  BY DEF IInv, TypeOK, Control, Loops
<1>2. /\ IsFiniteSet(OnRecord) /\ Cardinality(OnRecord) \in Nat
      /\ transaction_ <= Cardinality(OnRecord)
      /\ Looping /\ loop.then = "destroy" => transaction_ = 0 \/ AllOpened(loop.cur) <= loop.left
  BY FS_CardinalityType DEF OwnInv, EveryLevelOnRecord, LevelsOnRecord, Releases
<1>3. CASE UNCHANGED <<transaction_, transactionsOpened_, loop>>
  BY <1>3 DEF OwnInv, EveryLevelOnRecord, LevelsOnRecord, OnRecord, Releases, AllOpened, Looping
<1>4. CASE /\ UNCHANGED <<transaction_, transactionsOpened_>>
           /\ Looping' /\ loop'.then = "destroy" => loop'.left = AllOpened(loop'.cur)
  <2>1. OnRecord' = OnRecord
    BY <1>4 DEF OnRecord
  <2>2. Looping' /\ loop'.then = "destroy" => AllOpened(loop.cur)' <= loop'.left
    <3>1. AllOpened(loop.cur)' = AllOpened(loop'.cur)
      BY <1>4 DEF AllOpened
    <3>2. loop'.left \in Nat
      BY <1>1 DEF TypeOK, Loops
    <3> QED
      BY <1>4, <3>1, <3>2
  <2> QED
    BY <1>2, <1>4, <2>1, <2>2 DEF OwnInv, EveryLevelOnRecord, LevelsOnRecord, Releases, AllOpened
<1>5. CASE \E c \in Cursors : OpenLevel(c) /\ ~Looping /\ UNCHANGED loop
  <2>1. PICK c \in Cursors : OpenLevel(c) /\ ~Looping /\ UNCHANGED loop
    BY <1>5
  <2>2. PICK p : p \notin OnRecord /\ OnRecord' = OnRecord \cup {p}
    BY <1>1, <2>1, OpenOnRecord
  <2>3. IsFiniteSet(OnRecord') /\ Cardinality(OnRecord') = Cardinality(OnRecord) + 1
    BY <1>2, <2>2, FS_AddElement
  <2>4. transaction_' = transaction_ + 1
    BY <2>1 DEF OpenLevel
  <2> QED
    BY <1>1, <1>2, <2>1, <2>3, <2>4
       DEF OwnInv, EveryLevelOnRecord, LevelsOnRecord, Releases, Looping
<1>6. ASSUME NEW c \in Cursors, CloseLevel(c)
      PROVE  /\ IsFiniteSet(OnRecord') /\ EveryLevelOnRecord'
             /\ AllOpened(c) \in Nat /\ AllOpened(c)' \in Nat
             /\ AllOpened(c)' = IF AllOpened(c) = 0 THEN 0 ELSE AllOpened(c) - 1
             /\ transaction_ > 0
  <2>1. transaction_ > 0 /\ transaction_' = transaction_ - 1
    BY <1>6 DEF CloseLevel
  <2>2. /\ OnRecord' = OnRecord \/ \E p \in OnRecord : OnRecord' = OnRecord \ {p}
        /\ AllOpened(c) \in Nat /\ AllOpened(c)' \in Nat
        /\ AllOpened(c)' = IF AllOpened(c) = 0 THEN 0 ELSE AllOpened(c) - 1
    BY <1>1, <1>6, CloseOnRecord
  <2>3. IsFiniteSet(OnRecord') /\ Cardinality(OnRecord') >= Cardinality(OnRecord) - 1
    <3>1. CASE OnRecord' = OnRecord
      BY <1>2, <3>1
    <3>2. CASE \E p \in OnRecord : OnRecord' = OnRecord \ {p}
      <4>1. PICK p \in OnRecord : OnRecord' = OnRecord \ {p}
        BY <3>2
      <4>2. IsFiniteSet(OnRecord') /\ Cardinality(OnRecord') = Cardinality(OnRecord) - 1
        BY <1>2, <4>1, FS_RemoveElement
      <4> QED
        BY <1>2, <4>2
    <3> QED
      BY <2>2, <3>1, <3>2
  <2>4. Cardinality(OnRecord') \in Nat
    BY <2>3, FS_CardinalityType
  <2>5. transaction_' <= Cardinality(OnRecord')
    BY <1>1, <1>2, <2>1, <2>3, <2>4
  <2> QED
    BY <2>1, <2>2, <2>3, <2>5 DEF EveryLevelOnRecord, LevelsOnRecord
<1>7. CASE \E c \in Cursors : CloseLevel(c) /\ ~Looping /\ UNCHANGED loop
  BY <1>6, <1>7 DEF OwnInv, Releases, Looping
<1>8. CASE CloseLevel(loop.cur) /\ Looping /\ Turn
  <2>1. PICK c \in Cursors : c = loop.cur /\ CloseLevel(c)
    BY <1>1, <1>8
  <2>2. /\ IsFiniteSet(OnRecord') /\ EveryLevelOnRecord'
        /\ AllOpened(c) \in Nat /\ AllOpened(c)' \in Nat
        /\ AllOpened(c)' = IF AllOpened(c) = 0 THEN 0 ELSE AllOpened(c) - 1
        /\ transaction_ > 0
    BY <1>6, <2>1
  <2>3. loop'.cur = c /\ loop'.then = loop.then /\ loop'.left = loop.left - 1
        /\ loop'.left \in Nat
    BY <1>1, <1>8, <2>1 DEF Turn, Loops, TypeOK
  <2>4. loop.then = "destroy" => AllOpened(c) <= loop.left
    BY <1>1, <1>2, <1>8, <2>1, <2>2
  <2>5. loop.then = "destroy" => AllOpened(c)' <= loop'.left
    BY <1>1, <2>2, <2>3, <2>4
  <2>6. AllOpened(loop.cur)' = AllOpened(c)'
    BY <2>3 DEF AllOpened
  <2> QED
    BY <2>2, <2>3, <2>5, <2>6 DEF OwnInv, Releases
<1>9. CASE transaction_ = 0 /\ UNCHANGED <<transaction_, transactionsOpened_>>
  BY <1>2, <1>9 DEF OwnInv, EveryLevelOnRecord, LevelsOnRecord, OnRecord, Releases
<1>10. CASE \E c \in Cursors : /\ Die(c) /\ transactionsOpened_[c] = <<>>
                               /\ ~Looping /\ UNCHANGED loop
  <2>1. UNCHANGED <<transaction_, transactionsOpened_>> /\ ~Looping'
    BY <1>1, <1>10 DEF Die, Looping
  <2> QED
    BY <1>2, <2>1 DEF OwnInv, EveryLevelOnRecord, LevelsOnRecord, OnRecord, Releases
<1>11. CASE /\ Die(loop.cur) /\ Looping /\ loop.then = "destroy" /\ loop.left = 0
            /\ loop' = NoLoop
  <2>1. ~Looping' /\ transaction_' = transaction_ /\ loop.cur \in Cursors
        /\ transactionsOpened_' = [transactionsOpened_ EXCEPT ![loop.cur] = <<>>]
    BY <1>1, <1>11 DEF Die, Looping, NoLoop
  <2>2. CASE transaction_ = 0
    <3>1. OnRecord' \subseteq OnRecord
      <4>1. \A c \in Cursors : DOMAIN transactionsOpened_'[c] \subseteq DOMAIN transactionsOpened_[c]
        BY <1>1, <2>1
      <4> QED
        BY <4>1 DEF OnRecord
    <3>2. IsFiniteSet(OnRecord') /\ Cardinality(OnRecord') \in Nat
      BY <1>2, <3>1, FS_Subset, FS_CardinalityType
    <3> QED
      BY <2>1, <2>2, <3>2 DEF OwnInv, EveryLevelOnRecord, LevelsOnRecord, Releases
  <2>3. CASE transaction_ # 0
    <3>1. transactionsOpened_[loop.cur] \in Seq(Nat) /\ Len(transactionsOpened_[loop.cur]) <= 0
      BY <1>1, <1>2, <1>11, <2>1, <2>3 DEF AllOpened
    <3>2. transactionsOpened_[loop.cur] = <<>>
      BY <3>1
    <3>3. transactionsOpened_' = transactionsOpened_
      BY <1>1, <2>1, <3>2
    <3>4. OnRecord' = OnRecord
      BY <3>3 DEF OnRecord
    <3> QED
      BY <1>2, <2>1, <3>4 DEF OwnInv, EveryLevelOnRecord, LevelsOnRecord, Releases
  <2> QED
    BY <2>2, <2>3
<1>12. CASE transaction_' = 0 /\ UNCHANGED transactionsOpened_
  BY <1>2, <1>12 DEF OwnInv, EveryLevelOnRecord, LevelsOnRecord, OnRecord, Releases
<1>13. CASE transaction_' = 0 /\ transactionsOpened_' = [c \in Cursors |-> <<>>]
  <2>1. OnRecord' = {}
    BY <1>13 DEF OnRecord
  <2> QED
    BY <1>13, <2>1, FS_EmptySet DEF OwnInv, EveryLevelOnRecord, LevelsOnRecord, Releases
<1> QED
  BY <1>3, <1>4, <1>5, <1>7, <1>8, <1>9, <1>10, <1>11, <1>12, <1>13, LevelSteps

(***************************************************************************)
(* Every open level is on the record of some cursor, for any number of     *)
(* cursors that open and close each other's levels, with failures, aborted *)
(* transactions, reconnections and crashes, unless the user refuses a      *)
(* rollback.                                                               *)
(***************************************************************************)
THEOREM LevelsHaveOwners == ASSUME RollbacksAccepted PROVE Spec => []EveryLevelOnRecord
<1>1. Init => OwnInv
  <2> SUFFICES ASSUME Init PROVE OwnInv
    OBVIOUS
  <2>1. OnRecord = {} /\ transaction_ = 0 /\ ~Looping
    BY DEF Init, OnRecord, Looping, NoLoop
  <2> QED
    BY <2>1, FS_EmptySet DEF OwnInv, EveryLevelOnRecord, LevelsOnRecord, Releases
<1>2. IInv /\ IInv' /\ OwnInv /\ [Next]_vars => OwnInv'
  BY OwnStep
<1>3. OwnInv => EveryLevelOnRecord
  BY DEF OwnInv
<1> QED
  BY <1>1, <1>2, <1>3, Invariance, PTL DEF Spec

-----------------------------------------------------------------------------
(***************************************************************************)
(* The emulated savepoints.  A list of operations undoes t1 into t0 when   *)
(* some trail of tables leads from t1 back to t0, one operation a step,    *)
(* the last one first.                                                     *)
(***************************************************************************)
Undoes(ops, t0, t1) ==
    \E trail \in [0 .. Len(ops) -> Tables] :
        /\ trail[0] = t0 /\ trail[Len(ops)] = t1
        /\ \A j \in 1 .. Len(ops) : undoOp(trail[j], ops[j]) = trail[j - 1]

\* Nothing is undone into the same table, and into no other.
LEMMA UndoesNothing ==
    ASSUME NEW t0 \in Tables, NEW t1 \in Tables
    PROVE  Undoes(<<>>, t0, t1) <=> t0 = t1
<1>1. Len(<<>>) = 0 /\ 1 .. 0 = {} /\ 0 \in 0 .. 0
  OBVIOUS
<1>2. ASSUME Undoes(<<>>, t0, t1) PROVE t0 = t1
  BY <1>1, <1>2 DEF Undoes
<1>3. ASSUME t0 = t1 PROVE Undoes(<<>>, t0, t1)
  <2> DEFINE tr == [j \in 0 .. 0 |-> t0]
  <2>1. tr \in [0 .. 0 -> Tables] /\ tr[0] = t0
    BY <1>1
  <2> HIDE DEF tr
  <2> QED
    BY <1>1, <1>3, <2>1 DEF Undoes
<1> QED
  BY <1>2, <1>3

\* One more operation, undone first.
LEMMA UndoesMore ==
    ASSUME NEW ops \in Seq(OpInfos), NEW o \in OpInfos, NEW t0 \in Tables, NEW t1 \in Tables,
           NEW t2 \in Tables, Undoes(ops, t0, t1), undoOp(t2, o) = t1
    PROVE  Undoes(Append(ops, o), t0, t2)
<1>1. PICK n \in Nat : n = Len(ops)
  OBVIOUS
<1>2. PICK tr \in [0 .. n -> Tables] :
         /\ tr[0] = t0 /\ tr[n] = t1
         /\ \A j \in 1 .. n : undoOp(tr[j], ops[j]) = tr[j - 1]
  BY <1>1 DEF Undoes
<1> DEFINE more == Append(ops, o)
           tr2 == [j \in 0 .. n + 1 |-> IF j = n + 1 THEN t2 ELSE tr[j]]
<1>3. Len(more) = n + 1 /\ more[n + 1] = o /\ \A j \in 1 .. n : more[j] = ops[j]
  BY <1>1
<1>4. tr2 \in [0 .. n + 1 -> Tables] /\ tr2[n + 1] = t2 /\ \A j \in 0 .. n : tr2[j] = tr[j]
  BY <1>2
<1> HIDE DEF more, tr2
<1>5. ASSUME NEW j \in 1 .. n + 1
      PROVE  undoOp(tr2[j], more[j]) = tr2[j - 1]
  <2>1. CASE j = n + 1
    <3>1. j - 1 = n /\ n \in 0 .. n
      BY <1>1, <2>1
    <3> QED
      BY <1>2, <1>3, <1>4, <2>1, <3>1
  <2>2. CASE j # n + 1
    <3>1. j \in 1 .. n /\ j \in 0 .. n /\ j - 1 \in 0 .. n
      BY <1>1, <2>2
    <3> QED
      BY <1>2, <1>3, <1>4, <3>1
  <2> QED
    BY <2>1, <2>2
<1>6. tr2[0] = t0
  BY <1>1, <1>2, <1>4
<1> QED
  BY <1>3, <1>4, <1>5, <1>6 DEF Undoes, more

\* Undoing the last operation leaves the others to be undone.
LEMMA UndoesLess ==
    ASSUME NEW ops \in Seq(OpInfos), ops # <<>>, NEW t0 \in Tables, NEW t1 \in Tables,
           Undoes(ops, t0, t1)
    PROVE  Undoes(SubSeq(ops, 1, Len(ops) - 1), t0, undoOp(t1, ops[Len(ops)]))
<1> DEFINE n == Len(ops)
           less == SubSeq(ops, 1, n - 1)
<1>1. /\ n - 1 \in Nat /\ n \in Nat /\ Len(less) = n - 1
      /\ \A j \in 1 .. n - 1 : less[j] = ops[j]
  BY FrontType
<1>2. PICK tr \in [0 .. n -> Tables] :
         /\ tr[0] = t0 /\ tr[n] = t1
         /\ \A j \in 1 .. n : undoOp(tr[j], ops[j]) = tr[j - 1]
  BY DEF Undoes
<1> DEFINE tr2 == [j \in 0 .. n - 1 |-> tr[j]]
<1> HIDE DEF n, less
<1>3. tr2 \in [0 .. n - 1 -> Tables] /\ \A j \in 0 .. n - 1 : tr2[j] = tr[j]
  BY <1>1, <1>2
<1> HIDE DEF tr2
<1>4. n \in 1 .. n /\ 0 \in 0 .. n - 1 /\ n - 1 \in 0 .. n - 1
      /\ \A j \in 1 .. n - 1 : j \in 1 .. n /\ j \in 0 .. n - 1 /\ j - 1 \in 0 .. n - 1
  BY <1>1
<1>5. tr2[0] = t0 /\ tr2[n - 1] = undoOp(t1, ops[n])
  BY <1>2, <1>3, <1>4
<1>6. \A j \in 1 .. n - 1 : undoOp(tr2[j], less[j]) = tr2[j - 1]
  BY <1>1, <1>2, <1>3, <1>4
<1> QED
  BY <1>1, <1>3, <1>5, <1>6 DEF Undoes, n, less

-----------------------------------------------------------------------------
(* Each operation on a record as the table has it is undone by undoOp; and *)
(* undoing it once more changes nothing.                                   *)
LEMMA InsertReverts ==
    ASSUME NEW t \in Tables, NEW r \in Records, ~Exists(t, r.key)
    PROVE  LET o == [op |-> "insert", buffer |-> r]
           IN  undoOp(InsertRow(t, r), o) = t /\ undoOp(t, o) = t
<1>1. r.key \in Keys /\ r.value \in Values /\ t[r.key] = NoRow
  BY DEF Records, Exists
<1>2. InsertRow(t, r) = [t EXCEPT ![r.key] = r.value]
  BY DEF InsertRow
<1>3. [[t EXCEPT ![r.key] = r.value] EXCEPT ![r.key] = NoRow] = t
      /\ [t EXCEPT ![r.key] = NoRow] = t
  BY <1>1 DEF Tables
<1> QED
  BY <1>2, <1>3 DEF undoOp, undoInsert, DeleteRow

\* An edit is undone by restoring the copy taken before it, done or not.
LEMMA EditReverts ==
    ASSUME NEW t \in Tables, NEW r \in Records, NEW old \in Records, r.key = old.key,
           t[old.key] = old.value
    PROVE  LET o == [op |-> "edit", buffer |-> old]
           IN  undoOp(UpdateRow(t, old.key, r), o) = t /\ undoOp(t, o) = t
<1>1. old.key \in Keys /\ r.value \in Values /\ old.value \in Values
  BY DEF Records
<1>2. ASSUME NEW v \in Values, NEW x \in Records, x.key = old.key, x.value = v,
             NEW u \in Tables, u[old.key] \in Values
      PROVE  UpdateRow(u, old.key, x) = [u EXCEPT ![old.key] = v]
  <2>1. Exists(u, old.key) /\ ~UpdateClashes(u, old.key, x)
    BY <1>2, NoRowAssumption DEF Exists, UpdateClashes
  <2>2. [u EXCEPT ![old.key] = NoRow, ![old.key] = v] = [u EXCEPT ![old.key] = v]
    BY <1>1, <1>2 DEF Tables
  <2> QED
    BY <1>2, <2>1, <2>2 DEF UpdateRow
<1> DEFINE u == [t EXCEPT ![old.key] = r.value]
<1>3. UpdateRow(t, old.key, r) = u
  BY <1>1, <1>2
<1>4. u \in Tables /\ u[old.key] \in Values
      /\ [u EXCEPT ![old.key] = old.value] = t /\ [t EXCEPT ![old.key] = old.value] = t
  BY <1>1 DEF Tables
<1> HIDE DEF u
<1>5. UpdateRow(u, old.key, old) = t /\ UpdateRow(t, old.key, old) = t
  BY <1>1, <1>2, <1>4
<1> QED
  BY <1>3, <1>5 DEF undoOp, undoEdit

\* A deletion is undone by inserting the copy again, done or not.
LEMMA DeleteReverts ==
    ASSUME NEW t \in Tables, NEW old \in Records, t[old.key] = old.value
    PROVE  LET o == [op |-> "del", buffer |-> old]
           IN  undoOp(DeleteRow(t, old.key), o) = t /\ undoOp(t, o) = t
<1>1. old.key \in Keys /\ old.value \in Values /\ t[old.key] # NoRow
  BY NoRowAssumption DEF Records
<1> DEFINE u == [t EXCEPT ![old.key] = NoRow]
<1>2. u[old.key] = NoRow /\ [u EXCEPT ![old.key] = old.value] = t
  BY <1>1 DEF Tables
<1> HIDE DEF u
<1>3. InsertRow(u, old) = t /\ InsertRow(t, old) = t
  BY <1>1, <1>2 DEF InsertRow, Exists
<1>4. DeleteRow(t, old.key) = u
  BY DEF DeleteRow, u
<1> QED
  BY <1>3, <1>4 DEF undoOp, undoDel

(***************************************************************************)
(* What is asked of the program. The integrity checks refuse a used key    *)
(* and no key is changed; the copy a cursor delivers from is the record as *)
(* the table has it, and that record is the one changed or deleted; and    *)
(* what waits in the queue has nothing to undo: the emulated levels        *)
(* committed into another emulated one did no operation. With a level that *)
(* did, the operations are undone in another order than they were done     *)
(* (see the run undo_order).                                               *)
(***************************************************************************)
EmulationAssumption == ~canSavePoint /\ Events \cap {"editKey", "unchecked"} = {}

Fresh(c) ==
    /\ bufferCopy_[c] # NoBuffer
    /\ table[bufferCopy_[c].key] = bufferCopy_[c].value
    /\ modeAccess_[c] = "EDIT" => editIndex[c] = bufferCopy_[c].key

FreshDelivery ==
    \A c \in Cursors :
        commitBuffer(c) /\ modeAccess_[c] # "INSERT"
            => /\ Fresh(c)
               /\ modeAccess_[c] = "DEL" =>
                     \E veto \in BOOLEAN : commitDel(c, bufferCopy_[c].key, veto)

QueueHoldsNothing == \A i \in DOMAIN queueSavePoints_ : queueSavePoints_[i].opInfos = <<>>

(***************************************************************************)
(* The invariant.  The savepoint of each emulated level undoes the table   *)
(* the next level began with, or the promised one for the newest level,    *)
(* into the table the level began with; a rollback under way undoes the    *)
(* present table into the promised one.                                    *)
(***************************************************************************)
EntryOfLevel ==
    /\ entry \in Seq(Tables) /\ Len(entry) = transaction_
    /\ target \in Tables
    /\ InTransaction => entry[1] = durable

NewestSavePoint == IF undo.phase = "sweep" THEN stackSavePoints_[Depth] ELSE currentSavePoint_

TrailOfLevel ==
    /\ \A i \in 1 .. Depth - 1 :
          Undoes(stackSavePoints_[i].opInfos, entry[i + BaseId], entry[i + BaseId + 1])
    /\ Depth > 0 => Undoes(NewestSavePoint.opInfos, entry[transaction_], target)

TrailOfRollback ==
    /\ ~Undoing => target = table
    /\ undo.phase = "sweep" =>
          undo.opInfos = <<>> /\ Undoes(currentSavePoint_.opInfos, target, table)
    /\ undo.phase = "current" => Undoes(undo.opInfos, target, table)
    /\ Undoing /\ canTransaction => transaction_ > 0

EmInv == IInv /\ ~aborted /\ EntryOfLevel /\ TrailOfLevel /\ TrailOfRollback

(***************************************************************************)
(* The steps, by what they do to the levels, the table and the savepoints. *)
(***************************************************************************)
Logs ==
    /\ transaction_' = transaction_ /\ ~Undoing /\ aborted' = FALSE
    /\ UNCHANGED <<stackSavePoints_, queueSavePoints_, undo>>
    /\ table' \in Tables
    /\ durable' = IF InTransaction THEN durable ELSE table'
    /\ \/ UNCHANGED <<table, currentSavePoint_>>
       \/ currentSavePoint_ = NoSavePoint /\ UNCHANGED currentSavePoint_
       \/ /\ currentSavePoint_ # NoSavePoint
          /\ \E op \in {"insert", "edit", "del"}, r \in Records :
                /\ currentSavePoint_' = save(currentSavePoint_, op, r)
                /\ undoOp(table', [op |-> op, buffer |-> r]) = table

Pushes ==
    /\ transaction_' = transaction_ + 1 /\ ~Undoing /\ aborted' = FALSE
    /\ UNCHANGED <<table, durable, undo>>
    /\ IF transaction_ = 0 /\ canTransaction THEN ClearSavePoints
       ELSE /\ currentSavePoint_' = NewSavePoint(transaction_)
            /\ stackSavePoints_' = IF currentSavePoint_ = NoSavePoint THEN stackSavePoints_
                                   ELSE Append(stackSavePoints_, currentSavePoint_)

Forgets ==
    /\ transaction_ > 0 /\ transaction_' = transaction_ - 1 /\ ~Undoing /\ aborted' = FALSE
    /\ UNCHANGED <<table, undo>>
    /\ durable' = IF Outermost THEN table ELSE durable
    /\ IF Outermost \/ LastSavePoint THEN ClearSavePoints ELSE EnqueueCurrent

Gone ==
    /\ transaction_' = 0 /\ table' = durable /\ durable' = durable /\ ClearSavePoints
    /\ undo'.phase = "none" /\ aborted' = FALSE

\* A delivery changes the table as the operation it records undoes, or not at all.
LEMMA DeliverRecords ==
    ASSUME IInv, ~aborted, EmulationAssumption, FreshDelivery, NEW c \in Cursors, commitBuffer(c)
    PROVE  Logs
<1>1. /\ table \in Tables /\ durable \in Tables /\ transaction_ \in Nat /\ ~canSavePoint
      /\ "editKey" \notin Events /\ "unchecked" \notin Events
  BY DEF IInv, TypeOK, EmulationAssumption
<1>2. ASSUME NEW t \in Tables, NEW op \in {"insert", "edit", "del"}, NEW r \in Records,
             NEW veto \in BOOLEAN, NEW m \in Modes, Delivering(c, m), Record(op, r),
             Accept(c, t, op, r, veto),
             undoOp(t, [op |-> op, buffer |-> r]) = table,
             undoOp(table, [op |-> op, buffer |-> r]) = table
      PROVE  Logs
  <2>1. PICK u \in Tables : Store(u) /\ undoOp(u, [op |-> op, buffer |-> r]) = table
    BY <1>1, <1>2 DEF Accept
  <2>2. \/ currentSavePoint_ = NoSavePoint /\ UNCHANGED currentSavePoint_
        \/ currentSavePoint_ # NoSavePoint /\ currentSavePoint_' = save(currentSavePoint_, op, r)
    BY <1>1, <1>2, NullAssumption DEF Record
  <2>3. /\ transaction_' = transaction_ /\ ~Undoing /\ aborted' = FALSE
        /\ UNCHANGED <<stackSavePoints_, queueSavePoints_, undo>>
    BY <1>2 DEF Delivering, Accept, Idle
  <2>4. table' = u /\ durable' = IF InTransaction THEN durable ELSE u
    BY <2>1 DEF Store
  <2> QED
    BY <2>1, <2>2, <2>3, <2>4 DEF Logs
<1>3. ASSUME modeAccess_[c] # "INSERT"
      PROVE  /\ bufferCopy_[c] \in Records /\ bufferCopy_[c].key \in Keys
             /\ bufferCopy_[c] # NoBuffer
             /\ table[bufferCopy_[c].key] = bufferCopy_[c].value
             /\ modeAccess_[c] = "EDIT" => editIndex[c] = bufferCopy_[c].key
             /\ modeAccess_[c] = "DEL" =>
                   \E veto \in BOOLEAN : commitDel(c, bufferCopy_[c].key, veto)
  <2>1. bufferCopy_[c] \in Records /\ bufferCopy_[c] # NoBuffer
    BY <1>3 DEF IInv, TypeOK, FreshDelivery, Fresh
  <2> QED
    BY <1>3, <2>1 DEF FreshDelivery, Fresh, Records
<1>4. ASSUME NEW r \in Records, NEW veto \in BOOLEAN, commitInsert(c, r, veto)
      PROVE  Logs
  <2>1. ~Exists(table, r.key)
    BY <1>1, <1>4 DEF commitInsert
  <2>2. /\ Delivering(c, "INSERT") /\ Record("insert", r)
        /\ Accept(c, InsertRow(table, r), "insert", r, veto) /\ "INSERT" \in Modes
    BY <1>4, <2>1 DEF commitInsert, Modes
  <2>3. InsertRow(table, r) \in Tables
    BY <1>1, RowOps DEF Records
  <2> QED
    BY <1>1, <1>2, <2>1, <2>2, <2>3, InsertReverts
<1>5. ASSUME NEW r \in Records, NEW veto \in BOOLEAN, commitEdit(c, r, veto)
      PROVE  Logs
  <2> DEFINE old == bufferCopy_[c]
  <2>1. Delivering(c, "EDIT") /\ modeAccess_[c] = "EDIT" /\ "EDIT" \in Modes
    BY <1>5 DEF commitEdit, Delivering, Modes
  <2>2. old \in Records /\ old.key \in Keys /\ table[old.key] = old.value /\ old # NoBuffer
    BY <1>3, <2>1
  <2>3. editIndex[c] = old.key /\ Record("edit", old)
    BY <1>3, <1>5, <2>1 DEF commitEdit
  <2>4. CASE ~Modified(c, r)
    <3>1. Accept(c, table, "edit", old, veto)
      BY <1>5, <2>4 DEF commitEdit
    <3>2. undoOp(table, [op |-> "edit", buffer |-> old]) = table
      BY <1>1, <2>2, EditReverts
    <3> HIDE DEF old
    <3> QED
      BY <1>1, <1>2, <2>1, <2>2, <2>3, <3>1, <3>2
  <2>5. CASE Modified(c, r)
    <3>1. Written(c, r).key = old.key /\ Written(c, r) = r
      <4>1. Written(c, r).key = old.key
        BY <1>1, <1>5, <2>3, <2>5 DEF commitEdit
      <4>2. r \in [key : Keys, value : Values]
        BY DEF Records
      <4> QED
        BY <2>2, <2>3, <4>1, <4>2 DEF Written
    <3>2. Accept(c, UpdateRow(table, old.key, r), "edit", old, veto)
      BY <1>5, <2>3, <2>5, <3>1 DEF commitEdit, UpdateClashes
    <3>3. UpdateRow(table, old.key, r) \in Tables
      BY <1>1, <2>2, RowOps
    <3>4. /\ undoOp(UpdateRow(table, old.key, r), [op |-> "edit", buffer |-> old]) = table
          /\ undoOp(table, [op |-> "edit", buffer |-> old]) = table
      BY <1>1, <2>2, <3>1, EditReverts
    <3> HIDE DEF old
    <3> QED
      BY <1>2, <2>1, <2>2, <2>3, <3>2, <3>3, <3>4
  <2> QED
    BY <2>4, <2>5
<1>6. ASSUME NEW k \in Keys, NEW v \in BOOLEAN, commitDel(c, k, v)
      PROVE  Logs
  <2> DEFINE old == bufferCopy_[c]
  <2>1. Delivering(c, "DEL") /\ modeAccess_[c] = "DEL" /\ "DEL" \in Modes
    BY <1>6 DEF commitDel, Delivering, Modes
  <2>2. old \in Records /\ old.key \in Keys /\ table[old.key] = old.value
    BY <1>3, <2>1
  <2>3. DeleteRow(table, old.key) \in Tables
    BY <1>1, <2>2, RowOps
  <2>4. PICK veto \in BOOLEAN :
           Record("del", old) /\ Accept(c, DeleteRow(table, old.key), "del", old, veto)
    BY <1>3, <2>1 DEF commitDel
  <2> HIDE DEF old
  <2> QED
    BY <1>1, <1>2, <2>1, <2>2, <2>3, <2>4, DeleteReverts
<1> QED
  BY <1>4, <1>5, <1>6 DEF commitBuffer

\* doTransaction pushes a savepoint, or begins the engine's transaction.
LEMMA TransactionPushes ==
    ASSUME IInv, ~aborted, EmulationAssumption, NEW c \in Cursors, doTransaction(c)
    PROVE  Pushes
<1>1. transaction_ \in Nat /\ ~canSavePoint /\ ~Undoing
  BY DEF IInv, TypeOK, EmulationAssumption, doTransaction, Idle
<1>2. OpenLevel(c) /\ (BeginTransaction(c) \/ BeginSavePoint) /\ UNCHANGED undo
  BY DEF doTransaction
<1>3. CASE BeginTransaction(c)
  BY <1>1, <1>2, <1>3 DEF BeginTransaction, OpenLevel, serverVars, Pushes
<1>4. CASE BeginSavePoint
  <2>1. transaction_ = 0 => currentSavePoint_ = NoSavePoint /\ stackSavePoints_ = <<>>
    BY <1>1 DEF IInv, TypeOK, SavePointPerLevel, ChainOf, Depth, Undoing
  <2> QED
    BY <1>1, <1>2, <1>4, <2>1 DEF BeginSavePoint, OpenLevel, Pushes
<1> QED
  BY <1>2, <1>3, <1>4

\* doCommit forgets a savepoint, or puts it into the queue.
LEMMA CommitForgets ==
    ASSUME IInv, EmulationAssumption, ~Undoing, NEW c \in Cursors, NEW notify \in BOOLEAN,
           doCommit(c, notify), ~aborted
    PROVE  Forgets
<1>1. transaction_ \in Nat /\ ~canSavePoint
  BY DEF IInv, TypeOK, EmulationAssumption
<1>2. transaction_ > 0 /\ transaction_' = transaction_ - 1 /\ UNCHANGED undo
  BY DEF doCommit, CloseLevel
<1>3. CASE CommitTransaction(c, notify)
  BY <1>1, <1>2, <1>3 DEF CommitTransaction, EndTransaction, Forgets
<1>4. CASE EndFails
  BY <1>1, <1>4 DEF EndFails
<1>5. CASE CommitSavePoint(c, notify)
  BY <1>1, <1>2, <1>5 DEF CommitSavePoint, Forgets
<1> QED
  BY <1>3, <1>4, <1>5 DEF doCommit

\* Every step is one of these.
LEMMA EmulatedStep ==
    ASSUME IInv, EmulationAssumption, FreshDelivery, ~aborted, [Next]_vars
    PROVE  \/ Loses
           \/ Logs \/ Pushes \/ Forgets \/ RollbackNext
           \/ \E c \in Cursors : ~Undoing /\ RollsBack(c)
           \/ UNCHANGED vars
<1>1. /\ table \in Tables /\ transaction_ \in Nat /\ ~canSavePoint
      /\ ~InTransaction => table = durable
  BY DEF IInv, TypeOK, EmulationAssumption, NothingPending
<1>2. ASSUME UNCHANGED <<serverVars, transaction_, spVars, undo>>, ~Undoing
      PROVE  Logs
  BY <1>1, <1>2 DEF serverVars, spVars, Logs
<1>3. ASSUME NEW c \in Cursors, doRollback(c)
      PROVE  Loses \/ RollsBack(c)
  BY <1>3, RollbackRolls
<1>4. ASSUME NEW c \in Cursors, Die(c), ~Undoing
      PROVE  Logs
  BY <1>2, <1>4 DEF Die
<1>5. ASSUME NEW op, NEW c, NEW n, NEW then, StartLoop(op, c, n, then), ~Undoing
      PROVE  Logs
  BY <1>2, <1>5 DEF StartLoop, dbVars, spVars
<1>6. ASSUME NEW c \in Cursors, CursorNext(c)
      PROVE  Loses \/ Logs \/ Pushes \/ Forgets \/ (~Undoing /\ RollsBack(c))
  <2>1. CASE create(c)
    BY <1>2, <2>1 DEF create, dbVars, spVars, Idle
  <2>2. CASE destroy(c)
    BY <1>4, <1>5, <2>2 DEF destroy, Idle
  <2>3. CASE \/ \E m \in Modes : setModeAccess(c, m) \/ \E k \in Keys : refreshBuffer(c, m, k)
             \/ refreshNew(c)
    <3>1. Reading(c)
      BY <2>3 DEF setModeAccess, refreshBuffer, refreshNew
    <3> QED
      BY <1>2, <3>1 DEF Reading, dbVars, spVars, Idle
  <2>5. CASE commitBuffer(c)
    BY <2>5, DeliverRecords
  <2>6. CASE doTransaction(c)
    BY <2>6, TransactionPushes
  <2>7. ASSUME NEW notify \in BOOLEAN, commit(c, notify) PROVE Forgets
    BY <2>7, CommitForgets DEF commit, Idle
  <2>8. CASE rollback(c)
    BY <1>3, <2>8 DEF rollback, Idle
  <2>9. ASSUME NEW n \in {1, AllOpened(c)}, rollbackOpened(c, n) \/ commitOpened(c, n)
        PROVE  Logs
    BY <1>5, <2>9 DEF rollbackOpened, commitOpened, Idle
  <2> QED
    BY <1>6, <2>1, <2>2, <2>3, <2>5, <2>6, <2>7, <2>8, <2>9 DEF CursorNext
<1>7. CASE LoopNext
  <2>1. loop.cur \in Cursors /\ ~Undoing
    BY <1>7 DEF IInv, Control, LoopNext, LoopRollback, LoopCommit, LoopIdle, LoopReturn,
       LoopDestroy, LoopFinish, LoopTurn, LoopEnds, Looping
  <2>2. CASE LoopRollback
    BY <1>3, <2>1, <2>2 DEF LoopRollback
  <2>3. CASE LoopCommit
    BY <2>1, <2>3, CommitForgets DEF LoopCommit
  <2>4. CASE LoopIdle \/ LoopReturn
    BY <1>2, <2>1, <2>4 DEF LoopIdle, LoopReturn, dbVars, spVars
  <2>5. CASE LoopDestroy
    BY <1>4, <2>1, <2>5 DEF LoopDestroy
  <2>6. CASE LoopFinish
    BY <2>6 DEF LoopFinish, Loses
  <2> QED
    BY <1>7, <2>2, <2>3, <2>4, <2>5, <2>6 DEF LoopNext
<1>8. CASE reconnect
  BY <1>5, <1>8 DEF reconnect, Loses, Idle
<1>9. CASE crash
  BY <1>9 DEF Loses
<1> QED
  BY <1>6, <1>7, <1>8, <1>9 DEF Next

\* The number of emulated levels, and the savepoints that stand for them.
LEMMA ChainShape ==
    ASSUME IInv, EmulationAssumption
    PROVE  /\ transaction_ \in Nat /\ Depth \in Nat /\ BaseId \in {0, 1}
           /\ Depth > 0 => Depth + BaseId = transaction_
           /\ stackSavePoints_ \in Seq(SavePoints) /\ Len(stackSavePoints_) \in Nat
           /\ undo.phase # "sweep" =>
                 IF Depth = 0 THEN currentSavePoint_ = NoSavePoint /\ stackSavePoints_ = <<>>
                 ELSE currentSavePoint_ \in SavePoints /\ Len(stackSavePoints_) = Depth - 1
           /\ undo.phase = "sweep" =>
                 currentSavePoint_ \in SavePoints /\ Len(stackSavePoints_) = Depth
           /\ ~Undoing => undo.phase = "none"
           /\ table \in Tables /\ durable \in Tables
<1>1. /\ transaction_ \in Nat /\ stackSavePoints_ \in Seq(SavePoints)
      /\ currentSavePoint_ \in SavePoints \cup {NoSavePoint} /\ undo \in Undos
      /\ table \in Tables /\ durable \in Tables /\ ~canSavePoint
  BY DEF IInv, TypeOK, EmulationAssumption
<1>2. /\ Depth \in Nat /\ BaseId \in {0, 1}
      /\ Depth > 0 => Depth + BaseId = transaction_
  BY <1>1 DEF Depth, BaseId
<1>3. ASSUME NEW d \in Nat, ChainOf(d)
      PROVE  IF d = 0 THEN currentSavePoint_ = NoSavePoint /\ stackSavePoints_ = <<>>
             ELSE currentSavePoint_ \in SavePoints /\ Len(stackSavePoints_) = d - 1
  BY <1>1, <1>3 DEF ChainOf
<1>4. ChainOf(IF undo.phase = "sweep" THEN Depth + 1 ELSE Depth)
  BY <1>1 DEF IInv, SavePointPerLevel
<1>5. ASSUME undo.phase = "sweep"
      PROVE  currentSavePoint_ \in SavePoints /\ Len(stackSavePoints_) = Depth
  <2>1. PICK d \in Nat : d = Depth + 1 /\ d # 0 /\ d - 1 = Depth
    BY <1>2
  <2>2. ChainOf(d)
    BY <1>4, <1>5, <2>1
  <2> QED
    BY <1>3, <2>1, <2>2
<1>6. undo.phase # "sweep" =>
         IF Depth = 0 THEN currentSavePoint_ = NoSavePoint /\ stackSavePoints_ = <<>>
         ELSE currentSavePoint_ \in SavePoints /\ Len(stackSavePoints_) = Depth - 1
  BY <1>2, <1>3, <1>4
<1>7. Len(stackSavePoints_) \in Nat
  BY <1>1
<1> QED
  BY <1>1, <1>2, <1>5, <1>6, <1>7 DEF Undoing

\* What the history records of a step, by the number of the levels.
Tracked ==
    /\ TrackLevels
    /\ TrackTarget

\* A step that opens and ends no level leaves what is remembered of them.
LEMMA SameLevels ==
    ASSUME EntryOfLevel, TrackLevels, transaction_ \in Nat, transaction_' = transaction_
    PROVE  entry' = entry
  BY SubSeqFull DEF EntryOfLevel, TrackLevels

\* The level that ends is forgotten; the others are remembered as they were.
LEMMA FewerLevels ==
    ASSUME EntryOfLevel, TrackLevels, transaction_ \in Nat, transaction_ > 0,
           transaction_' = transaction_ - 1
    PROVE  /\ entry' \in Seq(Tables) /\ Len(entry') = transaction_'
           /\ \A i \in 1 .. transaction_ - 1 : entry'[i] = entry[i]
<1>1. entry \in Seq(Tables) /\ Len(entry) = transaction_ /\ entry # <<>>
  BY DEF EntryOfLevel
<1>2. entry' = SubSeq(entry, 1, Len(entry) - 1)
  BY <1>1 DEF TrackLevels
<1> QED
  BY <1>1, <1>2, EntryPopped

\* With no level open there is nothing to say of the savepoints.
LEMMA NoLevelInv ==
    ASSUME IInv', ~aborted', EmulationAssumption, Depth' = 0, EntryOfLevel',
           undo'.phase = "none", target' = table'
    PROVE  EmInv'
<1>1. TrailOfLevel'
  BY DEF TrailOfLevel
<1>2. TrailOfRollback'
  BY DEF TrailOfRollback, Undoing
<1> QED
  BY <1>1, <1>2 DEF EmInv

\* A lost transaction leaves no level.
LEMMA GoneInv ==
    ASSUME EmInv, EmulationAssumption, IInv', Gone, Tracked
    PROVE  EmInv'
<1>1. transaction_ \in Nat /\ transaction_' = 0 /\ durable \in Tables /\ entry \in Seq(Tables)
  BY ChainShape DEF Gone, EmInv, EntryOfLevel
<1>2. Depth' = 0 /\ ~InTransaction'
  BY <1>1 DEF Depth, InTransaction
<1>3. entry' = <<>> /\ Len(<<>>) = 0 /\ <<>> \in Seq(Tables)
  BY <1>1 DEF Tracked, TrackLevels
<1>4. target' = table' /\ table' \in Tables
  BY <1>1 DEF Gone, Tracked, TrackTarget
<1>5. EntryOfLevel'
  BY <1>1, <1>2, <1>3, <1>4 DEF EntryOfLevel
<1> QED
  BY <1>2, <1>4, <1>5, NoLevelInv DEF Gone

\* An operation joins those that lead back to the table the newest level began with.
LEMMA LogsInv ==
    ASSUME EmInv, EmulationAssumption, IInv', Logs, Tracked
    PROVE  EmInv'
<1>1. /\ transaction_ \in Nat /\ Depth \in Nat /\ transaction_' = transaction_
      /\ undo.phase = "none" /\ undo' = undo /\ ~aborted'
      /\ Depth > 0 => currentSavePoint_ \in SavePoints
      /\ Depth > 0 => currentSavePoint_ # NoSavePoint
      /\ table \in Tables /\ table' \in Tables /\ target = table
  BY ChainShape, NullAssumption DEF EmInv, Logs, TrailOfRollback
<1>2. entry' = entry /\ target' = table'
  BY <1>1, SameLevels DEF EmInv, Tracked, TrackTarget
<1>3. Depth' = Depth /\ BaseId' = BaseId /\ (InTransaction' <=> InTransaction)
  BY <1>1 DEF Depth, BaseId, InTransaction
<1>4. EntryOfLevel'
  <2>1. InTransaction => durable' = durable
    BY DEF Logs
  <2> QED
    BY <1>1, <1>2, <1>3, <2>1 DEF EmInv, EntryOfLevel
<1>5. TrailOfRollback'
  BY <1>1, <1>2, <1>3 DEF TrailOfRollback, Undoing
<1>6. ASSUME Depth > 0
      PROVE  Undoes(currentSavePoint_'.opInfos, entry[transaction_], table')
  <2>1. Undoes(currentSavePoint_.opInfos, entry[transaction_], table)
    BY <1>1, <1>6 DEF EmInv, TrailOfLevel, NewestSavePoint
  <2>2. CASE UNCHANGED <<table, currentSavePoint_>>
    BY <2>1, <2>2
  <2>3. CASE /\ currentSavePoint_ # NoSavePoint
             /\ \E op \in {"insert", "edit", "del"}, r \in Records :
                   /\ currentSavePoint_' = save(currentSavePoint_, op, r)
                   /\ undoOp(table', [op |-> op, buffer |-> r]) = table
    <3>1. PICK op \in {"insert", "edit", "del"}, r \in Records :
             /\ currentSavePoint_' = save(currentSavePoint_, op, r)
             /\ undoOp(table', [op |-> op, buffer |-> r]) = table
      BY <2>3
    <3>2. [op |-> op, buffer |-> r] \in OpInfos
      BY DEF OpInfos
    <3>3. /\ currentSavePoint_.opInfos \in Seq(OpInfos)
          /\ currentSavePoint_'.opInfos
                = Append(currentSavePoint_.opInfos, [op |-> op, buffer |-> r])
      BY <1>1, <1>6, <3>1 DEF save, SavePoints
    <3>4. entry[transaction_] \in Tables
      <4>1. transaction_ > 0
        BY <1>1, <1>6 DEF Depth
      <4> QED
        BY <1>1, <4>1 DEF EmInv, EntryOfLevel
    <3> QED
      BY <1>1, <2>1, <3>1, <3>2, <3>3, <3>4, UndoesMore
  <2> QED
    BY <1>1, <1>6, <2>2, <2>3 DEF Logs
<1>7. TrailOfLevel'
  <2>1. stackSavePoints_' = stackSavePoints_
    BY DEF Logs
  <2>2. NewestSavePoint' = currentSavePoint_'
    BY <1>1 DEF NewestSavePoint
  <2> QED
    BY <1>1, <1>2, <1>3, <1>6, <2>1, <2>2 DEF EmInv, TrailOfLevel
<1> QED
  BY <1>1, <1>4, <1>5, <1>7 DEF EmInv

\* A level that is opened has nothing to undo; the level around it keeps its operations.
LEMMA PushesInv ==
    ASSUME EmInv, EmulationAssumption, IInv', Pushes, Tracked
    PROVE  EmInv'
<1>1. /\ transaction_ \in Nat /\ transaction_' = transaction_ + 1
      /\ undo.phase = "none" /\ undo' = undo /\ ~aborted' /\ ~Undoing
      /\ table \in Tables /\ table' = table /\ durable' = durable /\ target = table
      /\ entry \in Seq(Tables) /\ Len(entry) = transaction_
  BY ChainShape DEF EmInv, Pushes, TrailOfRollback, EntryOfLevel
<1>2. entry' = Append(entry, table) /\ target' = table'
  <2>1. transaction_' > transaction_
    BY <1>1
  <2> QED
    BY <1>1, <2>1 DEF Tracked, TrackLevels, TrackTarget
<1>3. /\ entry' \in Seq(Tables) /\ Len(entry') = transaction_'
      /\ entry'[transaction_ + 1] = table
      /\ \A i \in 1 .. transaction_ : entry'[i] = entry[i]
  BY <1>1, <1>2
<1>4. EntryOfLevel'
  <2>1. CASE transaction_ = 0
    <3>1. table = durable
      BY <2>1 DEF EmInv, IInv, NothingPending, InTransaction
    <3> QED
      BY <1>1, <1>2, <1>3, <2>1, <3>1 DEF EntryOfLevel
  <2>2. CASE transaction_ # 0
    <3>1. entry'[1] = entry[1] /\ (InTransaction' => InTransaction)
      BY <1>1, <1>3, <2>2 DEF InTransaction
    <3> QED
      BY <1>1, <1>2, <1>3, <3>1 DEF EmInv, EntryOfLevel
  <2> QED
    BY <2>1, <2>2
<1>5. CASE transaction_ = 0 /\ canTransaction
  <2>1. Depth' = 0
    BY <1>1, <1>5 DEF Depth
  <2> QED
    BY <1>1, <1>2, <1>4, <2>1, NoLevelInv
<1>6. CASE ~(transaction_ = 0 /\ canTransaction)
  <2> DEFINE d == Depth
  <2>1. /\ d \in Nat /\ BaseId \in {0, 1} /\ d + BaseId = transaction_ /\ Depth' = d + 1
        /\ BaseId' = BaseId
    <3>1. canTransaction => transaction_ > 0
      BY <1>1, <1>6
    <3> QED
      BY <1>1, <3>1 DEF Depth, BaseId
  <2>2. /\ currentSavePoint_'.opInfos = <<>>
        /\ stackSavePoints_' = IF d = 0 THEN <<>>
                               ELSE Append(stackSavePoints_, currentSavePoint_)
        /\ stackSavePoints_ \in Seq(SavePoints)
        /\ d > 0 => currentSavePoint_ \in SavePoints /\ Len(stackSavePoints_) = d - 1
    <3>1. /\ undo.phase # "sweep" =>
                 IF d = 0 THEN currentSavePoint_ = NoSavePoint /\ stackSavePoints_ = <<>>
                 ELSE currentSavePoint_ \in SavePoints /\ Len(stackSavePoints_) = d - 1
          /\ stackSavePoints_ \in Seq(SavePoints)
      BY ChainShape DEF EmInv
    <3> QED
      BY <1>1, <1>6, <2>1, <3>1, NullAssumption DEF Pushes, NewSavePoint
  <2>3. ASSUME NEW i \in 1 .. d
        PROVE  Undoes(stackSavePoints_'[i].opInfos, entry'[i + BaseId], entry'[i + BaseId + 1])
    <3>1. CASE i = d
      <4>1. stackSavePoints_'[i] = currentSavePoint_
        BY <2>1, <2>2, <3>1
      <4>2. i + BaseId \in 1 .. transaction_ /\ i + BaseId = transaction_
        BY <1>1, <2>1, <3>1
      <4>3. Undoes(currentSavePoint_.opInfos, entry[transaction_], table)
        BY <1>1, <2>1, <3>1 DEF EmInv, TrailOfLevel, NewestSavePoint
      <4> QED
        BY <1>3, <4>1, <4>2, <4>3
    <3>2. CASE i # d
      <4>1. i \in 1 .. d - 1 /\ i + BaseId \in 1 .. transaction_
            /\ i + BaseId + 1 \in 1 .. transaction_
        BY <1>1, <2>1, <3>2
      <4>2. stackSavePoints_'[i] = stackSavePoints_[i]
        BY <2>1, <2>2, <4>1
      <4>3. Undoes(stackSavePoints_[i].opInfos, entry[i + BaseId], entry[i + BaseId + 1])
        BY <4>1 DEF EmInv, TrailOfLevel
      <4> QED
        BY <1>3, <4>1, <4>2, <4>3
    <3> QED
      BY <3>1, <3>2
  <2>4. Undoes(currentSavePoint_'.opInfos, entry'[transaction_'], target')
    BY <1>1, <1>2, <1>3, <2>2, UndoesNothing
  <2>5. TrailOfLevel'
    <3>1. NewestSavePoint' = currentSavePoint_'
      BY <1>1 DEF NewestSavePoint
    <3>2. Depth' - 1 = d
      BY <2>1
    <3> HIDE DEF d
    <3> QED
      BY <2>1, <2>3, <2>4, <3>1, <3>2 DEF TrailOfLevel
  <2>6. TrailOfRollback'
    BY <1>1, <1>2 DEF TrailOfRollback, Undoing
  <2> QED
    BY <1>1, <1>4, <2>5, <2>6 DEF EmInv
<1> QED
  BY <1>5, <1>6

\* The level that is committed has nothing to undo, or it was the only emulated one.
LEMMA ForgetsInv ==
    ASSUME EmInv, EmulationAssumption, QueueHoldsNothing', IInv', Forgets, Tracked
    PROVE  EmInv'
<1>1. /\ transaction_ \in Nat /\ transaction_ > 0 /\ transaction_' = transaction_ - 1
      /\ undo.phase = "none" /\ undo' = undo /\ ~aborted' /\ ~Undoing
      /\ table \in Tables /\ table' = table /\ target = table /\ target' = table'
  BY ChainShape DEF EmInv, Forgets, TrailOfRollback, Tracked, TrackTarget
<1>2. /\ entry' \in Seq(Tables) /\ Len(entry') = transaction_'
      /\ \A i \in 1 .. transaction_ - 1 : entry'[i] = entry[i]
  BY <1>1, FewerLevels DEF EmInv, Tracked
<1>3. EntryOfLevel'
  <2>1. InTransaction' => transaction_ > 1 /\ InTransaction /\ ~Outermost
    BY <1>1 DEF InTransaction, Outermost
  <2>2. InTransaction' => entry'[1] = entry[1] /\ durable' = durable
    BY <1>1, <1>2, <2>1 DEF Forgets
  <2> QED
    BY <1>1, <1>2, <2>1, <2>2 DEF EmInv, EntryOfLevel
<1>4. CASE Outermost \/ LastSavePoint
  <2>1. Depth' = 0
    BY <1>1, <1>4 DEF Outermost, LastSavePoint, Depth
  <2> QED
    BY <1>1, <1>3, <2>1, NoLevelInv
<1>5. CASE ~(Outermost \/ LastSavePoint)
  <2> DEFINE d == Depth
             s == stackSavePoints_
  <2>1. /\ d \in Nat /\ d > 1 /\ BaseId \in {0, 1} /\ d + BaseId = transaction_
        /\ Depth' = d - 1 /\ BaseId' = BaseId
    BY <1>1, <1>5 DEF Depth, BaseId, Outermost, LastSavePoint
  <2>2. currentSavePoint_ \in SavePoints /\ s \in Seq(SavePoints) /\ Len(s) = d - 1
        /\ currentSavePoint_ # NoSavePoint
    BY <1>1, <2>1, ChainShape, NullAssumption DEF EmInv
  <2> HIDE DEF d, s
  <2>3. s # <<>>
    BY <2>1, <2>2
  <2>4. /\ currentSavePoint_' = s[Len(s)] /\ stackSavePoints_' = SubSeq(s, 1, Len(s) - 1)
        /\ \E q : queueSavePoints_' = Append(q, currentSavePoint_) /\ q \in Seq(SavePoints)
    <3>1. EnqueueCurrent
      BY <1>5 DEF Forgets
    <3>2. [i \in DOMAIN queueSavePoints_ |->
              [queueSavePoints_[i] EXCEPT !.id = transaction_ - 2]] \in Seq(SavePoints)
      <4>1. transaction_ - 2 \in Nat
        BY <1>1, <2>1
      <4>2. /\ Len(queueSavePoints_) \in Nat
            /\ DOMAIN queueSavePoints_ = 1 .. Len(queueSavePoints_)
            /\ \A i \in DOMAIN queueSavePoints_ : queueSavePoints_[i] \in SavePoints
        BY QueueType DEF EmInv, IInv
      <4>3. \A sp \in SavePoints, n \in Nat : [sp EXCEPT !.id = n] \in SavePoints
        BY DEF SavePoints
      <4> QED
        BY <4>1, <4>2, <4>3
    <3> QED
      BY <2>2, <2>3, <3>1, <3>2 DEF EnqueueCurrent, PopSavePoint, s
  <2>5. currentSavePoint_.opInfos = <<>>
    <3>1. PICK q \in Seq(SavePoints) : queueSavePoints_' = Append(q, currentSavePoint_)
      BY <2>4
    <3>2. Len(q) + 1 \in DOMAIN queueSavePoints_'
          /\ queueSavePoints_'[Len(q) + 1] = currentSavePoint_
      BY <2>2, <3>1
    <3> QED
      BY <3>2 DEF QueueHoldsNothing
  <2>6. entry[transaction_] = table
    <3>1. Undoes(currentSavePoint_.opInfos, entry[transaction_], table)
      BY <1>1, <2>1 DEF EmInv, TrailOfLevel, NewestSavePoint, d
    <3>2. entry[transaction_] \in Tables
      BY <1>1 DEF EmInv, EntryOfLevel
    <3> QED
      BY <1>1, <2>5, <3>1, <3>2, UndoesNothing
  <2>7. \A i \in 1 .. d - 1 : Undoes(s[i].opInfos, entry[i + BaseId], entry[i + BaseId + 1])
    BY DEF EmInv, TrailOfLevel, d, s
  <2>8. Undoes(currentSavePoint_'.opInfos, entry'[transaction_'], target')
    <3>1. /\ d - 1 \in 1 .. d - 1 /\ d - 1 + BaseId = transaction_ - 1
          /\ d - 1 + BaseId + 1 = transaction_ /\ transaction_ - 1 \in 1 .. transaction_ - 1
      BY <1>1, <2>1
    <3>2. Undoes(s[d - 1].opInfos, entry[transaction_ - 1], entry[transaction_])
      BY <2>7, <3>1
    <3> QED
      BY <1>1, <1>2, <2>2, <2>4, <2>6, <3>1, <3>2
  <2>9. ASSUME NEW i \in 1 .. d - 1 - 1
        PROVE  Undoes(stackSavePoints_'[i].opInfos, entry'[i + BaseId], entry'[i + BaseId + 1])
    <3>1. i \in 1 .. d - 1 /\ i + BaseId \in 1 .. transaction_ - 1
          /\ i + BaseId + 1 \in 1 .. transaction_ - 1
      BY <1>1, <2>1
    <3>2. stackSavePoints_'[i] = s[i]
      BY <2>2, <2>3, <2>4, FrontType
    <3> QED
      BY <1>2, <2>7, <3>1, <3>2
  <2>10. TrailOfLevel'
    <3>1. NewestSavePoint' = currentSavePoint_'
      BY <1>1 DEF NewestSavePoint
    <3> QED
      BY <2>1, <2>8, <2>9, <3>1 DEF TrailOfLevel
  <2>11. TrailOfRollback'
    BY <1>1 DEF TrailOfRollback, Undoing
  <2> QED
    BY <1>1, <1>3, <2>10, <2>11 DEF EmInv
<1> QED
  BY <1>4, <1>5

\* A rollback promises the table its level began with, and that is what there is to undo.
LEMMA RollsBackInv ==
    ASSUME EmInv, EmulationAssumption, IInv', ~Undoing, NEW c \in Cursors, RollsBack(c), Tracked
    PROVE  EmInv' /\ target' = entry[transaction_] /\ (canTransaction => durable' = durable)
<1>1. /\ transaction_ \in Nat /\ transaction_ > 0 /\ transaction_' = transaction_ - 1
      /\ undo.phase = "none" /\ table \in Tables /\ durable \in Tables /\ target = table
      /\ ~canSavePoint /\ ~aborted
  BY ChainShape DEF EmInv, RollsBack, CloseLevel, TrailOfRollback, EmulationAssumption
<1>2. /\ entry' \in Seq(Tables) /\ Len(entry') = transaction_'
      /\ \A i \in 1 .. transaction_ - 1 : entry'[i] = entry[i]
      /\ entry[transaction_] \in Tables
  <2>1. entry[transaction_] \in Tables
    BY <1>1 DEF EmInv, EntryOfLevel
  <2> QED
    BY <1>1, <2>1, FewerLevels DEF EmInv, Tracked
<1>3. CASE RollbackTransaction(c)
  <2>1. /\ Outermost /\ table' = durable /\ durable' = durable /\ ~aborted' /\ undo' = undo
    BY <1>3 DEF RollbackTransaction, EndTransaction
  <2>2. Depth' = 0 /\ ~InTransaction' /\ InTransaction /\ transaction_ = 1
    BY <1>1, <2>1 DEF Depth, InTransaction, Outermost
  <2>3. target' = table' /\ entry[1] = durable
    BY <1>1, <2>1, <2>2 DEF Tracked, TrackTarget, EmInv, EntryOfLevel
  <2>4. EntryOfLevel'
    BY <1>1, <1>2, <2>1, <2>2, <2>3 DEF EntryOfLevel
  <2> QED
    BY <1>1, <2>1, <2>2, <2>3, <2>4, NoLevelInv
<1>4. CASE RollbackEmulated(c)
  <2> DEFINE d == Depth
             s == stackSavePoints_
  <2>1. /\ ~Outermost /\ table' = table /\ durable' = durable /\ ~aborted'
        /\ undo'.phase = "sweep" /\ undo'.opInfos = <<>>
        /\ UNCHANGED spVars
    BY <1>1, <1>4 DEF RollbackEmulated, serverVars
  <2>2. target' = entry[transaction_]
    BY <1>1, <2>1 DEF Tracked, TrackTarget
  <2>3. /\ d \in Nat /\ d > 0 /\ BaseId \in {0, 1} /\ d + BaseId = transaction_
        /\ Depth' = d - 1 /\ BaseId' = BaseId
        /\ (canTransaction => transaction_' > 0)
    BY <1>1, <2>1 DEF Depth, BaseId, Outermost
  <2>4. EntryOfLevel'
    <3>1. InTransaction' => transaction_ > 1 /\ InTransaction
      BY <1>1 DEF InTransaction
    <3>2. InTransaction' => entry'[1] = entry[1]
      BY <1>1, <1>2, <3>1
    <3> QED
      BY <1>2, <2>1, <2>2, <3>1, <3>2 DEF EmInv, EntryOfLevel
  <2>5. Undoes(currentSavePoint_.opInfos, entry[transaction_], table)
    BY <1>1, <2>3 DEF EmInv, TrailOfLevel, NewestSavePoint
  <2>6. TrailOfRollback'
    BY <2>1, <2>2, <2>3, <2>5 DEF TrailOfRollback, Undoing, spVars
  <2>7. \A i \in 1 .. d - 1 : Undoes(s[i].opInfos, entry[i + BaseId], entry[i + BaseId + 1])
    BY DEF EmInv, TrailOfLevel
  <2>8. NewestSavePoint' = s[d - 1]
    BY <2>1, <2>3 DEF NewestSavePoint, spVars
  <2>9. stackSavePoints_' = s
    BY <2>1 DEF spVars
  <2> HIDE DEF d, s
  <2>10. d - 1 > 0 => Undoes(s[d - 1].opInfos, entry'[transaction_'], target')
    <3>1. SUFFICES ASSUME d - 1 > 0
          PROVE  Undoes(s[d - 1].opInfos, entry'[transaction_'], target')
      OBVIOUS
    <3>2. /\ d - 1 \in 1 .. d - 1 /\ d - 1 + BaseId = transaction_ - 1
          /\ d - 1 + BaseId + 1 = transaction_ /\ transaction_ - 1 \in 1 .. transaction_ - 1
      BY <1>1, <2>3, <3>1
    <3>3. Undoes(s[d - 1].opInfos, entry[transaction_ - 1], entry[transaction_])
      BY <2>7, <3>2
    <3> QED
      BY <1>1, <1>2, <2>2, <3>2, <3>3
  <2>11. ASSUME NEW i \in 1 .. d - 1 - 1
         PROVE  Undoes(s[i].opInfos, entry'[i + BaseId], entry'[i + BaseId + 1])
    <3>1. i \in 1 .. d - 1 /\ i + BaseId \in 1 .. transaction_ - 1
          /\ i + BaseId + 1 \in 1 .. transaction_ - 1
      BY <1>1, <2>3
    <3> QED
      BY <1>2, <2>7, <3>1
  <2>12. TrailOfLevel'
    BY <2>3, <2>8, <2>9, <2>10, <2>11 DEF TrailOfLevel
  <2> QED
    BY <2>1, <2>2, <2>4, <2>6, <2>12 DEF EmInv
<1> QED
  BY <1>1, <1>3, <1>4 DEF RollsBack, RollbackServer

\* The levels and what they remember are not touched by a step of a rollback.
LEMMA RollbackStepKeeps ==
    ASSUME EmInv, EmulationAssumption, IInv', RollbackNext, Tracked
    PROVE  /\ transaction_' = transaction_ /\ ~aborted' /\ entry' = entry
           /\ target' = IF undo'.phase = "none" THEN table' ELSE target
           /\ table' = table \/ UndoOp
           /\ Undoing /\ (InTransaction => durable' = durable)
           /\ undo' # undo
           /\ Depth' = Depth /\ BaseId' = BaseId /\ (InTransaction' <=> InTransaction)
<1>1. /\ transaction_ \in Nat /\ undo \in Undos /\ undo' \in Undos
  BY DEF EmInv, IInv, TypeOK
<1>2. /\ transaction_' = transaction_ /\ aborted' = aborted /\ Undoing
      /\ table' = table \/ UndoOp
      /\ InTransaction => durable' = durable
  BY DEF RollbackNext, SweepQueue, UndoOp, UndoCurrent, EndRollback, dbVars, serverVars, Store,
     Undoing
<1>3. undo' # undo
  <2>1. CASE SweepQueue
    <3>1. undo'.left = undo.left - 1 /\ undo.left \in Nat
      BY <1>1, <2>1 DEF SweepQueue, Undos
    <3> QED
      BY <3>1
  <2>2. CASE UndoOp
    <3>1. undo'.opInfos = SubSeq(undo.opInfos, 1, Len(undo.opInfos) - 1)
          /\ undo.opInfos # <<>> /\ undo.opInfos \in Seq(OpInfos)
      BY <1>1, <2>2 DEF UndoOp, Undos
    <3>2. Len(undo'.opInfos) = Len(undo.opInfos) - 1 /\ Len(undo.opInfos) \in Nat
      BY <3>1, FrontLen
    <3> QED
      BY <3>2
  <2>3. CASE UndoCurrent
    BY <1>1, <2>3 DEF UndoCurrent, Undos
  <2>4. CASE EndRollback
    BY <2>4 DEF EndRollback, NoUndo
  <2> QED
    BY <2>1, <2>2, <2>3, <2>4 DEF RollbackNext
<1>4. entry' = entry
  BY <1>1, <1>2, SameLevels DEF EmInv, Tracked
<1>5. Depth' = Depth /\ BaseId' = BaseId /\ (InTransaction' <=> InTransaction)
  BY <1>2 DEF Depth, BaseId, InTransaction
<1>6. target' = IF undo'.phase = "none" THEN table' ELSE target
  BY <1>2 DEF Tracked, TrackTarget, Undoing
<1> QED
  BY <1>2, <1>3, <1>4, <1>5, <1>6 DEF EmInv

\* The savepoints the queue gives up have nothing to undo.
LEMMA SweepQueueInv ==
    ASSUME EmInv, EmulationAssumption, QueueHoldsNothing, IInv', SweepQueue, Tracked
    PROVE  EmInv'
<1>1. /\ transaction_' = transaction_ /\ ~aborted' /\ entry' = entry
      /\ target' = IF undo'.phase = "none" THEN table' ELSE target
      /\ Undoing /\ (InTransaction => durable' = durable)
      /\ Depth' = Depth /\ BaseId' = BaseId /\ (InTransaction' <=> InTransaction)
  BY RollbackStepKeeps DEF RollbackNext
<1>2. undo.phase = "sweep" /\ undo \in Undos /\ undo.left > 0 /\ undo.opInfos = <<>>
      /\ undo.left <= Len(queueSavePoints_) /\ queueSavePoints_ \in Seq(SavePoints)
  BY DEF SweepQueue, EmInv, IInv, TypeOK, QueueUnderOpenLevels
<1>3. Head(queueSavePoints_).opInfos = <<>>
  <2>1. undo.left \in Nat
    BY <1>2 DEF Undos
  <2>2. Head(queueSavePoints_) = queueSavePoints_[1] /\ 1 \in DOMAIN queueSavePoints_
    BY <1>2, <2>1
  <2> QED
    BY <2>2 DEF QueueHoldsNothing
<1>4. undo'.phase = "sweep" /\ undo'.opInfos = <<>>
  BY <1>2, <1>3 DEF SweepQueue, Undos
<1>5. /\ UNCHANGED <<currentSavePoint_, stackSavePoints_, table>>
      /\ NewestSavePoint' = NewestSavePoint
  BY <1>1, <1>2, <1>4 DEF SweepQueue, serverVars, NewestSavePoint
<1>6. target' = target
  BY <1>1, <1>4
<1>7. EntryOfLevel'
  BY <1>1, <1>6 DEF EmInv, EntryOfLevel
<1>8. TrailOfLevel'
  BY <1>1, <1>5, <1>6 DEF EmInv, TrailOfLevel
<1>9. TrailOfRollback'
  BY <1>1, <1>2, <1>4, <1>5, <1>6 DEF EmInv, TrailOfRollback, Undoing
<1> QED
  BY <1>1, <1>7, <1>8, <1>9 DEF EmInv

\* Undoing one operation leaves the others.
LEMMA UndoOpInv ==
    ASSUME EmInv, EmulationAssumption, IInv', UndoOp, Tracked
    PROVE  EmInv'
<1>1. /\ transaction_' = transaction_ /\ ~aborted' /\ entry' = entry
      /\ target' = IF undo'.phase = "none" THEN table' ELSE target
      /\ Undoing /\ (InTransaction => durable' = durable)
      /\ Depth' = Depth /\ BaseId' = BaseId /\ (InTransaction' <=> InTransaction)
  BY RollbackStepKeeps DEF RollbackNext
<1>2. undo \in Undos /\ undo.opInfos # <<>> /\ undo.opInfos \in Seq(OpInfos)
  BY DEF UndoOp, EmInv, IInv, TypeOK, Undos
<1>3. undo.phase = "current"
  <2>1. undo.phase \in {"none", "sweep", "current"}
    BY <1>2 DEF Undos
  <2> QED
    BY <1>1, <1>2, <2>1 DEF EmInv, TrailOfRollback, Undoing
<1>4. /\ undo'.phase = "current"
      /\ undo'.opInfos = SubSeq(undo.opInfos, 1, Len(undo.opInfos) - 1)
      /\ table' = undoOp(table, undo.opInfos[Len(undo.opInfos)])
      /\ UNCHANGED <<currentSavePoint_, stackSavePoints_>>
  BY <1>2, <1>3 DEF UndoOp, Undos, Store, dbVars
<1>5. target' = target /\ NewestSavePoint' = NewestSavePoint
  BY <1>1, <1>3, <1>4 DEF NewestSavePoint
<1>6. EntryOfLevel'
  BY <1>1, <1>5 DEF EmInv, EntryOfLevel
<1>7. TrailOfLevel'
  BY <1>1, <1>4, <1>5 DEF EmInv, TrailOfLevel
<1>8. Undoes(undo'.opInfos, target', table')
  <2>1. Undoes(undo.opInfos, target, table) /\ target \in Tables /\ table \in Tables
    BY <1>3, ChainShape DEF EmInv, TrailOfRollback, EntryOfLevel
  <2> QED
    BY <1>2, <1>4, <1>5, <2>1, UndoesLess
<1>9. TrailOfRollback'
  BY <1>1, <1>4, <1>8 DEF EmInv, TrailOfRollback, Undoing
<1> QED
  BY <1>1, <1>6, <1>7, <1>9 DEF EmInv

\* The savepoint of the level that ends is the one undone; the next becomes the newest.
LEMMA UndoCurrentInv ==
    ASSUME EmInv, EmulationAssumption, IInv', UndoCurrent, Tracked
    PROVE  EmInv'
<1>1. /\ transaction_' = transaction_ /\ ~aborted' /\ entry' = entry
      /\ target' = IF undo'.phase = "none" THEN table' ELSE target
      /\ Undoing /\ (InTransaction => durable' = durable)
      /\ Depth' = Depth /\ BaseId' = BaseId /\ (InTransaction' <=> InTransaction)
  BY RollbackStepKeeps DEF RollbackNext
<1> DEFINE d == Depth
           s == stackSavePoints_
<1>2. /\ undo.phase = "sweep" /\ undo \in Undos /\ s \in Seq(SavePoints) /\ d \in Nat
      /\ currentSavePoint_ # NoSavePoint /\ Len(s) = d /\ table' = table
  BY ChainShape, NullAssumption DEF UndoCurrent, EmInv, IInv, TypeOK, serverVars
<1>3. undo'.phase = "current" /\ undo'.opInfos = currentSavePoint_.opInfos
  BY <1>2 DEF UndoCurrent, Undos
<1>4. d > 0 => /\ currentSavePoint_' = s[d] /\ stackSavePoints_' = SubSeq(s, 1, d - 1)
               /\ \A i \in 1 .. d - 1 : stackSavePoints_'[i] = s[i]
  <2>1. SUFFICES ASSUME d > 0
        PROVE  /\ currentSavePoint_' = s[d] /\ stackSavePoints_' = SubSeq(s, 1, d - 1)
               /\ \A i \in 1 .. d - 1 : stackSavePoints_'[i] = s[i]
    OBVIOUS
  <2>2. s # <<>>
    BY <1>2, <2>1
  <2>3. currentSavePoint_' = s[Len(s)] /\ stackSavePoints_' = SubSeq(s, 1, Len(s) - 1)
    BY <1>2, <2>2 DEF UndoCurrent, PopSavePoint
  <2> HIDE DEF d, s
  <2> QED
    BY <1>2, <2>2, <2>3, FrontType
<1>5. target' = target /\ NewestSavePoint = s[d] /\ NewestSavePoint' = currentSavePoint_'
  BY <1>1, <1>2, <1>3 DEF NewestSavePoint
<1>6. EntryOfLevel'
  BY <1>1, <1>5 DEF EmInv, EntryOfLevel
<1>7. TrailOfLevel'
  <2>1. /\ \A i \in 1 .. d - 1 :
              Undoes(s[i].opInfos, entry[i + BaseId], entry[i + BaseId + 1])
        /\ d > 0 => Undoes(s[d].opInfos, entry[transaction_], target)
    BY <1>5 DEF EmInv, TrailOfLevel
  <2>2. \A i \in 1 .. d - 1 : d > 0 /\ stackSavePoints_'[i] = s[i]
    BY <1>2, <1>4
  <2>3. \A i \in 1 .. Depth' - 1 : i \in 1 .. d - 1
    BY <1>1
  <2> HIDE DEF d, s
  <2>4. \A i \in 1 .. Depth' - 1 :
           Undoes(stackSavePoints_'[i].opInfos, entry'[i + BaseId'], entry'[i + BaseId' + 1])
    BY <1>1, <2>1, <2>2, <2>3
  <2>5. Depth' > 0 => Undoes(NewestSavePoint'.opInfos, entry'[transaction_'], target')
    BY <1>1, <1>4, <1>5, <2>1 DEF d
  <2> QED
    BY <2>4, <2>5 DEF TrailOfLevel
<1>8. TrailOfRollback'
  BY <1>1, <1>2, <1>3, <1>5 DEF EmInv, TrailOfRollback, Undoing
<1> QED
  BY <1>1, <1>6, <1>7, <1>8 DEF EmInv

\* At the end the table is the one that was promised.
LEMMA EndRollbackInv ==
    ASSUME EmInv, EmulationAssumption, IInv', EndRollback, Tracked
    PROVE  EmInv' /\ target = table /\ target' = target
<1>1. /\ transaction_' = transaction_ /\ ~aborted' /\ entry' = entry
      /\ target' = IF undo'.phase = "none" THEN table' ELSE target
      /\ Undoing /\ (InTransaction => durable' = durable)
      /\ Depth' = Depth /\ BaseId' = BaseId /\ (InTransaction' <=> InTransaction)
  BY RollbackStepKeeps DEF RollbackNext
<1>2. /\ undo.phase = "current" /\ undo.opInfos = <<>> /\ undo'.phase = "none" /\ table' = table
  BY DEF EndRollback, NoUndo, serverVars
<1>3. target = table /\ target' = table' /\ target' = target
  <2>1. Undoes(<<>>, target, table) /\ target \in Tables /\ table \in Tables
    BY <1>2, ChainShape DEF EmInv, TrailOfRollback, EntryOfLevel
  <2> QED
    BY <1>1, <1>2, <2>1, UndoesNothing
<1>4. EntryOfLevel'
  BY <1>1, <1>3 DEF EmInv, EntryOfLevel
<1>5. CASE transaction_ = 0
  <2>1. Depth' = 0
    BY <1>1, <1>5 DEF Depth
  <2> QED
    BY <1>1, <1>2, <1>3, <1>4, <2>1, NoLevelInv
<1>6. CASE transaction_ # 0
  <2>1. UNCHANGED spVars
    BY <1>6 DEF EndRollback
  <2>2. /\ NewestSavePoint' = currentSavePoint_ /\ NewestSavePoint = currentSavePoint_
        /\ stackSavePoints_' = stackSavePoints_
    BY <1>2, <2>1 DEF NewestSavePoint, spVars
  <2>3. TrailOfLevel'
    BY <1>1, <1>3, <2>2 DEF EmInv, TrailOfLevel
  <2>4. TrailOfRollback'
    BY <1>2, <1>3 DEF TrailOfRollback, Undoing
  <2> QED
    BY <1>1, <1>3, <1>4, <2>3, <2>4 DEF EmInv
<1> QED
  BY <1>3, <1>5, <1>6

\* What is left of a lost transaction is what was durable.
LEMMA LosesGone ==
    ASSUME EmInv, EmulationAssumption, Next, Tracked, Loses, IInv'
    PROVE  Gone
<1>1. /\ transaction_ \in Nat /\ ~canSavePoint /\ ~aborted
      /\ ~InTransaction => table = durable
  BY DEF EmInv, IInv, TypeOK, EmulationAssumption, NothingPending
<1>2. CASE crash
  BY <1>2 DEF crash, EndTransaction, NoUndo, Gone
<1>3. CASE Finish
  <2>1. ~Undoing \/ crash
    <3>1. ~RollbackNext
      BY <1>3, RollbackStepKeeps DEF Finish
    <3> QED
      BY <3>1 DEF Next, CursorNext, LoopNext, create, destroy, setModeAccess, refreshBuffer,
         refreshNew, Reading, commitBuffer, commitInsert, commitEdit, commitDel, Delivering, doTransaction, commit,
         rollback, rollbackOpened, commitOpened, LoopRollback, LoopCommit, LoopIdle, LoopReturn,
         LoopDestroy, LoopFinish, LoopTurn, LoopEnds, reconnect, Idle
  <2>2. CASE ~Undoing
    <3>1. undo'.phase = "none"
      BY <1>3, <2>2 DEF Finish, Undoing
    <3>2. table' = durable /\ durable' = durable /\ aborted' = FALSE
      BY <1>1, <1>3 DEF Finish, EndTransaction, serverVars, InTransaction
    <3> QED
      BY <1>3, <3>1, <3>2 DEF Finish, Gone
  <2> QED
    BY <1>2, <2>1, <2>2
<1>4. CASE transaction_' < transaction_ /\ EndFails
  BY <1>1, <1>4 DEF EndFails
<1> QED
  BY <1>2, <1>3, <1>4 DEF Loses

\* Every step, with the history it adds, preserves the invariant.
LEMMA EmulatedInv ==
    ASSUME EmInv, EmulationAssumption, FreshDelivery, QueueHoldsNothing, QueueHoldsNothing',
           HNext
    PROVE  EmInv'
<1>1. IInv' /\ Next /\ Tracked
  BY NextInv DEF HNext, EmInv, Tracked
<1>2. CASE Loses
  BY <1>1, <1>2, LosesGone, GoneInv
<1>3. CASE Logs
  BY <1>1, <1>3, LogsInv
<1>4. CASE Pushes
  BY <1>1, <1>4, PushesInv
<1>5. CASE Forgets
  BY <1>1, <1>5, ForgetsInv
<1>6. CASE RollbackNext
  BY <1>1, <1>6, SweepQueueInv, UndoOpInv, UndoCurrentInv, EndRollbackInv DEF RollbackNext
<1>7. CASE \E c \in Cursors : ~Undoing /\ RollsBack(c)
  BY <1>1, <1>7, RollsBackInv
<1>8. CASE UNCHANGED vars
  <2>1. undo' = undo /\ table' = table /\ UNCHANGED <<transaction_, durable, spVars, aborted>>
    BY <1>8 DEF vars, serverVars, dbVars, spVars
  <2>2. entry' = entry
    <3>1. transaction_ \in Nat /\ EntryOfLevel /\ TrackLevels
      BY <1>1 DEF EmInv, IInv, TypeOK, Tracked
    <3> QED
      BY <2>1, <3>1, SameLevels
  <2>3. target' = target
    BY <1>1, <2>1 DEF Tracked, TrackTarget, EmInv, TrailOfRollback, Undoing
  <2> QED
    BY <1>1, <2>1, <2>2, <2>3 DEF EmInv, EntryOfLevel, TrailOfLevel, TrailOfRollback,
       NewestSavePoint, Depth, BaseId, InTransaction, Undoing, spVars
<1> QED
  BY <1>1, <1>2, <1>3, <1>4, <1>5, <1>6, <1>7, <1>8, EmulatedStep DEF EmInv

\* Over an engine with transactions, every step is one of NestedTransactions or a stutter.
LEMMA EmulatedRefined ==
    ASSUME EmInv, EmInv', EmulationAssumption, canTransaction, FreshDelivery,
           QueueHoldsNothing, QueueHoldsNothing', HNext
    PROVE  [NT!Next]_NT!vars
<1>1. Next /\ TrackLevels /\ TrackTarget /\ TrackOperation /\ Tracked /\ IInv'
  BY NextInv DEF HNext, EmInv, Tracked
<1>2. /\ transaction_ \in Nat /\ transaction_' \in Nat /\ entry \in Seq(Tables)
      /\ Len(entry) = transaction_ /\ Len(entry') = transaction_'
      /\ target' \in Tables /\ entry' \in Seq(Tables)
      /\ ~Undoing => target = table
      /\ undo'.phase = "none" => target' = table'
      /\ ~canSavePoint
      /\ InTransaction <=> transaction_ > 0
      /\ entry = <<>> <=> transaction_ = 0
      /\ ~InTransaction => table = durable
  BY <1>1 DEF EmInv, IInv, TypeOK, EntryOfLevel, TrailOfRollback, EmulationAssumption, Undoing,
     InTransaction, TrackTarget, NothingPending
<1>3. CASE Loses
  <2>1. last' = "lose"
    BY <1>1, <1>3 DEF TrackOperation, Loses
  <2>2. Gone
    BY <1>1, <1>3, LosesGone
  <2>3. target' = durable /\ durable' = durable /\ entry' = <<>>
    BY <1>2, <2>2 DEF Gone
  <2> QED
    BY <2>1, <2>3 DEF NT!Next, NT!Lose
<1>4. CASE Pushes /\ ~Loses
  <2>1. transaction_' > transaction_ /\ ~Undoing /\ undo'.phase = "none" /\ table' = table
        /\ durable' = durable
    BY <1>2, <1>4 DEF Pushes, Undoing
  <2>2. last' = "begin" /\ entry' = Append(entry, table)
    BY <1>1, <1>4, <2>1 DEF TrackOperation, TrackLevels, Loses
  <2> QED
    BY <1>2, <2>1, <2>2 DEF NT!Next, NT!Begin
<1>5. CASE Logs /\ ~Loses
  <2>1. transaction_' = transaction_ /\ ~Undoing /\ undo'.phase = "none"
    BY <1>5 DEF Logs, Undoing
  <2>2. last' = "write"
    BY <1>1, <1>2, <1>5, <2>1 DEF TrackOperation, Loses
  <2>3. entry' = entry
    BY <1>1, <1>2, <2>1, SameLevels DEF EmInv
  <2>4. target' \in Tables /\ durable' = IF entry = <<>> THEN target' ELSE durable
    BY <1>2, <1>5, <2>1 DEF Logs
  <2> QED
    BY <2>2, <2>3, <2>4 DEF NT!Next, NT!Write
<1>6. ASSUME transaction_ > 0, transaction_' = transaction_ - 1, ~Undoing, ~Loses
      PROVE  /\ last' = IF \E c \in Cursors : RollsBack(c) THEN "rollback" ELSE "commit"
             /\ entry # <<>> /\ entry' = SubSeq(entry, 1, Len(entry) - 1)
  <2>1. ~(transaction_' > transaction_) /\ transaction_' # transaction_
        /\ transaction_' < transaction_
    BY <1>2, <1>6
  <2>2. last' = IF \E c \in Cursors : RollsBack(c) THEN "rollback" ELSE "commit"
    BY <1>1, <1>6, <2>1 DEF TrackOperation, Loses
  <2>3. entry' = SubSeq(entry, 1, transaction_')
    BY <1>1, <2>1 DEF TrackLevels
  <2> QED
    BY <1>2, <1>6, <2>2, <2>3
<1>7. CASE (\E c \in Cursors : ~Undoing /\ RollsBack(c)) /\ ~Loses
  <2>1. PICK c \in Cursors : ~Undoing /\ RollsBack(c)
    BY <1>7
  <2>2. transaction_ > 0 /\ transaction_' = transaction_ - 1
    BY <2>1 DEF RollsBack, CloseLevel
  <2>3. target' = entry[transaction_] /\ durable' = durable
    BY <1>1, <2>1, RollsBackInv
  <2> QED
    BY <1>2, <1>6, <1>7, <2>1, <2>2, <2>3 DEF NT!Next, NT!Rollback, NT!Pop
<1>8. CASE Forgets /\ ~Loses /\ ~(\E c \in Cursors : ~Undoing /\ RollsBack(c))
  <2>1. transaction_ > 0 /\ transaction_' = transaction_ - 1 /\ ~Undoing /\ undo'.phase = "none"
        /\ table' = table /\ durable' = IF transaction_ = 1 THEN table ELSE durable
    BY <1>8 DEF Forgets, Undoing, Outermost
  <2>2. last' = "commit" /\ entry # <<>> /\ entry' = SubSeq(entry, 1, Len(entry) - 1)
    BY <1>6, <1>8, <2>1
  <2>3. target' = target /\ target = table
    BY <1>2, <2>1
  <2> QED
    BY <1>2, <2>1, <2>2, <2>3 DEF NT!Next, NT!Commit, NT!Pop
<1>9. CASE RollbackNext /\ ~Loses
  <2>1. /\ transaction_' = transaction_ /\ entry' = entry /\ Undoing
        /\ InTransaction => durable' = durable
        /\ target' = IF undo'.phase = "none" THEN table' ELSE target
    BY <1>1, <1>9, RollbackStepKeeps
  <2>2. durable' = durable
    BY <1>2, <2>1 DEF EmInv, TrailOfRollback
  <2>3. last' = last
    BY <1>1, <1>2, <1>9, <2>1 DEF TrackOperation, Loses
  <2>4. target' = target
    <3>1. undo'.phase # "none" \/ EndRollback
      <4>1. undo \in Undos /\ undo.phase # "none"
        BY <2>1 DEF EmInv, IInv, TypeOK, Undoing
      <4> QED
        BY <1>9, <4>1 DEF RollbackNext, SweepQueue, UndoOp, UndoCurrent, Undos
    <3> QED
      BY <1>1, <2>1, <3>1, EndRollbackInv
  <2> QED
    BY <2>1, <2>2, <2>3, <2>4 DEF NT!vars
<1>10. CASE UNCHANGED vars /\ ~Loses
  <2>1. undo' = undo /\ table' = table /\ durable' = durable /\ transaction_' = transaction_
    BY <1>10 DEF vars, serverVars, dbVars
  <2>2. entry' = entry
    BY <1>1, <1>2, <2>1, SameLevels DEF EmInv
  <2>3. target' = target
    BY <1>1, <1>2, <2>1 DEF TrackTarget, Undoing
  <2>4. last' = IF Undoing THEN last ELSE "write"
    BY <1>1, <1>2, <1>10, <2>1 DEF TrackOperation, Loses
  <2>5. CASE Undoing
    BY <2>1, <2>2, <2>3, <2>4, <2>5 DEF NT!vars
  <2>6. CASE ~Undoing
    <3>1. durable' = IF entry = <<>> THEN target' ELSE durable
      BY <1>2, <2>1, <2>3, <2>6
    <3> QED
      BY <1>2, <2>2, <2>4, <2>6, <3>1 DEF NT!Next, NT!Write
  <2> QED
    BY <2>5, <2>6
<1> QED
  BY <1>1, <1>3, <1>4, <1>5, <1>7, <1>8, <1>9, <1>10, EmulatedStep DEF EmInv

-----------------------------------------------------------------------------
\* The trail of every level holds in every state of a behaviour of that kind.
LEMMA EmulatedInvariance ==
    ASSUME EmulationAssumption
    PROVE  HSpec /\ [][FreshDelivery]_hvars /\ []QueueHoldsNothing => []EmInv
<1>1. HInit => EmInv
  <2> SUFFICES ASSUME HInit PROVE EmInv
    OBVIOUS
  <2>1. /\ IInv /\ transaction_ = 0 /\ ~aborted /\ entry = <<>> /\ target = table
        /\ undo.phase = "none" /\ table \in Tables
    BY InitInv DEF HInit, Init, NoUndo
  <2>2. Depth = 0 /\ ~InTransaction
    BY <2>1 DEF Depth, InTransaction
  <2>3. <<>> \in Seq(Tables) /\ Len(<<>>) = 0
    OBVIOUS
  <2> QED
    BY <2>1, <2>2, <2>3 DEF EmInv, EntryOfLevel, TrailOfLevel, TrailOfRollback, Undoing
<1>2. EmInv /\ QueueHoldsNothing /\ QueueHoldsNothing' /\ [HNext]_hvars /\ [FreshDelivery]_hvars
        => EmInv'
  <2> SUFFICES ASSUME EmInv, QueueHoldsNothing, QueueHoldsNothing', [HNext]_hvars,
                      [FreshDelivery]_hvars
               PROVE  EmInv'
    OBVIOUS
  <2>1. CASE UNCHANGED hvars
    <3>1. IInv'
      BY <2>1, NextInv DEF EmInv, hvars
    <3> QED
      BY <2>1, <3>1 DEF hvars, vars, serverVars, dbVars, EmInv, EntryOfLevel, TrailOfLevel,
         TrailOfRollback, NewestSavePoint, Depth, BaseId, InTransaction, Undoing
  <2>2. CASE HNext /\ FreshDelivery
    BY <2>2, EmulatedInv
  <2> QED
    BY <2>1, <2>2
<1> QED
  BY <1>1, <1>2, PTL DEF HSpec

(***************************************************************************)
(* The savepoints the program emulates implement nested transactions over  *)
(* an engine that has transactions and no savepoints (SQLite), to any      *)
(* depth, for any number of cursors and any table, with refused rollbacks, *)
(* reconnections, destructions of cursors and crashes at any point of a    *)
(* rollback, as long as no record is delivered from a stale copy and no    *)
(* emulated level that did something is committed into another one.        *)
(***************************************************************************)
THEOREM EmulatedNestingImplemented ==
    ASSUME EmulationAssumption, canTransaction
    PROVE  HSpec /\ [][FreshDelivery]_hvars /\ []QueueHoldsNothing => Nested
<1>1. HInit => NT!Init
  BY InitRefined
<1>2. EmInv /\ EmInv' /\ QueueHoldsNothing /\ QueueHoldsNothing' /\ [HNext]_hvars
        /\ [FreshDelivery]_hvars => [NT!Next]_NT!vars
  <2> SUFFICES ASSUME EmInv, EmInv', QueueHoldsNothing, QueueHoldsNothing', [HNext]_hvars,
                      [FreshDelivery]_hvars
               PROVE  [NT!Next]_NT!vars
    OBVIOUS
  <2>1. CASE UNCHANGED hvars
    BY <2>1 DEF hvars, vars, serverVars, NT!vars
  <2>2. CASE HNext /\ FreshDelivery
    BY <2>2, EmulatedRefined
  <2> QED
    BY <2>1, <2>2
<1> QED
  BY <1>1, <1>2, EmulatedInvariance, PTL DEF HSpec, Nested, NT!Spec

(***************************************************************************)
(* There, and over an engine without transactions (MySQL without InnoDB),  *)
(* the undoing of an emulated level ends with the table as it was when the *)
(* level began.                                                            *)
(***************************************************************************)
THEOREM EmulatedRollbackIsExact ==
    ASSUME EmulationAssumption
    PROVE  HSpec /\ [][FreshDelivery]_hvars /\ []QueueHoldsNothing => RollbackRestores
<1>1. EmInv /\ QueueHoldsNothing /\ QueueHoldsNothing' /\ [HNext]_hvars /\ [FreshDelivery]_hvars
        => [RollbackStep]_hvars
  <2> SUFFICES ASSUME EmInv, [HNext]_hvars PROVE [RollbackStep]_hvars
    OBVIOUS
  <2>1. CASE UNCHANGED hvars
    BY <2>1
  <2>2. CASE HNext
    <3>1. IInv' /\ Tracked /\ ~canSavePoint
      BY <2>2, NextInv DEF HNext, EmInv, Tracked, EmulationAssumption
    <3> QED
      BY <3>1, EndRollbackInv DEF RollbackStep, RollbackServer
  <2> QED
    BY <2>1, <2>2
<1> QED
  BY <1>1, EmulatedInvariance, PTL DEF HSpec, RollbackRestores

(***************************************************************************)
(* When both conditions hold.  A program that never has two emulated       *)
(* levels open has nothing in the queue.  With one cursor, whose rollbacks *)
(* the user accepts where the engine has transactions, and which reads its *)
(* record again whenever the mode is set, no copy it delivers is stale.    *)
(* setModeAccess on its own leaves the copy of an earlier reading in       *)
(* place: that the callers read again is an assumption, not a property.    *)
(***************************************************************************)
OneEmulatedLevel == MaxLevel <= 1 + BaseId

OneCursor ==
    /\ \A c, d \in Cursors : c = d
    /\ canTransaction => RollbacksAccepted

ReadsInMode == "stale" \notin Events

QueueInv == transaction_ <= MaxLevel /\ queueSavePoints_ = <<>>

\* No step puts a savepoint into the queue.
LEMMA QueueStaysEmpty ==
    ASSUME IInv, EmulationAssumption, OneEmulatedLevel, QueueInv, [Next]_vars
    PROVE  QueueInv'
<1>1. /\ transaction_ \in Nat /\ MaxLevel \in Nat /\ ~canSavePoint /\ undo \in Undos
      /\ transaction_ <= MaxLevel /\ queueSavePoints_ = <<>>
  BY BoundsAssumption DEF IInv, TypeOK, EmulationAssumption, QueueInv
<1>2. ASSUME UNCHANGED <<transaction_, queueSavePoints_>>
      PROVE  QueueInv'
  BY <1>1, <1>2 DEF QueueInv
<1>3. ASSUME transaction_' = 0, queueSavePoints_' = <<>>
      PROVE  QueueInv'
  BY <1>1, <1>3 DEF QueueInv
<1>4. ASSUME transaction_ > 0, transaction_' = transaction_ - 1, queueSavePoints_' = <<>>
      PROVE  QueueInv'
  BY <1>1, <1>4 DEF QueueInv
<1>5. ASSUME NEW c \in Cursors, NEW notify \in BOOLEAN, doCommit(c, notify)
      PROVE  QueueInv'
  <2>1. transaction_ > 0 /\ transaction_' = transaction_ - 1
    BY <1>5 DEF doCommit, CloseLevel
  <2>2. CASE CommitTransaction(c, notify)
    BY <1>1, <1>4, <2>1, <2>2 DEF CommitTransaction, ClearSavePoints
  <2>3. CASE EndFails
    BY <1>1, <2>3 DEF EndFails
  <2>4. CASE CommitSavePoint(c, notify)
    <3>1. LastSavePoint
      BY <1>1, <2>1, <2>4
         DEF CommitSavePoint, Outermost, LastSavePoint, OneEmulatedLevel, BaseId
    <3> QED
      BY <1>1, <1>4, <2>1, <2>4, <3>1 DEF CommitSavePoint, ClearSavePoints
  <2> QED
    BY <1>5, <2>2, <2>3, <2>4 DEF doCommit
<1>6. ASSUME NEW c \in Cursors, doRollback(c)
      PROVE  QueueInv'
  <2>1. transaction_ > 0 /\ transaction_' = transaction_ - 1
    BY <1>6 DEF doRollback, CloseLevel
  <2>2. queueSavePoints_' = <<>>
    BY <1>1, <1>6 DEF doRollback, RollbackTransaction, RollbackServer, RollbackEmulated, EndFails,
       ClearSavePoints, spVars
  <2> QED
    BY <1>4, <2>1, <2>2
<1>7. ASSUME NEW c \in Cursors, doTransaction(c)
      PROVE  QueueInv'
  <2>1. transaction_ < MaxLevel /\ transaction_' = transaction_ + 1
    BY <1>7 DEF doTransaction, OpenLevel
  <2>2. queueSavePoints_' = <<>>
    BY <1>1, <1>7 DEF doTransaction, BeginTransaction, BeginSavePoint, ClearSavePoints
  <2> QED
    BY <1>1, <2>1, <2>2 DEF QueueInv
<1>8. ASSUME NEW c \in Cursors, CursorNext(c)
      PROVE  QueueInv'
  <2>1. CASE create(c) \/ destroy(c) \/ commitBuffer(c)
    BY <1>2, <2>1 DEF create, destroy, Die, StartLoop, commitBuffer, commitInsert, commitEdit,
       commitDel, Delivering, dbVars, spVars
  <2>2. CASE \/ \E m \in Modes : setModeAccess(c, m) \/ \E k \in Keys : refreshBuffer(c, m, k)
             \/ refreshNew(c)
    BY <1>2, <2>2 DEF setModeAccess, refreshBuffer, refreshNew, Reading, dbVars
  <2>3. CASE doTransaction(c)
    BY <1>7, <2>3
  <2>4. CASE (\E notify \in BOOLEAN : commit(c, notify)) \/ rollback(c)
    BY <1>5, <1>6, <2>4 DEF commit, rollback
  <2>5. CASE \E n \in {1, AllOpened(c)} : rollbackOpened(c, n) \/ commitOpened(c, n)
    BY <1>2, <2>5 DEF rollbackOpened, commitOpened, StartLoop, dbVars
  <2> QED
    BY <1>8, <2>1, <2>2, <2>3, <2>4, <2>5 DEF CursorNext
<1>9. CASE RollbackNext
  <2>1. ~SweepQueue
    <3>1. SUFFICES ASSUME SweepQueue PROVE FALSE
      OBVIOUS
    <3>2. undo.left > 0 /\ undo.left <= Len(queueSavePoints_) /\ undo.left \in Nat
      BY <1>1, <3>1 DEF SweepQueue, IInv, QueueUnderOpenLevels, Undos
    <3> QED
      BY <1>1, <3>2
  <2>2. CASE UndoOp \/ UndoCurrent
    BY <1>2, <2>2 DEF UndoOp, UndoCurrent, dbVars
  <2>3. CASE EndRollback
    BY <1>1, <1>2, <2>3 DEF EndRollback, ClearSavePoints, spVars
  <2> QED
    BY <1>9, <2>1, <2>2, <2>3 DEF RollbackNext
<1>10. CASE LoopNext
  <2>1. loop.cur \in Cursors
    BY <1>10 DEF IInv, Control, LoopNext, LoopRollback, LoopCommit, LoopIdle, LoopReturn,
       LoopDestroy, LoopFinish, LoopTurn, LoopEnds, Looping
  <2>2. CASE LoopRollback \/ LoopCommit
    BY <1>5, <1>6, <2>1, <2>2 DEF LoopRollback, LoopCommit
  <2>3. CASE LoopIdle \/ LoopReturn \/ LoopDestroy
    BY <1>2, <2>3 DEF LoopIdle, LoopReturn, LoopDestroy, Die, dbVars, spVars
  <2>4. CASE LoopFinish
    BY <1>3, <2>4 DEF LoopFinish, Finish, ClearSavePoints
  <2> QED
    BY <1>10, <2>2, <2>3, <2>4 DEF LoopNext
<1>11. CASE reconnect
  BY <1>2, <1>3, <1>11 DEF reconnect, StartLoop, Finish, ClearSavePoints, dbVars
<1>12. CASE crash
  BY <1>3, <1>12 DEF crash, ClearSavePoints
<1>13. CASE UNCHANGED vars
  BY <1>2, <1>13 DEF vars, dbVars
<1> QED
  BY <1>8, <1>9, <1>10, <1>11, <1>12, <1>13 DEF Next

\* With at most one emulated level nothing waits in the queue of savepoints.
LEMMA QueueInvariance ==
    ASSUME EmulationAssumption, OneEmulatedLevel
    PROVE  Init /\ [][Next]_vars => []QueueHoldsNothing
<1>1. Init => IInv /\ QueueInv
  <2> SUFFICES ASSUME Init PROVE IInv /\ QueueInv
    OBVIOUS
  <2>1. transaction_ = 0 /\ queueSavePoints_ = <<>> /\ MaxLevel \in Nat
    BY BoundsAssumption DEF Init
  <2> QED
    BY <2>1, InitInv DEF QueueInv
<1>2. IInv /\ QueueInv /\ [Next]_vars => IInv' /\ QueueInv'
  BY NextInv, QueueStaysEmpty
<1>3. QueueInv => QueueHoldsNothing
  <2>1. \A i \in DOMAIN << >> : FALSE
    OBVIOUS
  <2> QED
    BY <2>1 DEF QueueInv, QueueHoldsNothing
<1> QED
  BY <1>1, <1>2, <1>3, PTL

(***************************************************************************)
(* With one cursor, the copy it is about to deliver from is what the table *)
(* has whenever the program waits for a call or ends a loop: whatever      *)
(* changes the table leaves the cursor in BROWSE, where the copy stays but *)
(* is not delivered, except the reconnection that finds a transaction      *)
(* open, which only comes after the cursor has rolled its levels back.     *)
(***************************************************************************)
FreshCopy(c) == modeAccess_[c] \in {"EDIT", "DEL"} => Fresh(c)

CopyInv ==
    /\ ~aborted
    /\ ~Undoing => \A c \in Cursors : FreshCopy(c)
    /\ canTransaction => \A c \in Cursors : transaction_ <= AllOpened(c)
    /\ canTransaction /\ transaction_ > 0 => lastActiveCursor_ # NoCursor
    /\ canTransaction /\ Looping /\ loop.then # "return" => transaction_ <= loop.left

\* A copy that is not to be delivered, or is kept while the table stays, is not stale.
LEMMA CopyStep ==
    ASSUME IInv, OneCursor, CopyInv,
           \/ \E c \in Cursors : SetAccess(c, "BROWSE")
           \/ UNCHANGED <<table, modeAccess_, readVars>> /\ ~Undoing
           \/ Undoing'
           \/ modeAccess_' = [c \in Cursors |-> "BROWSE"]
    PROVE  ~Undoing' => \A c \in Cursors : FreshCopy(c)'
<1>1. modeAccess_ \in [Cursors -> Modes]
  BY DEF IInv, TypeOK
<1>2. CASE \E c \in Cursors : SetAccess(c, "BROWSE")
  BY <1>1, <1>2 DEF OneCursor, SetAccess, FreshCopy
<1>3. CASE UNCHANGED <<table, modeAccess_, readVars>> /\ ~Undoing
  BY <1>3 DEF CopyInv, FreshCopy, Fresh
<1>4. CASE modeAccess_' = [c \in Cursors |-> "BROWSE"]
  BY <1>4 DEF FreshCopy
<1> QED
  BY <1>2, <1>3, <1>4

\* Whatever leaves the levels, their records and the loop leaves what is said of them.
LEMMA LevelsSame ==
    ASSUME CopyInv, UNCHANGED <<transaction_, transactionsOpened_, lastActiveCursor_>>,
           canTransaction /\ Looping' /\ loop'.then # "return" => transaction_ <= loop'.left,
           ~aborted', ~Undoing' => \A c \in Cursors : FreshCopy(c)'
    PROVE  CopyInv'
<1>1. canTransaction => \A c \in Cursors : transaction_' <= AllOpened(c)'
  BY DEF CopyInv, AllOpened
<1>2. canTransaction /\ transaction_' > 0 => lastActiveCursor_' # NoCursor
  BY DEF CopyInv
<1> QED
  BY <1>1, <1>2 DEF CopyInv

\* Without a level, and with the cursors' records kept or not, nothing is owed.
LEMMA LevelsGone ==
    ASSUME IInv', CopyInv, transaction_' = 0, ~aborted',
           ~Undoing' => \A c \in Cursors : FreshCopy(c)'
    PROVE  CopyInv'
<1>1. /\ transactionsOpened_' \in [Cursors -> Seq(Nat)] /\ loop' \in Loops
  BY DEF IInv, TypeOK
<1>2. \A c \in Cursors : transaction_' <= AllOpened(c)'
  <2>1. \A s \in Seq(Nat) : 0 <= Len(s)
    OBVIOUS
  <2> QED
    BY <1>1, <2>1 DEF AllOpened
<1>3. transaction_' <= loop'.left
  <2>1. \A n \in Nat : 0 <= n
    OBVIOUS
  <2> QED
    BY <1>1, <2>1 DEF Loops
<1>4. ~(transaction_' > 0)
  OBVIOUS
<1> QED
  BY <1>2, <1>3, <1>4 DEF CopyInv

\* Ending a level, in a loop or not.
LEMMA LevelEnded ==
    ASSUME IInv, IInv', OneCursor, CopyInv, NEW c \in Cursors, CloseLevel(c), ~aborted',
           ~Undoing' => \A d \in Cursors : FreshCopy(d)',
           transaction_' > 0 => lastActiveCursor_' = lastActiveCursor_,
           loop' = loop \/ Turn
    PROVE  CopyInv'
<1>1. /\ transaction_ \in Nat /\ transaction_' \in Nat /\ transaction_ > 0
      /\ transaction_' = transaction_ - 1 /\ loop \in Loops /\ loop' \in Loops
  BY DEF IInv, TypeOK, CloseLevel
<1>2. /\ AllOpened(c) \in Nat /\ AllOpened(c)' \in Nat
      /\ AllOpened(c)' = IF AllOpened(c) = 0 THEN 0 ELSE AllOpened(c) - 1
  BY CloseOnRecord DEF IInv
<1>3. canTransaction => \A d \in Cursors : transaction_' <= AllOpened(d)'
  <2>1. SUFFICES ASSUME canTransaction, NEW d \in Cursors PROVE transaction_' <= AllOpened(d)'
    OBVIOUS
  <2>2. d = c
    BY DEF OneCursor
  <2>3. transaction_ <= AllOpened(c)
    BY <2>1 DEF CopyInv
  <2>4. transaction_' <= AllOpened(c)'
    BY <1>1, <1>2, <2>3
  <2> QED
    BY <2>2, <2>4
<1>4. canTransaction /\ transaction_' > 0 => lastActiveCursor_' # NoCursor
  BY <1>1 DEF CopyInv
<1>5. canTransaction /\ Looping' /\ loop'.then # "return" => transaction_' <= loop'.left
  <2>1. SUFFICES ASSUME canTransaction, Looping', loop'.then # "return"
        PROVE  transaction_' <= loop'.left
    OBVIOUS
  <2>2. /\ loop.left \in Nat /\ loop.then = loop'.then /\ loop.op = loop'.op
        /\ loop'.left \in {loop.left, loop.left - 1}
    BY <1>1 DEF Turn, Loops
  <2>3. transaction_ <= loop.left
    BY <2>1, <2>2 DEF CopyInv, Looping
  <2> QED
    BY <1>1, <2>2, <2>3
<1> QED
  BY <1>3, <1>4, <1>5 DEF CopyInv

\* The end of a level by commit leaves the copies fresh.
LEMMA CommitCopies ==
    ASSUME IInv, IInv', EmulationAssumption, OneCursor, CopyInv, ~Undoing,
           NEW c \in Cursors, NEW notify \in BOOLEAN, doCommit(c, notify), loop' = loop \/ Turn
    PROVE  CopyInv'
<1>1. CloseLevel(c) /\ ~canSavePoint /\ undo' = undo /\ ~aborted
      /\ transaction_ \in Nat /\ transaction_' = transaction_ - 1
  BY DEF doCommit, EmulationAssumption, CopyInv, CloseLevel, IInv, TypeOK
<1>2. CASE CommitTransaction(c, notify)
  <2>1. transaction_' = 0 /\ ~aborted' /\ table' = table
    BY <1>1, <1>2 DEF CommitTransaction, EndTransaction, Outermost
  <2>2. SetAccess(c, "BROWSE") \/ UNCHANGED <<table, modeAccess_, readVars>>
    BY <1>2, <2>1 DEF CommitTransaction, Notify, Browse
  <2>3. ~Undoing' => \A d \in Cursors : FreshCopy(d)'
    BY <2>2, CopyStep
  <2> QED
    BY <2>1, <2>3, LevelsGone
<1>3. CASE CommitSavePoint(c, notify)
  <2>1. ~aborted' /\ table' = table /\ lastActiveCursor_' = lastActiveCursor_
    BY <1>1, <1>3 DEF CommitSavePoint
  <2>2. SetAccess(c, "BROWSE") \/ UNCHANGED <<table, modeAccess_, readVars>>
    BY <1>3, <2>1 DEF CommitSavePoint, Notify, Browse
  <2>3. ~Undoing' => \A d \in Cursors : FreshCopy(d)'
    BY <2>2, CopyStep
  <2> QED
    BY <1>1, <2>1, <2>3, LevelEnded
<1> QED
  BY <1>1, <1>2, <1>3 DEF doCommit, EndFails

\* The end of a level by rollback ends the reading, or leaves it to the end of the undoing.
LEMMA RollbackCopies ==
    ASSUME IInv, IInv', EmulationAssumption, OneCursor, CopyInv, ~Undoing,
           NEW c \in Cursors, doRollback(c), loop' = loop \/ Turn
    PROVE  CopyInv'
<1>1. CloseLevel(c) /\ ~canSavePoint /\ ~aborted
      /\ transaction_ \in Nat /\ transaction_' = transaction_ - 1
  BY DEF doRollback, EmulationAssumption, CopyInv, CloseLevel, IInv, TypeOK
<1>2. CASE RollbackTransaction(c)
  <2>1. transaction_' = 0 /\ ~aborted' /\ SetAccess(c, "BROWSE")
    BY <1>1, <1>2 DEF RollbackTransaction, EndTransaction, Outermost, Browse
  <2>2. ~Undoing' => \A d \in Cursors : FreshCopy(d)'
    BY <2>1, CopyStep
  <2> QED
    BY <2>1, <2>2, LevelsGone
<1>3. CASE RollbackEmulated(c)
  <2>1. ~aborted' /\ lastActiveCursor_' = lastActiveCursor_ /\ Undoing'
    BY <1>1, <1>3 DEF RollbackEmulated, serverVars, Undoing
  <2> QED
    BY <1>1, <2>1, LevelEnded
<1> QED
  BY <1>1, <1>2, <1>3 DEF doRollback, EndFails, RollbackServer

\* A delivery returns its cursor to BROWSE, or leaves the table.
LEMMA DeliverCopies ==
    ASSUME IInv, IInv', EmulationAssumption, OneCursor, ReadsInMode, CopyInv, NEW c \in Cursors,
           commitBuffer(c)
    PROVE  CopyInv'
<1> DEFINE Left == SetAccess(c, "BROWSE") \/ UNCHANGED <<table, modeAccess_, readVars>>
<1>1. /\ UNCHANGED <<transaction_, transactionsOpened_, lastActiveCursor_, loop, undo>>
      /\ ~Undoing /\ ~Looping
  BY DEF commitBuffer, commitInsert, commitEdit, commitDel, Delivering, Idle
<1>2. /\ table \in Tables /\ ~canSavePoint /\ ~aborted
      /\ "editKey" \notin Events /\ "unchecked" \notin Events /\ "stale" \notin Events
  BY DEF IInv, TypeOK, EmulationAssumption, ReadsInMode, CopyInv
<1>3. ASSUME modeAccess_[c] \in {"EDIT", "DEL"}
      PROVE  /\ bufferCopy_[c] \in Records /\ bufferCopy_[c].key \in Keys
             /\ bufferCopy_[c] # NoBuffer
             /\ table[bufferCopy_[c].key] = bufferCopy_[c].value
             /\ modeAccess_[c] = "EDIT" => editIndex[c] = bufferCopy_[c].key
  <2>1. Fresh(c)
    BY <1>1, <1>3 DEF CopyInv, FreshCopy
  <2>2. bufferCopy_[c] \in Records
    BY <2>1 DEF IInv, TypeOK, Fresh
  <2> QED
    BY <2>1, <2>2 DEF Fresh, Records
<1>4. ASSUME NEW t, NEW op, NEW r \in Records, NEW veto \in BOOLEAN, Accept(c, t, op, r, veto),
             undoOp(t, [op |-> op, buffer |-> r]) = table
      PROVE  ~aborted' /\ Left
  BY <1>2, <1>4, NullAssumption DEF Accept, Store, Browse
<1>5. ASSUME NEW r \in Records, NEW veto \in BOOLEAN, commitInsert(c, r, veto)
      PROVE  ~aborted' /\ Left
  <2>1. ~Exists(table, r.key)
    BY <1>2, <1>5 DEF commitInsert
  <2>2. Accept(c, InsertRow(table, r), "insert", r, veto)
    BY <1>5, <2>1 DEF commitInsert
  <2>3. undoOp(InsertRow(table, r), [op |-> "insert", buffer |-> r]) = table
    BY <1>2, <2>1, InsertReverts
  <2> QED
    BY <1>4, <2>2, <2>3
<1>6. ASSUME NEW r \in Records, NEW veto \in BOOLEAN, commitEdit(c, r, veto)
      PROVE  ~aborted' /\ Left
  <2> DEFINE old == bufferCopy_[c]
  <2>1. modeAccess_[c] = "EDIT"
    BY <1>6 DEF commitEdit, Delivering
  <2>2. old \in Records /\ table[old.key] = old.value /\ editIndex[c] = old.key
    BY <1>3, <2>1
  <2>3. CASE ~Modified(c, r)
    <3>1. Accept(c, table, "edit", old, veto)
      BY <1>6, <2>3 DEF commitEdit
    <3>2. undoOp(table, [op |-> "edit", buffer |-> old]) = table
      BY <1>2, <2>2, EditReverts
    <3> HIDE DEF old, Left
    <3> QED
      BY <1>4, <2>2, <3>1, <3>2
  <2>4. CASE Modified(c, r)
    <3>1. Written(c, r).key = old.key /\ Written(c, r) = r
      <4>1. Written(c, r).key = old.key
        BY <1>2, <1>6, <2>2, <2>4 DEF commitEdit
      <4>2. r \in [key : Keys, value : Values]
        BY DEF Records
      <4> QED
        BY <2>2, <4>1, <4>2 DEF Written
    <3>2. Accept(c, UpdateRow(table, old.key, r), "edit", old, veto)
      BY <1>6, <2>2, <2>4, <3>1 DEF commitEdit, UpdateClashes
    <3>3. undoOp(UpdateRow(table, old.key, r), [op |-> "edit", buffer |-> old]) = table
      BY <1>2, <2>2, <3>1, EditReverts
    <3> HIDE DEF old, Left
    <3> QED
      BY <1>4, <2>2, <3>2, <3>3
  <2> QED
    BY <2>3, <2>4
<1>7. ASSUME NEW k \in Keys, NEW veto \in BOOLEAN, commitDel(c, k, veto)
      PROVE  ~aborted' /\ Left
  <2> DEFINE old == bufferCopy_[c]
  <2>1. modeAccess_[c] = "DEL"
    BY <1>7 DEF commitDel, Delivering
  <2>2. old \in Records /\ table[old.key] = old.value
    BY <1>3, <2>1
  <2>3. Accept(c, DeleteRow(table, old.key), "del", old, veto)
    BY <1>2, <1>7 DEF commitDel, DeletesKey
  <2>4. undoOp(DeleteRow(table, old.key), [op |-> "del", buffer |-> old]) = table
    BY <1>2, <2>2, DeleteReverts
  <2> HIDE DEF old, Left
  <2> QED
    BY <1>4, <2>2, <2>3, <2>4
<1>8. ~aborted' /\ Left
  <2> HIDE DEF Left
  <2> QED
    BY <1>5, <1>6, <1>7 DEF commitBuffer
<1>9. ~Undoing' => \A d \in Cursors : FreshCopy(d)'
  BY <1>1, <1>8, CopyStep
<1> QED
  BY <1>1, <1>8, <1>9, LevelsSame DEF Looping

\* A new level leaves the table and the copies, and is put on the record of the cursor.
LEMMA OpenCopies ==
    ASSUME IInv, IInv', EmulationAssumption, OneCursor, CopyInv, NEW c \in Cursors,
           doTransaction(c)
    PROVE  CopyInv'
<1>1. /\ ~canSavePoint /\ ~aborted /\ transaction_ \in Nat
      /\ transactionsOpened_ \in [Cursors -> Seq(Nat)] /\ NoCursor \notin Cursors
  BY NullAssumption DEF IInv, TypeOK, EmulationAssumption, CopyInv
<1>2. /\ OpenLevel(c) /\ (BeginTransaction(c) \/ BeginSavePoint)
      /\ UNCHANGED <<modeAccess_, readVars, undo, loop>> /\ ~Undoing /\ ~Looping
  BY DEF doTransaction, Idle
<1>3. /\ table' = table /\ ~aborted'
      /\ canTransaction /\ transaction_ = 0 => lastActiveCursor_' = c
      /\ canTransaction /\ transaction_ # 0 => lastActiveCursor_' = lastActiveCursor_
  <2>1. CASE BeginTransaction(c)
    BY <1>1, <2>1 DEF BeginTransaction, serverVars
  <2>2. CASE BeginSavePoint
    BY <1>1, <2>2 DEF BeginSavePoint
  <2> QED
    BY <1>2, <2>1, <2>2
<1>4. ~Undoing' => \A d \in Cursors : FreshCopy(d)'
  BY <1>2, <1>3, CopyStep
<1>5. canTransaction => \A d \in Cursors : transaction_' <= AllOpened(d)'
  <2>1. SUFFICES ASSUME canTransaction, NEW d \in Cursors PROVE transaction_' <= AllOpened(d)'
    OBVIOUS
  <2>2. d = c
    BY DEF OneCursor
  <2>3. PICK s \in Seq(Nat) : s = transactionsOpened_[c]
    BY <1>1
  <2>4. transaction_ <= Len(s) /\ Len(s) \in Nat
    BY <2>1, <2>3 DEF CopyInv, AllOpened
  <2>5. transactionsOpened_'[c] = Append(s, transaction_ + 1) /\ transaction_' = transaction_ + 1
    BY <1>1, <1>2, <2>3 DEF OpenLevel
  <2>6. Len(Append(s, transaction_ + 1)) = Len(s) + 1
    BY <1>1
  <2> QED
    BY <1>1, <2>2, <2>4, <2>5, <2>6 DEF AllOpened
<1>6. canTransaction /\ transaction_' > 0 => lastActiveCursor_' # NoCursor
  <2>1. SUFFICES ASSUME canTransaction PROVE lastActiveCursor_' # NoCursor
    OBVIOUS
  <2>2. CASE transaction_ = 0
    BY <1>1, <1>3, <2>1, <2>2
  <2>3. CASE transaction_ # 0
    <3>1. transaction_ > 0
      BY <1>1, <2>3
    <3> QED
      BY <1>1, <1>3, <2>1, <3>1 DEF CopyInv
  <2> QED
    BY <2>2, <2>3
<1>7. ~Looping'
  BY <1>2 DEF Looping
<1> QED
  BY <1>3, <1>4, <1>5, <1>6, <1>7 DEF CopyInv

\* Every step keeps the copies fresh.
LEMMA CopyInvStep ==
    ASSUME IInv, IInv', EmulationAssumption, OneCursor, ReadsInMode, CopyInv, [Next]_vars
    PROVE  CopyInv'
<1>1. /\ ~canSavePoint /\ ~aborted /\ transaction_ \in Nat /\ loop \in Loops
      /\ transactionsOpened_ \in [Cursors -> Seq(Nat)]
      /\ modeAccess_ \in [Cursors -> Modes]
      /\ bufferCopy_ \in [Cursors -> Records \cup {NoBuffer}]
      /\ editIndex \in [Cursors -> Keys \cup {NoBuffer}] /\ table \in Tables
      /\ Looping => loop.cur \in Cursors
      /\ Undoing => undo.cur \in Cursors
      /\ (~InTransaction => table = durable)
  BY DEF IInv, TypeOK, EmulationAssumption, CopyInv, Control, NothingPending
<1>2. ASSUME UNCHANGED <<table, aborted, modeAccess_, readVars, undo, transaction_,
                         transactionsOpened_, lastActiveCursor_>>,
             canTransaction /\ Looping' /\ loop'.then # "return" => transaction_ <= loop'.left
      PROVE  CopyInv'
  <2>1. CASE Undoing
    <3>1. Undoing'
      BY <1>2, <2>1 DEF Undoing
    <3> QED
      BY <1>1, <1>2, <3>1, LevelsSame
  <2>2. CASE ~Undoing
    BY <1>1, <1>2, <2>2, CopyStep, LevelsSame
  <2> QED
    BY <2>1, <2>2
<1>3. ASSUME UNCHANGED vars
      PROVE  CopyInv'
  <2>1. canTransaction /\ Looping' /\ loop'.then # "return" => transaction_ <= loop'.left
    BY <1>3 DEF vars, CopyInv, Looping
  <2> QED
    BY <1>2, <1>3, <2>1 DEF vars, serverVars, dbVars, cursorVars
<1>4. ASSUME NEW op, NEW c \in Cursors, NEW n, NEW then, StartLoop(op, c, n, then),
             then # "return" => n = AllOpened(c)
      PROVE  CopyInv'
  <2>1. loop'.left = n /\ loop'.then = then
    BY <1>4 DEF StartLoop
  <2>2. canTransaction /\ loop'.then # "return" => transaction_ <= loop'.left
    BY <1>4, <2>1 DEF CopyInv
  <2> QED
    BY <1>2, <1>4, <2>2 DEF StartLoop, serverVars, dbVars, cursorVars
<1>5. ASSUME NEW c \in Cursors, Die(c), ~Looping', canTransaction => transaction_ = 0
      PROVE  CopyInv'
  <2>1. ~aborted' /\ SetAccess(c, "BROWSE") /\ transaction_' = transaction_ /\ undo' = undo
    BY <1>1, <1>5 DEF Die, Unread, serverVars
  <2>2. ~Undoing' => \A d \in Cursors : FreshCopy(d)'
    BY <2>1, CopyStep
  <2>3. CASE canTransaction
    <3>1. transaction_' = 0
      BY <1>5, <2>1, <2>3
    <3> QED
      BY <2>1, <2>2, <3>1, LevelsGone
  <2>4. CASE ~canTransaction
    BY <2>1, <2>2, <2>4 DEF CopyInv
  <2> QED
    BY <2>3, <2>4
<1>6. ASSUME Finish, ~Undoing, canTransaction => transaction_ = 0
      PROVE  CopyInv'
  <2>1. UNCHANGED <<table, aborted, modeAccess_, readVars>> /\ transaction_' = 0
    BY <1>6, <1>1 DEF Finish, serverVars, cursorVars
  <2>2. ~Undoing' => \A d \in Cursors : FreshCopy(d)'
    BY <1>6, <2>1, CopyStep
  <2> QED
    BY <1>1, <2>1, <2>2, LevelsGone
<1>7. ASSUME NEW c \in Cursors, CursorNext(c)
      PROVE  CopyInv'
  <2>1. CASE create(c)
    <3>1. ~Looping'
      BY <2>1 DEF create, Idle, Looping
    <3> QED
      BY <1>2, <2>1, <3>1 DEF create, serverVars, dbVars
  <2>2. CASE destroy(c)
    <3>1. CASE transactionsOpened_[c] = <<>>
      <4>1. Die(c) /\ ~Looping'
        BY <2>2, <3>1 DEF destroy, Idle, Looping
      <4>2. canTransaction => transaction_ = 0
        <5>1. Len(<<>>) = 0 /\ \A n \in Nat : n <= 0 => n = 0
          OBVIOUS
        <5> QED
          BY <1>1, <3>1, <5>1 DEF CopyInv, AllOpened
      <4> QED
        BY <1>5, <4>1, <4>2
    <3>2. CASE transactionsOpened_[c] # <<>>
      BY <1>4, <2>2, <3>2 DEF destroy
    <3> QED
      BY <3>1, <3>2
  <2>3. ASSUME NEW m \in Modes, setModeAccess(c, m)
        PROVE  CopyInv'
    <3>1. Reading(c) /\ SetAccess(c, m) /\ m \notin {"EDIT", "DEL"}
      BY <2>3 DEF setModeAccess, ReadsInMode
    <3>2. \A d \in Cursors : FreshCopy(d)'
      BY <1>1, <3>1 DEF FreshCopy, SetAccess, OneCursor
    <3> QED
      BY <1>1, <3>1, <3>2, LevelsSame DEF Reading, serverVars, dbVars, Idle, Looping
  <2>4. ASSUME NEW m \in Modes, NEW k \in Keys, refreshBuffer(c, m, k)
        PROVE  CopyInv'
    <3>1. Reading(c) /\ ReadRecord(c, m, k) /\ m \in {"EDIT", "DEL"} /\ table[k] # NoRow
      BY <2>4 DEF refreshBuffer, Exists
    <3>2. [key |-> k, value |-> table[k]] # NoBuffer
      <4>1. [key |-> k, value |-> table[k]] \in Records
        BY <1>1, <3>1 DEF Records, Tables
      <4> QED
        BY <4>1, NullAssumption
    <3>3. modeAccess_'[c] \in {"EDIT", "DEL"} =>
             /\ modeAccess_'[c] = m
             /\ bufferCopy_'[c] = [key |-> k, value |-> table[k]]
             /\ m = "EDIT" => editIndex'[c] = k
      BY <1>1, <3>1 DEF ReadRecord, SetAccess
    <3>4. table' = table
      BY <3>1 DEF Reading, serverVars
    <3>5. FreshCopy(c)'
      BY <3>2, <3>3, <3>4 DEF FreshCopy, Fresh
    <3>6. \A d \in Cursors : FreshCopy(d)'
      BY <3>5 DEF OneCursor
    <3> QED
      BY <1>1, <3>1, <3>6, LevelsSame DEF Reading, serverVars, dbVars, Idle, Looping
  <2>10. ASSUME refreshNew(c)
         PROVE  FALSE
    BY <2>10 DEF refreshNew, ReadsInMode
  <2>5. CASE commitBuffer(c)
    BY <2>5, DeliverCopies
  <2>6. CASE doTransaction(c)
    BY <2>6, OpenCopies
  <2>7. ASSUME NEW notify \in BOOLEAN, commit(c, notify)
        PROVE  CopyInv'
    BY <2>7, CommitCopies DEF commit, Idle
  <2>8. CASE rollback(c)
    BY <2>8, RollbackCopies DEF rollback, Idle
  <2>9. ASSUME NEW n \in {1, AllOpened(c)}, rollbackOpened(c, n) \/ commitOpened(c, n)
        PROVE  CopyInv'
    BY <1>4, <2>9 DEF rollbackOpened, commitOpened
  <2> QED
    BY <1>7, <2>1, <2>2, <2>3, <2>4, <2>5, <2>6, <2>7, <2>8, <2>9, <2>10 DEF CursorNext
<1>8. CASE RollbackNext
  <2>1. /\ UNCHANGED <<aborted, transaction_, transactionsOpened_, lastActiveCursor_, loop>>
        /\ Undoing
    BY <1>8 DEF RollbackNext, SweepQueue, UndoOp, UndoCurrent, EndRollback, serverVars, dbVars,
       cursorVars, Undoing
  <2>2. Undoing' \/ SetAccess(undo.cur, "BROWSE")
    BY <1>8, <2>1 DEF Browse, RollbackNext, SweepQueue, UndoOp, UndoCurrent, EndRollback, Undoing, IInv,
       TypeOK, Undos
  <2>3. ~Undoing' => \A d \in Cursors : FreshCopy(d)'
    BY <1>1, <2>1, <2>2, CopyStep
  <2>4. canTransaction /\ Looping' /\ loop'.then # "return" => transaction_ <= loop'.left
    BY <2>1 DEF CopyInv, Looping
  <2> QED
    BY <1>1, <2>1, <2>3, <2>4, LevelsSame
<1>9. CASE LoopNext
  <2>1. loop.cur \in Cursors /\ ~Undoing
    BY <1>1, <1>9 DEF LoopNext, LoopRollback, LoopCommit, LoopIdle, LoopReturn,
       LoopDestroy, LoopFinish, LoopTurn, LoopEnds, Looping
  <2>2. CASE LoopRollback
    BY <2>1, <2>2, RollbackCopies DEF LoopRollback, LoopTurn
  <2>3. CASE LoopCommit
    BY <2>1, <2>3, CommitCopies DEF LoopCommit, LoopTurn
  <2>4. CASE LoopIdle
    <3>1. canTransaction => transaction_ = 0
      BY <2>4 DEF LoopIdle, OneCursor, RollbacksAccepted, RefusesRollback
    <3>2. loop.left > 0 /\ loop.left \in Nat /\ loop'.left = loop.left - 1
      BY <1>1, <2>4 DEF LoopIdle, LoopTurn, Turn, Loops
    <3>3. canTransaction => transaction_ <= loop'.left
      BY <3>1, <3>2
    <3> QED
      BY <1>2, <2>4, <3>3 DEF LoopIdle, serverVars, dbVars, cursorVars
  <2>5. CASE LoopReturn
    <3>1. ~Looping'
      BY <2>5 DEF LoopReturn, LoopEnds, NoLoop, Looping
    <3> QED
      BY <1>2, <2>5, <3>1 DEF LoopReturn, serverVars, dbVars, cursorVars
  <2>6. ASSUME NEW then, then # "return", LoopEnds(then)
        PROVE  ~Looping' /\ (canTransaction => transaction_ = 0)
    <3>1. Looping /\ loop.left = 0 /\ loop.then = then /\ ~Looping'
      BY <2>6 DEF LoopEnds, NoLoop, Looping
    <3>2. canTransaction => transaction_ <= 0
      BY <2>6, <3>1 DEF CopyInv
    <3> QED
      BY <1>1, <3>1, <3>2
  <2>7. CASE LoopDestroy
    <3>1. LoopEnds("destroy") /\ Die(loop.cur)
      BY <2>7 DEF LoopDestroy
    <3>2. ~Looping' /\ (canTransaction => transaction_ = 0)
      BY <2>6, <3>1
    <3> QED
      BY <1>5, <2>1, <3>1, <3>2
  <2>8. CASE LoopFinish
    <3>1. LoopEnds("finish") /\ Finish
      BY <2>8 DEF LoopFinish
    <3>2. canTransaction => transaction_ = 0
      BY <2>6, <3>1
    <3> QED
      BY <1>6, <2>1, <3>1, <3>2
  <2> QED
    BY <1>9, <2>2, <2>3, <2>4, <2>5, <2>7, <2>8 DEF LoopNext
<1>10. CASE reconnect
  <2>1. CASE transaction_ > 0 /\ lastActiveCursor_ # NoCursor
    <3>1. lastActiveCursor_ \in Cursors
      BY <2>1 DEF IInv, TypeOK
    <3> QED
      BY <1>4, <1>10, <2>1, <3>1 DEF reconnect
  <2>2. CASE ~(transaction_ > 0 /\ lastActiveCursor_ # NoCursor)
    <3>1. Finish /\ ~Undoing
      BY <1>10, <2>2 DEF reconnect, Idle
    <3>2. canTransaction => transaction_ = 0
      BY <1>1, <2>2 DEF CopyInv
    <3> QED
      BY <1>6, <3>1, <3>2
  <2> QED
    BY <2>1, <2>2
<1>11. CASE crash
  <2>1. transaction_' = 0 /\ ~aborted' /\ modeAccess_' = [c \in Cursors |-> "BROWSE"]
    BY <1>11 DEF crash, EndTransaction
  <2>2. ~Undoing' => \A d \in Cursors : FreshCopy(d)'
    BY <2>1, CopyStep
  <2> QED
    BY <2>1, <2>2, LevelsGone
<1> QED
  BY <1>3, <1>7, <1>8, <1>9, <1>10, <1>11 DEF Next

\* With one cursor that reads in its mode every delivery is made from a fresh copy.
LEMMA CopyInvariance ==
    ASSUME EmulationAssumption, OneCursor, ReadsInMode
    PROVE  HSpec => [][FreshDelivery]_hvars
<1>1. Init => IInv /\ CopyInv
  <2> SUFFICES ASSUME Init PROVE IInv /\ CopyInv
    OBVIOUS
  <2>1. /\ transaction_ = 0 /\ ~aborted /\ ~Looping
        /\ modeAccess_ = [c \in Cursors |-> "BROWSE"]
        /\ transactionsOpened_ = [c \in Cursors |-> <<>>]
    BY DEF Init, NoLoop, Looping
  <2>2. \A c \in Cursors : FreshCopy(c) /\ transaction_ <= AllOpened(c)
    <3>1. Len(<<>>) = 0 /\ 0 <= 0
      OBVIOUS
    <3> QED
      BY <2>1, <3>1 DEF FreshCopy, AllOpened
  <2>3. ~(transaction_ > 0)
    BY <2>1
  <2> QED
    BY <2>1, <2>2, <2>3, InitInv DEF CopyInv
<1>2. IInv /\ CopyInv /\ [HNext]_hvars => IInv' /\ CopyInv'
  <2> SUFFICES ASSUME IInv, CopyInv, [HNext]_hvars PROVE IInv' /\ CopyInv'
    OBVIOUS
  <2>1. [Next]_vars
    BY DEF HNext, hvars
  <2> QED
    BY <2>1, NextInv, CopyInvStep
<1>3. CopyInv => FreshDelivery
  <2> SUFFICES ASSUME CopyInv, NEW c \in Cursors, commitBuffer(c), modeAccess_[c] # "INSERT"
               PROVE  /\ Fresh(c)
                      /\ modeAccess_[c] = "DEL" =>
                            \E veto \in BOOLEAN : commitDel(c, bufferCopy_[c].key, veto)
    BY DEF FreshDelivery
  <2>1. ~Undoing /\ modeAccess_[c] \in {"EDIT", "DEL"}
    BY DEF commitBuffer, commitInsert, commitEdit, commitDel, Delivering, Idle
  <2>2. Fresh(c)
    BY <2>1 DEF CopyInv, FreshCopy
  <2>3. ASSUME modeAccess_[c] = "DEL"
        PROVE  \E veto \in BOOLEAN : commitDel(c, bufferCopy_[c].key, veto)
    <3>1. PICK k \in Keys, veto \in BOOLEAN : commitDel(c, k, veto)
      BY <2>3 DEF commitBuffer, commitInsert, commitEdit, Delivering
    <3>2. k = bufferCopy_[c].key
      BY <3>1 DEF commitDel, DeletesKey, EmulationAssumption, ReadsInMode
    <3> QED
      BY <3>1, <3>2
  <2> QED
    BY <2>2, <2>3
<1> QED
  BY <1>1, <1>2, <1>3, PTL DEF HSpec, HInit

(***************************************************************************)
(* One cursor, which reads the record in the mode it delivers it in, and   *)
(* one emulated level around which the engine may have its transaction:    *)
(* the nesting is implemented whatever the calls.                          *)
(***************************************************************************)
THEOREM OneLevelNesting ==
    ASSUME EmulationAssumption, canTransaction, OneCursor, ReadsInMode, OneEmulatedLevel
    PROVE  HSpec => Nested
<1>1. HSpec => [][FreshDelivery]_hvars
  BY CopyInvariance
<1>2. HSpec => []QueueHoldsNothing
  <2>1. [HNext]_hvars => [Next]_vars
    BY DEF HNext, hvars
  <2>2. HInit => Init
    BY DEF HInit
  <2> QED
    BY <2>1, <2>2, QueueInvariance, PTL DEF HSpec
<1> QED
  BY <1>1, <1>2, EmulatedNestingImplemented

(***************************************************************************)
(* There, and without transactions in the engine, a rollback restores the  *)
(* table the level began with.                                             *)
(***************************************************************************)
THEOREM OneLevelRollback ==
    ASSUME EmulationAssumption, OneCursor, ReadsInMode, OneEmulatedLevel
    PROVE  HSpec => RollbackRestores
<1>1. HSpec => [][FreshDelivery]_hvars
  BY CopyInvariance
<1>2. HSpec => []QueueHoldsNothing
  <2>1. [HNext]_hvars => [Next]_vars
    BY DEF HNext, hvars
  <2>2. HInit => Init
    BY DEF HInit
  <2> QED
    BY <2>1, <2>2, QueueInvariance, PTL DEF HSpec
<1> QED
  BY <1>1, <1>2, EmulatedRollbackIsExact

-----------------------------------------------------------------------------
\* No step makes the engine give its transaction up.
LEMMA KeepsTransaction ==
    ASSUME StatementsTaken, ~aborted, [Next]_vars
    PROVE  ~aborted'
<1>1. ASSUME NEW c \in Cursors, commitBuffer(c)
      PROVE  ~aborted'
  <2>1. ASSUME Reject, Backend # "psql"
        PROVE  ~aborted'
    BY <2>1 DEF Reject
  <2>2. ASSUME NEW r \in Records, NEW veto \in BOOLEAN, commitInsert(c, r, veto)
        PROVE  ~aborted'
    BY <2>1, <2>2 DEF commitInsert, Accept, StatementsTaken
  <2>3. ASSUME NEW r \in Records, NEW veto \in BOOLEAN, commitEdit(c, r, veto)
        PROVE  ~aborted'
    BY <2>1, <2>3 DEF commitEdit, Accept, UpdateClashes, StatementsTaken
  <2>4. ASSUME NEW k \in Keys, NEW veto \in BOOLEAN, commitDel(c, k, veto)
        PROVE  ~aborted'
    BY <2>4 DEF commitDel, Accept
  <2> QED
    BY <1>1, <2>2, <2>3, <2>4 DEF commitBuffer
<1>2. ASSUME NEW c \in Cursors, NEW notify \in BOOLEAN, doCommit(c, notify)
      PROVE  ~aborted'
  BY <1>2 DEF doCommit, CommitTransaction, EndFails, CommitSavePoint, EndTransaction
<1>3. ASSUME NEW c \in Cursors, doRollback(c)
      PROVE  ~aborted'
  BY <1>3 DEF doRollback, RollbackTransaction, EndFails, RollbackServer, RollbackEmulated,
     EndTransaction, serverVars
<1>4. ASSUME NEW c \in Cursors, doTransaction(c)
      PROVE  ~aborted'
  BY <1>4 DEF doTransaction, BeginTransaction, BeginSavePoint, serverVars
<1>5. ASSUME NEW c \in Cursors, CursorNext(c)
      PROVE  ~aborted'
  <2>1. ASSUME create(c) \/ destroy(c)
        PROVE  ~aborted'
    BY <2>1 DEF create, destroy, Die, StartLoop, serverVars
  <2>2. CASE \/ \E m \in Modes : setModeAccess(c, m) \/ \E k \in Keys : refreshBuffer(c, m, k)
             \/ refreshNew(c)
    BY <2>2 DEF setModeAccess, refreshBuffer, refreshNew, Reading, serverVars
  <2>3. ASSUME NEW notify \in BOOLEAN, commit(c, notify)
        PROVE  ~aborted'
    BY <1>2, <2>3 DEF commit
  <2>4. CASE rollback(c)
    BY <1>3, <2>4 DEF rollback
  <2>5. ASSUME NEW n \in {1, AllOpened(c)}, rollbackOpened(c, n) \/ commitOpened(c, n)
        PROVE  ~aborted'
    BY <2>5 DEF rollbackOpened, commitOpened, StartLoop, serverVars
  <2> QED
    BY <1>1, <1>4, <1>5, <2>1, <2>2, <2>3, <2>4, <2>5 DEF CursorNext
<1>6. CASE RollbackNext
  BY <1>6 DEF RollbackNext, SweepQueue, UndoOp, UndoCurrent, EndRollback, serverVars
<1>7. CASE LoopNext
  <2>1. CASE LoopRollback \/ LoopCommit
    <3>1. CASE LoopRollback
      BY <3>1 DEF LoopRollback, doRollback, RollbackTransaction, EndFails, RollbackServer,
         RollbackEmulated, EndTransaction, serverVars
    <3>2. CASE LoopCommit
      BY <3>2 DEF LoopCommit, doCommit, CommitTransaction, EndFails, CommitSavePoint,
         EndTransaction
    <3> QED
      BY <2>1, <3>1, <3>2
  <2>2. CASE LoopIdle \/ LoopReturn \/ LoopDestroy \/ LoopFinish
    BY <2>2 DEF LoopIdle, LoopReturn, LoopDestroy, LoopFinish, Die, Finish, EndTransaction,
       serverVars
  <2> QED
    BY <1>7, <2>1, <2>2 DEF LoopNext
<1>8. CASE reconnect \/ crash
  BY <1>8 DEF reconnect, crash, StartLoop, Finish, EndTransaction, serverVars
<1>9. CASE UNCHANGED vars
  BY <1>9 DEF vars, serverVars
<1> QED
  BY <1>5, <1>6, <1>7, <1>8, <1>9 DEF Next

(***************************************************************************)
(* Where the engine is sent no statement it refuses, what the connection   *)
(* sees when the outermost commit reports success is durable: the finding  *)
(* of the run aborted_commit is about nothing else.                        *)
(***************************************************************************)
THEOREM CommitsMakeDurable == ASSUME StatementsTaken PROVE Spec => CommitIsEffective
<1>1. Init => ~aborted
  BY DEF Init
<1>2. ~aborted /\ [Next]_vars => ~aborted'
  BY KeepsTransaction
<1>3. ~aborted =>
         [\A c \in Cursors, notify \in BOOLEAN :
              CloseLevel(c) /\ CommitTransaction(c, notify) => durable' = table]_vars
  BY DEF CommitTransaction, EndTransaction
<1> QED
  BY <1>1, <1>2, <1>3, PTL DEF Spec, CommitIsEffective

-----------------------------------------------------------------------------
(***************************************************************************)
(* Why a call ends.  While one is in progress every step ends the loop it  *)
(* runs, takes a turn of it, or, within a turn, brings an emulated         *)
(* rollback closer to its end: to its next phase, one savepoint further in *)
(* the queue, or one operation further in the savepoint being undone.      *)
(* These are naturals in lexicographic order, so no call goes on for ever, *)
(* whatever happens between its steps.                                     *)
(***************************************************************************)
PhaseLeft(phase) == IF phase = "sweep" THEN 2 ELSE IF phase = "current" THEN 1 ELSE 0

TakesTurn == Looping /\ (Looping' => loop'.left \in Nat /\ loop'.left < loop.left)

UndoesFurther ==
    \/ PhaseLeft(undo'.phase) < PhaseLeft(undo.phase)
    \/ /\ undo'.phase = undo.phase
       /\ \/ undo'.left \in Nat /\ undo'.left < undo.left
          \/ /\ undo'.left = undo.left
             /\ Len(undo'.opInfos) \in Nat /\ Len(undo'.opInfos) < Len(undo.opInfos)

Advances ==
    \/ TakesTurn
    \/ UndoesFurther /\ (loop' = loop \/ ~(Looping \/ Looping'))

\* A step of the undoing.
LEMMA RollbackAdvances ==
    ASSUME IInv, RollbackNext
    PROVE  UndoesFurther /\ loop' = loop
<1>1. undo \in Undos /\ undo.left \in Nat /\ undo.opInfos \in Seq(OpInfos)
  BY DEF IInv, TypeOK, Undos
<1>2. CASE SweepQueue
  <2>1. /\ undo.left > 0 /\ undo'.phase = undo.phase /\ undo'.left = undo.left - 1
        /\ loop' = loop
    BY <1>1, <1>2 DEF SweepQueue, Undos
  <2> QED
    BY <1>1, <2>1 DEF UndoesFurther
<1>3. CASE UndoOp
  <2>1. /\ undo'.phase = undo.phase /\ undo'.left = undo.left
        /\ undo'.opInfos = SubSeq(undo.opInfos, 1, Len(undo.opInfos) - 1)
        /\ undo.opInfos # <<>> /\ loop' = loop
    BY <1>1, <1>3 DEF UndoOp, Undos
  <2>2. \A s \in Seq(OpInfos) : s # <<>> =>
           /\ Len(SubSeq(s, 1, Len(s) - 1)) \in Nat
           /\ Len(SubSeq(s, 1, Len(s) - 1)) < Len(s)
    OBVIOUS
  <2> QED
    BY <1>1, <2>1, <2>2 DEF UndoesFurther
<1>4. CASE UndoCurrent
  <2>1. undo.phase = "sweep" /\ undo'.phase = "current" /\ loop' = loop
    BY <1>1, <1>4 DEF UndoCurrent, Undos
  <2>2. PhaseLeft("current") < PhaseLeft("sweep")
    BY DEF PhaseLeft
  <2> QED
    BY <2>1, <2>2 DEF UndoesFurther
<1>5. CASE EndRollback
  <2>1. undo.phase = "current" /\ undo'.phase = "none" /\ loop' = loop
    BY <1>1, <1>5 DEF EndRollback, NoUndo
  <2>2. PhaseLeft("none") < PhaseLeft("current")
    BY DEF PhaseLeft
  <2> QED
    BY <2>1, <2>2 DEF UndoesFurther
<1> QED
  BY <1>2, <1>3, <1>4, <1>5 DEF RollbackNext

(***************************************************************************)
(* Every step taken while a call is in progress brings it closer to its    *)
(* end, for every queue, number of operations and number of turns: with    *)
(* the fairness of these steps, what CallsReturn needs.                    *)
(***************************************************************************)
THEOREM CallsAdvance == Spec => [][~Idle => Advances]_vars
<1>1. ASSUME IInv, Next, ~Idle
      PROVE  Advances
  <2>1. loop \in Loops /\ loop.left \in Nat
    BY <1>1 DEF IInv, TypeOK, Loops
  <2>2. CASE \E c \in Cursors : CursorNext(c)
    BY <1>1, <2>2 DEF CursorNext, create, destroy, setModeAccess, refreshBuffer, refreshNew, Reading,
       commitBuffer, commitInsert, commitEdit, commitDel, Delivering, doTransaction, commit,
       rollback, rollbackOpened, commitOpened
  <2>3. CASE RollbackNext
    <3>1. UndoesFurther /\ loop' = loop
      BY <1>1, <2>3, RollbackAdvances
    <3> QED
      BY <3>1 DEF Advances
  <2>4. CASE LoopNext
    <3>1. CASE LoopRollback \/ LoopCommit \/ LoopIdle
      <4>1. loop.left > 0 /\ Looping /\ Turn
        BY <3>1 DEF LoopRollback, LoopCommit, LoopIdle, LoopTurn, Looping
      <4>2. loop'.left = loop.left - 1
        BY <2>1, <4>1 DEF Turn, Loops
      <4> QED
        BY <2>1, <4>1, <4>2 DEF Advances, TakesTurn
    <3>2. CASE LoopReturn \/ LoopDestroy \/ LoopFinish
      <4>1. Looping /\ loop' = NoLoop
        BY <3>2 DEF LoopReturn, LoopDestroy, LoopFinish, LoopEnds
      <4> QED
        BY <4>1 DEF Advances, TakesTurn, NoLoop, Looping
    <3> QED
      BY <2>4, <3>1, <3>2 DEF LoopNext
  <2>5. CASE reconnect
    BY <1>1, <2>5 DEF reconnect
  <2>6. CASE crash
    <3>1. ~Looping' /\ undo'.phase = "none"
      BY <2>6 DEF crash, NoLoop, NoUndo, Looping
    <3>2. CASE Looping
      BY <3>1, <3>2 DEF Advances, TakesTurn
    <3>3. CASE ~Looping
      <4>1. undo.phase \in {"sweep", "current"}
        BY <1>1, <3>3 DEF Idle, Undoing, IInv, TypeOK, Undos
      <4>2. \A p \in {"sweep", "current"} : PhaseLeft("none") < PhaseLeft(p)
        BY DEF PhaseLeft
      <4> QED
        BY <3>1, <3>3, <4>1, <4>2 DEF Advances, UndoesFurther
    <3> QED
      BY <3>2, <3>3
  <2> QED
    BY <1>1, <2>2, <2>3, <2>4, <2>5, <2>6 DEF Next
<1>2. IInv /\ [Next]_vars => [~Idle => Advances]_vars
  BY <1>1
<1> QED
  BY <1>2, Invariance, PTL DEF Spec
=============================================================================
